------------------------ MODULE DevToolsBridgeProofs ------------------------
(***************************************************************************)
(* Theorems about DevToolsBridge, for every set of scripts, handler names, *)
(* programs and API calls and every bound: types, own answers, messages    *)
(* that reach their handler, handlers that are the agent's bindings, user  *)
(* scripts that new documents run in order, and completions and messages   *)
(* that are dealt with once and never forgotten.                           *)
(***************************************************************************)
EXTENDS DevToolsBridge, FiniteSetTheorems, TLAPS

-----------------------------------------------------------------------------
(***************************************************************************)
(* Types.  No command removes a script: RawResult never finds an           *)
(* identifier, so there is none to remove.                                 *)
(***************************************************************************)
OfName == {"addBinding", "removeBinding", "evaluateShim", "evaluateDelete"}

Requests ==
    [method : {"Runtime.enable", "Page.enable"}, arg : {""}]
        \cup [method : OfName, arg : Names]
        \cup [method : {"addScript"}, arg : [kind : {"shim"}, of : Names]]
        \cup [method : {"addScript"}, arg : [kind : {"user"}, of : Sources]]
        \cup [method : {"evaluate"}, arg : Programs]

Commands == {[id |-> k, method |-> r.method, arg |-> r.arg] : k \in Nat \ {0}, r \in Requests}

Replies ==
    {<<>>, Succeeded} \cup {Identified(k) : k \in Nat} \cup {Answer(p) : p \in Programs}

Blocks == [kind : {"didCreate", "result", "event"}, id : Nat, reply : Replies]

Agents == [runtime : BOOLEAN, pageDomain : BOOLEAN, bindings : SUBSET Names, shims : SUBSET Names,
           scripts : Seq([script : Sources, identifier : Nat])]

EvalRecord == [program : Programs, outcome : Outcomes]
PostRecord == [name : Names, removed : BOOLEAN, outcome : {"posted", "handled", "ignored"}]

ViewTypes ==
    /\ browser \in {"none", "attached", "unowned", "closed"}
    /\ nextId \in Nat /\ calls \in 0..MaxCalls /\ enabled \in BOOLEAN
    /\ DOMAIN evalCallbacks \subseteq 1..nextId /\ rawCallbacks \subseteq 1..nextId
    /\ handlers \subseteq Names /\ IsFiniteSet(handlers)
    /\ scripts \in Seq(Sources) /\ identifiers = <<>>

AgentTypes ==
    /\ commands \in Seq(Commands) /\ \A i \in DOMAIN commands : commands[i].id <= nextId
    /\ agent \in Agents /\ page \subseteq Names
    /\ awaiting \subseteq [id : 1..nextId, program : Programs] /\ IsFiniteSet(awaiting)

RecordTypes ==
    /\ queue \in Seq(Blocks)
    /\ evals \in Seq(EvalRecord) /\ posts \in Seq(PostRecord)
    /\ \A id \in DOMAIN evalCallbacks : evalCallbacks[id] \in DOMAIN evals
    /\ \A i \in DOMAIN queue : queue[i].kind = "event" => queue[i].id \in DOMAIN posts

TInv == ViewTypes /\ AgentTypes /\ RecordTypes

-----------------------------------------------------------------------------
(***************************************************************************)
(* Answers.  A message id belongs to one command all its life, and the     *)
(* command, the open evaluation and the result that carry it are about the *)
(* same script as the callback that waits for it.                          *)
(***************************************************************************)
\* The script of the callback that waits for id.
Awaited(id) == evals[evalCallbacks[id]].program

CommandsAnswer ==
    \A i \in DOMAIN commands :
        IF commands[i].method = "evaluate"
        THEN /\ commands[i].id \notin rawCallbacks
             /\ commands[i].id \in DOMAIN evalCallbacks => commands[i].arg = Awaited(commands[i].id)
        ELSE commands[i].id \notin DOMAIN evalCallbacks

PromisesAnswer ==
    \A e \in awaiting :
        /\ e.id \notin rawCallbacks
        /\ e.id \in DOMAIN evalCallbacks => e.program = Awaited(e.id)

ResultsAnswer ==
    \A i \in DOMAIN queue : queue[i].kind = "result" =>
        /\ queue[i].id \in rawCallbacks => "result" \notin DOMAIN queue[i].reply
        /\ queue[i].id \in DOMAIN evalCallbacks =>
              queue[i].reply = <<>> \/ queue[i].reply = Answer(Awaited(queue[i].id))
        /\ queue[i].id \in 1..nextId

\* What an outcome may be when the answer is about program.
Fitting(program) == IF program = "value" THEN {"value", "error"}
                    ELSE IF program = "undefined" THEN {"nil", "error"} ELSE {"error"}

OutcomesFit ==
    \A i \in DOMAIN evals :
        evals[i].outcome = "pending" \/ evals[i].outcome \in Fitting(evals[i].program)

AnswerInv == CommandsAnswer /\ PromisesAnswer /\ ResultsAnswer /\ OutcomesFit

-----------------------------------------------------------------------------
(***************************************************************************)
(* Order.  What a command needs was done before it: its domain is enabled, *)
(* the shim it evaluates is already one of every new document.             *)
(***************************************************************************)
\* Already so, or made so by a command before the i-th of cs.
Before(cs, i, method, arg, already) ==
    already \/ \E j \in DOMAIN cs : j < i /\ cs[j].method = method /\ cs[j].arg = arg

Ordered(cs, runtime, pageDomain, shims) ==
    \A i \in DOMAIN cs :
        /\ cs[i].method = "Page.enable" => Before(cs, i, "Runtime.enable", "", runtime)
        /\ cs[i].method = "addScript" => Before(cs, i, "Page.enable", "", pageDomain)
        /\ cs[i].method = "evaluateShim" =>
              Before(cs, i, "addScript", Shim(cs[i].arg), cs[i].arg \in shims)

DomainsInv ==
    /\ Ordered(commands, agent.runtime, TRUE, agent.shims)
    /\ agent.pageDomain => agent.runtime
    /\ page \subseteq agent.shims
    /\ ~HasBrowser => commands = <<>>
    /\ browser # "attached" => awaiting = {}

\* The block of OnAfterCreated has not run.
Creating == \E i \in DOMAIN queue : queue[i].kind = "didCreate"

\* n gets its shim after the Page domain is enabled: no navigation takes it away then.
Coming(cs, n, pageDomain) ==
    pageDomain \/ \E j \in DOMAIN cs : /\ cs[j].method = "evaluateShim" /\ cs[j].arg = n
                                       /\ Before(cs, j, "Page.enable", "", FALSE)

\* Until its block has run, _runtimeDomainsEnabled may speak of the browser before.
EnabledInv ==
    browser = "attached" /\ ~Creating =>
        /\ handlers # {} \/ scripts # <<>> => enabled
        /\ enabled => Before(commands, Len(commands) + 1, "Page.enable", "", agent.pageDomain)
        /\ \A n \in handlers : Coming(commands, n, agent.pageDomain)

-----------------------------------------------------------------------------
(***************************************************************************)
(* Ends.  Of the commands that switch n on and off the last one decides.   *)
(***************************************************************************)
\* n is on when the commands cs have been executed.
EndsOn(cs, on, off, n, now) ==
    /\ \A i \in DOMAIN cs : cs[i].method = off /\ cs[i].arg = n =>
          \E j \in DOMAIN cs : j > i /\ cs[j].method = on /\ cs[j].arg = n
    /\ now \/ \E j \in DOMAIN cs : cs[j].method = on /\ cs[j].arg = n

Bound(n) == EndsOn(commands, "addBinding", "removeBinding", n, n \in agent.bindings)
Unbound(n) == EndsOn(commands, "removeBinding", "addBinding", n, n \notin agent.bindings)
Callable(n) == EndsOn(commands, "evaluateShim", "evaluateDelete", n, n \in page)

HandlersInv ==
    browser = "attached" =>
        /\ \A n \in Names \ handlers : Unbound(n)
        /\ ~Creating => \A n \in handlers : Bound(n) /\ Callable(n)

-----------------------------------------------------------------------------
(***************************************************************************)
(* User scripts.  The agent has the first m of the host's scripts ss as    *)
(* the last ones of its own; the others are on their way, in order, at the *)
(* places p of the commands cs.  A script that was removed may come before *)
(* all of them.                                                            *)
(***************************************************************************)
IsUser(c) == c.method = "addScript" /\ c.arg.kind = "user"

Rest(ss, m) == (m + 1)..Len(ss)

Underway(cs, ss, own, m, p) ==
    /\ m <= Len(own)
    /\ \A k \in 1..m : own[Len(own) - m + k].script = ss[k]
    /\ \A k \in Rest(ss, m) : cs[p[k]].method = "addScript" /\ cs[p[k]].arg = UserScript(ss[k])
    /\ \A k, l \in Rest(ss, m) : k < l => p[k] < p[l]
    /\ \A i \in DOMAIN cs : IsUser(cs[i]) =>
          \/ \E k \in Rest(ss, m) : p[k] = i
          \/ m = 0 /\ \A k \in Rest(ss, 0) : i < p[k]

Arrive(cs, ss, own) ==
    \E m \in 0..Len(ss) : \E p \in [Rest(ss, m) -> DOMAIN cs] : Underway(cs, ss, own, m, p)

ScriptsInv ==
    browser = "attached" /\ ~Creating => Arrive(commands, scripts, agent.scripts)

-----------------------------------------------------------------------------
(***************************************************************************)
(* Messages.                                                               *)
(***************************************************************************)
PostsInv ==
    /\ \A i \in DOMAIN posts : posts[i].name \notin handlers => posts[i].removed
    /\ MessagesReachHandlers

\* The calls that are lost are calls.
LostInv == live \in Nat /\ lost \subseteq DOMAIN evals

IInv ==
    TInv /\ AnswerInv /\ DomainsInv /\ EnabledInv /\ HandlersInv /\ ScriptsInv /\ PostsInv /\ LostInv
-----------------------------------------------------------------------------
(***************************************************************************)
(* Requests, commands and replies.                                         *)
(***************************************************************************)
LEMMA RequestFacts ==
    ASSUME NEW r \in Requests
    PROVE  /\ r.method \in OfName => r.arg \in Names
           /\ r.method = "addScript" => \/ \E n \in Names : r.arg = Shim(n)
                                        \/ \E s \in Sources : r.arg = UserScript(s)
           /\ r.method = "evaluate" => r.arg \in Programs
           /\ r.method # "removeScript"
<1>1. CASE r \in [method : {"addScript"}, arg : [kind : {"shim"}, of : Names]]
  <2>1. r.method = "addScript" /\ r.arg \in [kind : {"shim"}, of : Names]
    BY <1>1
  <2>2. r.arg = Shim(r.arg.of) /\ r.arg.of \in Names
    BY <2>1 DEF Shim
  <2> QED BY <2>1, <2>2 DEF OfName
<1>2. CASE r \in [method : {"addScript"}, arg : [kind : {"user"}, of : Sources]]
  <2>1. r.method = "addScript" /\ r.arg \in [kind : {"user"}, of : Sources]
    BY <1>2
  <2>2. r.arg = UserScript(r.arg.of) /\ r.arg.of \in Sources
    BY <2>1 DEF UserScript
  <2> QED BY <2>1, <2>2 DEF OfName
<1>3. CASE r \in [method : OfName, arg : Names]
  BY <1>3 DEF OfName
<1>4. CASE r \in [method : {"evaluate"}, arg : Programs]
  BY <1>4 DEF OfName
<1>5. CASE r \in [method : {"Runtime.enable", "Page.enable"}, arg : {""}]
  BY <1>5 DEF OfName
<1> QED BY <1>1, <1>2, <1>3, <1>4, <1>5 DEF Requests

LEMMA CommandFacts ==
    ASSUME NEW c \in Commands
    PROVE  /\ c.id \in Nat \ {0}
           /\ c.method \in OfName => c.arg \in Names
           /\ c.method = "addScript" => \/ \E n \in Names : c.arg = Shim(n)
                                        \/ \E s \in Sources : c.arg = UserScript(s)
           /\ c.method = "evaluate" => c.arg \in Programs
           /\ c.method # "removeScript"
<1>1. PICK k \in Nat \ {0}, r \in Requests : c = [id |-> k, method |-> r.method, arg |-> r.arg]
  BY DEF Commands
<1>2. c.id = k /\ c.method = r.method /\ c.arg = r.arg
  BY <1>1
<1> QED BY <1>2, RequestFacts

LEMMA OneRequest ==
    /\ \A n \in Names, method \in OfName : Command(method, n) \in Requests
    /\ \A n \in Names : Command("addScript", Shim(n)) \in Requests
    /\ \A s \in Sources : Command("addScript", UserScript(s)) \in Requests
    /\ \A p \in Programs : Command("evaluate", p) \in Requests
    /\ Command("Runtime.enable", "") \in Requests /\ Command("Page.enable", "") \in Requests
<1>1. \A n \in Names, method \in OfName : Command(method, n) \in Requests
  BY DEF Command, Requests
<1>2. \A n \in Names : Command("addScript", Shim(n)) \in Requests
  BY DEF Command, Requests, Shim
<1>3. \A s \in Sources : Command("addScript", UserScript(s)) \in Requests
  BY DEF Command, Requests, UserScript
<1>4. \A p \in Programs : Command("evaluate", p) \in Requests
  BY DEF Command, Requests
<1>5. Command("Runtime.enable", "") \in Requests /\ Command("Page.enable", "") \in Requests
  BY DEF Command, Requests
<1> QED BY <1>1, <1>2, <1>3, <1>4, <1>5

LEMMA CommandFields == \A method, arg : Command(method, arg).method = method /\ Command(method, arg).arg = arg
BY DEF Command

LEMMA BlockFields ==
    /\ \A kind, id, reply :
          /\ Block(kind, id, reply).kind = kind /\ Block(kind, id, reply).id = id
          /\ Block(kind, id, reply).reply = reply
    /\ \A kind \in {"didCreate", "result", "event"}, id \in Nat, reply \in Replies :
          Block(kind, id, reply) \in Blocks
BY DEF Block, Blocks

LEMMA ReplyFacts ==
    /\ <<>> \in Replies /\ Succeeded \in Replies
    /\ \A k \in Nat : Identified(k) \in Replies
    /\ \A p \in Programs : Answer(p) \in Replies
    /\ "result" \notin DOMAIN Succeeded
    /\ \A k : "result" \notin DOMAIN Identified(k)
<1>1. "result" \notin DOMAIN Succeeded
  BY DEF Succeeded
<1>2. \A k : "result" \notin DOMAIN Identified(k)
  BY DEF Identified
<1> QED BY <1>1, <1>2 DEF Replies

LEMMA EmptyReply == "result" \notin DOMAIN <<>> /\ "success" \notin DOMAIN <<>>
OBVIOUS

\* What the completion of an evaluation gets.
LEMMA CompletionOfAnswer ==
    /\ Completion(<<>>) = "error"
    /\ \A p \in Programs : Completion(Answer(p)) =
          CASE p = "value" -> "value" [] p = "undefined" -> "nil" [] OTHER -> "error"
<1>1. Completion(<<>>) = "error"
  BY EmptyReply DEF Completion
<1>2. ASSUME NEW p \in Programs, p = "throws" PROVE Completion(Answer(p)) = "error"
  <2>1. "exceptionDetails" \in DOMAIN Answer(p)
    BY <1>2 DEF Answer
  <2> QED BY <2>1 DEF Completion
<1>3. ASSUME NEW p \in Programs, p # "throws"
      PROVE  Completion(Answer(p)) = IF p = "undefined" THEN "nil" ELSE p
  <2>1. Answer(p) = [success |-> TRUE, result |-> p]
    BY <1>3 DEF Answer
  <2>2. "success" \in DOMAIN Answer(p) /\ "exceptionDetails" \notin DOMAIN Answer(p)
    BY <2>1
  <2>3. Answer(p).result = p
    BY <2>1
  <2> QED BY <2>2, <2>3 DEF Completion
<1> QED BY <1>1, <1>2, <1>3, ProgramsAssumption

LEMMA ShimsAndUsers ==
    /\ \A n : Shim(n).kind = "shim" /\ Shim(n).of = n
    /\ \A s : UserScript(s).kind = "user" /\ UserScript(s).of = s
    /\ \A n, s : Shim(n) # UserScript(s)
    /\ \A n, m : Shim(n) = Shim(m) => n = m
<1>1. \A n : Shim(n).kind = "shim" /\ Shim(n).of = n
  BY DEF Shim
<1>2. \A s : UserScript(s).kind = "user" /\ UserScript(s).of = s
  BY DEF UserScript
<1> QED BY <1>1, <1>2

-----------------------------------------------------------------------------
(***************************************************************************)
(* Sending a list of requests.                                             *)
(***************************************************************************)
\* The requests of list, numbered from from + 1.
Numbered(list, from) ==
    [i \in DOMAIN list |-> [id |-> from + i, method |-> list[i].method, arg |-> list[i].arg]]

LEMMA NumberedFacts ==
    ASSUME NEW list \in Seq(Requests), NEW from \in Nat
    PROVE  /\ Numbered(list, from) \in Seq(Commands)
           /\ Len(Numbered(list, from)) = Len(list)
           /\ \A i \in DOMAIN list :
                 /\ Numbered(list, from)[i].id = from + i
                 /\ Numbered(list, from)[i].method = list[i].method
                 /\ Numbered(list, from)[i].arg = list[i].arg
<1>1. DOMAIN list = 1..Len(list) /\ Len(list) \in Nat
  OBVIOUS
<1>2. ASSUME NEW i \in DOMAIN list
      PROVE  [id |-> from + i, method |-> list[i].method, arg |-> list[i].arg] \in Commands
  <2>1. list[i] \in Requests /\ from + i \in Nat \ {0}
    BY <1>1
  <2> QED BY <2>1 DEF Commands
<1>3. Numbered(list, from) \in [1..Len(list) -> Commands]
  BY <1>1, <1>2 DEF Numbered
<1> QED BY <1>1, <1>3 DEF Numbered

LEMMA ConcatFacts ==
    ASSUME NEW S, NEW s \in Seq(S), NEW t \in Seq(S)
    PROVE  /\ s \o t \in Seq(S) /\ Len(s \o t) = Len(s) + Len(t)
           /\ \A i \in DOMAIN s : i \in DOMAIN (s \o t) /\ (s \o t)[i] = s[i]
           /\ \A i \in DOMAIN t : Len(s) + i \in DOMAIN (s \o t) /\ (s \o t)[Len(s) + i] = t[i]
           /\ \A i \in DOMAIN (s \o t) : i \in DOMAIN s \/ \E k \in DOMAIN t : i = Len(s) + k
<1>1. ASSUME NEW i \in DOMAIN (s \o t), i \notin DOMAIN s
      PROVE  \E k \in DOMAIN t : i = Len(s) + k
  <2>1. i - Len(s) \in DOMAIN t /\ i = Len(s) + (i - Len(s))
    BY <1>1
  <2> QED BY <2>1
<1> QED BY <1>1

LEMMA TailFacts ==
    ASSUME NEW S, NEW s \in Seq(S), s # <<>>
    PROVE  /\ Tail(s) \in Seq(S) /\ Len(Tail(s)) = Len(s) - 1 /\ Len(s) > 0
           /\ Head(s) = s[1] /\ 1 \in DOMAIN s /\ Head(s) \in S
           /\ \A i \in DOMAIN Tail(s) : i + 1 \in DOMAIN s /\ Tail(s)[i] = s[i + 1]
           /\ \A i \in DOMAIN s : i # 1 => i - 1 \in DOMAIN Tail(s) /\ Tail(s)[i - 1] = s[i]
OBVIOUS

LEMMA AppendFacts ==
    ASSUME NEW S, NEW s \in Seq(S), NEW x \in S
    PROVE  /\ Append(s, x) \in Seq(S) /\ Len(Append(s, x)) = Len(s) + 1
           /\ \A i \in DOMAIN s : i \in DOMAIN Append(s, x) /\ Append(s, x)[i] = s[i]
           /\ Len(s) + 1 \in DOMAIN Append(s, x) /\ Append(s, x)[Len(s) + 1] = x
           /\ \A i \in DOMAIN Append(s, x) : i \in DOMAIN s \/ i = Len(s) + 1
OBVIOUS

\* A step that sends the requests of list, or none.
Sends(list) ==
    /\ nextId' = nextId + Len(list)
    /\ commands' = commands \o Numbered(list, nextId)
    /\ rawCallbacks \subseteq rawCallbacks'
    /\ \A id \in rawCallbacks' : id \in rawCallbacks \/
          \E i \in DOMAIN list : id = nextId + i /\ list[i].method = "addScript"

LEMMA SendFacts ==
    ASSUME NEW list \in Seq(Requests), commands \in Seq(Commands), nextId \in Nat, Send(list)
    PROVE  Sends(list)
<1>1. commands' = commands \o Numbered(list, nextId)
  BY DEF Send, Numbered
<1>2. rawCallbacks' = rawCallbacks \cup
              {Numbered(list, nextId)[i].id : i \in {j \in DOMAIN Numbered(list, nextId) :
                    Numbered(list, nextId)[j].method = "addScript" /\ Numbered(list, nextId)[j].arg.kind = "user"}}
  BY DEF Send, Numbered
<1>3. DOMAIN Numbered(list, nextId) = DOMAIN list
  BY DEF Numbered
<1>4. nextId' = nextId + Len(list)
  BY DEF Send
<1> QED BY <1>1, <1>2, <1>3, <1>4, NumberedFacts, SMTT(30) DEF Sends

LEMMA SendNothingFacts ==
    ASSUME commands \in Seq(Commands), nextId \in Nat, SendNothing
    PROVE  <<>> \in Seq(Requests) /\ Sends(<<>>)
<1>1. <<>> \in Seq(Requests) /\ Len(<<>>) = 0
  OBVIOUS
<1>2. Numbered(<<>>, nextId) = <<>>
  <2>1. Numbered(<<>>, nextId) \in Seq(Commands) /\ Len(Numbered(<<>>, nextId)) = 0
    BY <1>1, NumberedFacts
  <2> QED BY <2>1
<1>3. commands \o <<>> = commands
  OBVIOUS
<1> QED BY <1>1, <1>2, <1>3 DEF SendNothing, Sends

\* Sending keeps the types.
LEMMA SendTypes ==
    ASSUME TInv, NEW list \in Seq(Requests), Sends(list)
    PROVE  /\ commands' \in Seq(Commands) /\ \A i \in DOMAIN commands' : commands'[i].id <= nextId'
           /\ nextId' \in Nat /\ nextId' >= nextId /\ rawCallbacks' \subseteq 1..nextId'
<1>1. commands \in Seq(Commands) /\ nextId \in Nat /\ rawCallbacks \subseteq 1..nextId
      /\ \A i \in DOMAIN commands : commands[i].id <= nextId
  BY DEF TInv, ViewTypes, AgentTypes
<1> DEFINE sent == Numbered(list, nextId)
<1>2. /\ sent \in Seq(Commands) /\ Len(sent) = Len(list) /\ Len(list) \in Nat
      /\ DOMAIN sent = 1..Len(list)
      /\ \A i \in 1..Len(list) : sent[i].id = nextId + i
  BY <1>1, NumberedFacts
<1>3. /\ nextId' = nextId + Len(list) /\ commands' = commands \o sent
      /\ \A id \in rawCallbacks' : id \in rawCallbacks \/
            \E i \in DOMAIN list : id = nextId + i /\ list[i].method = "addScript"
  BY DEF Sends
<1>4. nextId' \in Nat /\ nextId' >= nextId
  BY <1>1, <1>2, <1>3
<1>5. rawCallbacks' \subseteq 1..nextId'
  <2>1. ASSUME NEW i \in DOMAIN list PROVE nextId + i \in 1..nextId'
    BY <1>1, <1>2, <1>3
  <2>2. 1..nextId \subseteq 1..nextId'
    BY <1>1, <1>4
  <2> QED BY <1>1, <1>3, <2>1, <2>2
<1> HIDE DEF sent
<1>6. commands' \in Seq(Commands)
  BY <1>1, <1>2, <1>3, ConcatFacts
<1>7. ASSUME NEW i \in DOMAIN commands' PROVE commands'[i].id <= nextId'
  <2>1. CASE i \in DOMAIN commands
    <3>1. commands'[i] = commands[i]
      BY <1>1, <1>2, <1>3, <2>1, ConcatFacts
    <3>2. commands[i].id \in Nat
      BY <1>1, <2>1, CommandFacts
    <3> QED BY <1>1, <1>4, <2>1, <3>1, <3>2
  <2>2. CASE i \notin DOMAIN commands
    <3>1. PICK k \in DOMAIN sent : i = Len(commands) + k
      BY <1>1, <1>2, <1>3, <2>2, ConcatFacts
    <3>2. commands'[i] = sent[k]
      BY <1>1, <1>2, <1>3, <3>1, ConcatFacts
    <3> QED BY <1>1, <1>2, <1>3, <3>1, <3>2
  <2> QED BY <2>1, <2>2
<1> QED BY <1>4, <1>5, <1>6, <1>7

-----------------------------------------------------------------------------
(***************************************************************************)
(* Order and ends, when the first command is executed and when others are  *)
(* sent.                                                                   *)
(***************************************************************************)
LEMMA BeforeTail ==
    ASSUME NEW S, NEW cs \in Seq(S), cs # <<>>, NEW i \in Nat,
           NEW method, NEW arg, NEW now \in BOOLEAN, NEW after \in BOOLEAN,
           Before(cs, i + 1, method, arg, now),
           now => after, Head(cs).method = method /\ Head(cs).arg = arg => after
    PROVE  Before(Tail(cs), i, method, arg, after)
<1>1. CASE now
  BY <1>1 DEF Before
<1>2. CASE \E j \in DOMAIN cs : j < i + 1 /\ cs[j].method = method /\ cs[j].arg = arg
  <2>1. PICK j \in DOMAIN cs : j < i + 1 /\ cs[j].method = method /\ cs[j].arg = arg
    BY <1>2
  <2>2. CASE j = 1
    <3>1. Head(cs) = cs[1]
      BY TailFacts
    <3> QED BY <2>1, <2>2, <3>1 DEF Before
  <2>3. CASE j # 1
    <3>1. j - 1 \in DOMAIN Tail(cs) /\ Tail(cs)[j - 1] = cs[j]
      BY <2>3, TailFacts
    <3>2. j - 1 < i
      BY <2>1
    <3> QED BY <2>1, <3>1, <3>2 DEF Before
  <2> QED BY <2>2, <2>3
<1> QED BY <1>1, <1>2 DEF Before

LEMMA HeadOrdered ==
    ASSUME NEW S, NEW cs \in Seq(S), cs # <<>>, NEW runtime, NEW pageDomain, NEW shims,
           Ordered(cs, runtime, pageDomain, shims)
    PROVE  /\ Head(cs).method = "Page.enable" => runtime
           /\ Head(cs).method = "addScript" => pageDomain
           /\ Head(cs).method = "evaluateShim" => Head(cs).arg \in shims
<1>1. Head(cs) = cs[1] /\ 1 \in DOMAIN cs
  BY TailFacts
<1>2. \A j \in DOMAIN cs : ~(j < 1)
  OBVIOUS
<1> QED BY <1>1, <1>2 DEF Ordered, Before

LEMMA OrderedTail ==
    ASSUME NEW S, NEW cs \in Seq(S), cs # <<>>,
           NEW runtime \in BOOLEAN, NEW pageDomain \in BOOLEAN, NEW shims,
           NEW runtime1 \in BOOLEAN, NEW pageDomain1 \in BOOLEAN, NEW shims1,
           Ordered(cs, runtime, pageDomain, shims),
           runtime => runtime1, Head(cs).method = "Runtime.enable" => runtime1,
           pageDomain => pageDomain1, Head(cs).method = "Page.enable" => pageDomain1,
           shims \subseteq shims1,
           \A n : Head(cs).method = "addScript" /\ Head(cs).arg = Shim(n) => n \in shims1
    PROVE  Ordered(Tail(cs), runtime1, pageDomain1, shims1)
<1> SUFFICES ASSUME NEW i \in DOMAIN Tail(cs)
             PROVE  /\ Tail(cs)[i].method = "Page.enable" =>
                          Before(Tail(cs), i, "Runtime.enable", "", runtime1)
                    /\ Tail(cs)[i].method = "addScript" =>
                          Before(Tail(cs), i, "Page.enable", "", pageDomain1)
                    /\ Tail(cs)[i].method = "evaluateShim" =>
                          Before(Tail(cs), i, "addScript", Shim(Tail(cs)[i].arg), Tail(cs)[i].arg \in shims1)
  BY DEF Ordered
<1>1. i \in Nat /\ i + 1 \in DOMAIN cs /\ Tail(cs)[i] = cs[i + 1]
  BY TailFacts
<1>2. /\ cs[i + 1].method = "Page.enable" => Before(cs, i + 1, "Runtime.enable", "", runtime)
      /\ cs[i + 1].method = "addScript" => Before(cs, i + 1, "Page.enable", "", pageDomain)
      /\ cs[i + 1].method = "evaluateShim" =>
            Before(cs, i + 1, "addScript", Shim(cs[i + 1].arg), cs[i + 1].arg \in shims)
  BY <1>1 DEF Ordered
<1>3. ASSUME cs[i + 1].method = "Page.enable" PROVE Before(Tail(cs), i, "Runtime.enable", "", runtime1)
  <2>1. Before(cs, i + 1, "Runtime.enable", "", runtime)
    BY <1>2, <1>3
  <2> QED BY <1>1, <2>1, BeforeTail
<1>4. ASSUME cs[i + 1].method = "addScript" PROVE Before(Tail(cs), i, "Page.enable", "", pageDomain1)
  <2>1. Before(cs, i + 1, "Page.enable", "", pageDomain)
    BY <1>2, <1>4
  <2> QED BY <1>1, <2>1, BeforeTail
<1>5. ASSUME cs[i + 1].method = "evaluateShim"
      PROVE  Before(Tail(cs), i, "addScript", Shim(cs[i + 1].arg), cs[i + 1].arg \in shims1)
  <2>1. Before(cs, i + 1, "addScript", Shim(cs[i + 1].arg), cs[i + 1].arg \in shims)
    BY <1>2, <1>5
  <2>2. PICK n : n = cs[i + 1].arg
    OBVIOUS
  <2>3. CASE n \in shims1
    BY <2>2, <2>3 DEF Before
  <2>4. CASE n \notin shims1
    <3>1. Before(cs, i + 1, "addScript", Shim(n), FALSE)
      BY <2>1, <2>2, <2>4 DEF Before
    <3>2. ~(Head(cs).method = "addScript" /\ Head(cs).arg = Shim(n))
      BY <2>4
    <3>3. Before(Tail(cs), i, "addScript", Shim(n), FALSE)
      BY <1>1, <3>1, <3>2, BeforeTail
    <3> QED BY <2>2, <3>3 DEF Before
  <2> QED BY <2>3, <2>4
<1> QED BY <1>1, <1>3, <1>4, <1>5

LEMMA BeforeConcat ==
    ASSUME NEW S, NEW cs \in Seq(S), NEW ds \in Seq(S), NEW method, NEW arg, NEW now
    PROVE  /\ \A i \in DOMAIN cs : Before(cs, i, method, arg, now) =>
                                      Before(cs \o ds, i, method, arg, now)
           /\ \A k \in DOMAIN ds : Before(cs, Len(cs) + 1, method, arg, now) =>
                                      Before(cs \o ds, Len(cs) + k, method, arg, now)
           /\ \A k \in DOMAIN ds : Before(ds, k, method, arg, FALSE) =>
                                      Before(cs \o ds, Len(cs) + k, method, arg, now)
<1>1. ASSUME NEW i \in DOMAIN cs, Before(cs, i, method, arg, now)
      PROVE  Before(cs \o ds, i, method, arg, now)
  <2>1. \A j \in DOMAIN cs : j \in DOMAIN (cs \o ds) /\ (cs \o ds)[j] = cs[j]
    BY ConcatFacts
  <2> QED BY <1>1, <2>1 DEF Before
<1>2. ASSUME NEW k \in DOMAIN ds, Before(cs, Len(cs) + 1, method, arg, now)
      PROVE  Before(cs \o ds, Len(cs) + k, method, arg, now)
  <2>1. \A j \in DOMAIN cs : /\ j \in DOMAIN (cs \o ds) /\ (cs \o ds)[j] = cs[j]
                             /\ j < Len(cs) + k
    BY ConcatFacts
  <2> QED BY <1>2, <2>1 DEF Before
<1>3. ASSUME NEW k \in DOMAIN ds, Before(ds, k, method, arg, FALSE)
      PROVE  Before(cs \o ds, Len(cs) + k, method, arg, now)
  <2>1. PICK j \in DOMAIN ds : j < k /\ ds[j].method = method /\ ds[j].arg = arg
    BY <1>3 DEF Before
  <2>2. Len(cs) + j \in DOMAIN (cs \o ds) /\ (cs \o ds)[Len(cs) + j] = ds[j]
    BY ConcatFacts
  <2>3. Len(cs) + j < Len(cs) + k
    BY <2>1
  <2> QED BY <2>1, <2>2, <2>3 DEF Before
<1> QED BY <1>1, <1>2, <1>3

\* on: the Page domain was enabled before.
LEMMA OrderedConcat ==
    ASSUME NEW S, NEW cs \in Seq(S), NEW ds \in Seq(S),
           NEW runtime \in BOOLEAN, NEW pageDomain \in BOOLEAN, NEW shims, NEW on \in BOOLEAN
    PROVE  /\ Ordered(cs, runtime, pageDomain, shims) /\ Ordered(ds, FALSE, on, {})
           /\ on => Before(cs, Len(cs) + 1, "Page.enable", "", pageDomain)
           => Ordered(cs \o ds, runtime, pageDomain, shims)
<1> DEFINE all == cs \o ds
<1>a. /\ \A i \in DOMAIN cs : i \in DOMAIN all /\ all[i] = cs[i]
      /\ \A k \in DOMAIN ds : Len(cs) + k \in DOMAIN all /\ all[Len(cs) + k] = ds[k]
      /\ \A i \in DOMAIN all : i \in DOMAIN cs \/ \E k \in DOMAIN ds : i = Len(cs) + k
  BY ConcatFacts
<1>b. \A k \in DOMAIN ds : \A method, arg, now :
          /\ Before(cs, Len(cs) + 1, method, arg, now) => Before(all, Len(cs) + k, method, arg, now)
          /\ Before(ds, k, method, arg, FALSE) => Before(all, Len(cs) + k, method, arg, now)
  BY BeforeConcat
<1>c. \A i \in DOMAIN cs : \A method, arg, now :
          Before(cs, i, method, arg, now) => Before(all, i, method, arg, now)
  BY BeforeConcat
<1> HIDE DEF all
<1> SUFFICES ASSUME Ordered(cs, runtime, pageDomain, shims), Ordered(ds, FALSE, on, {}),
                    on => Before(cs, Len(cs) + 1, "Page.enable", "", pageDomain),
                    NEW i \in DOMAIN all
             PROVE  /\ all[i].method = "Page.enable" => Before(all, i, "Runtime.enable", "", runtime)
                    /\ all[i].method = "addScript" => Before(all, i, "Page.enable", "", pageDomain)
                    /\ all[i].method = "evaluateShim" =>
                          Before(all, i, "addScript", Shim(all[i].arg), all[i].arg \in shims)
  BY DEF Ordered, all
<1>1. CASE i \in DOMAIN cs
  BY <1>1, <1>a, <1>c DEF Ordered
<1>2. ASSUME NEW k \in DOMAIN ds, i = Len(cs) + k
      PROVE  /\ all[i].method = "Page.enable" => Before(all, i, "Runtime.enable", "", runtime)
             /\ all[i].method = "addScript" => Before(all, i, "Page.enable", "", pageDomain)
             /\ all[i].method = "evaluateShim" =>
                   Before(all, i, "addScript", Shim(all[i].arg), all[i].arg \in shims)
  <2>1. all[i] = ds[k]
    BY <1>2, <1>a
  <2>2. /\ ds[k].method = "Page.enable" => Before(ds, k, "Runtime.enable", "", FALSE)
        /\ ds[k].method = "addScript" => Before(ds, k, "Page.enable", "", on)
        /\ ds[k].method = "evaluateShim" =>
              Before(ds, k, "addScript", Shim(ds[k].arg), ds[k].arg \in {})
    BY DEF Ordered
  <2>3. /\ Before(ds, k, "Page.enable", "", on) => on \/ Before(ds, k, "Page.enable", "", FALSE)
        /\ Before(ds, k, "addScript", Shim(ds[k].arg), ds[k].arg \in {}) =>
              Before(ds, k, "addScript", Shim(ds[k].arg), FALSE)
    BY DEF Before
  <2> QED BY <1>2, <2>1, <2>2, <2>3, <1>b
<1> QED BY <1>1, <1>2, <1>a

\* Numbering changes neither the order nor the ends.
LEMMA NumberedSame ==
    ASSUME NEW list \in Seq(Requests), NEW from \in Nat
    PROVE  /\ \A on : Ordered(list, FALSE, on, {}) => Ordered(Numbered(list, from), FALSE, on, {})
           /\ \A on, off, n : EndsOn(list, on, off, n, FALSE) =>
                                 EndsOn(Numbered(list, from), on, off, n, FALSE)
<1> DEFINE ds == Numbered(list, from)
<1>1. /\ DOMAIN ds = DOMAIN list
      /\ \A i \in DOMAIN list : ds[i].method = list[i].method /\ ds[i].arg = list[i].arg
  BY NumberedFacts DEF Numbered
<1> HIDE DEF ds
<1>2. \A i \in DOMAIN list : \A method, arg, now :
          Before(list, i, method, arg, now) => Before(ds, i, method, arg, now)
  BY <1>1 DEF Before
<1>3. \A on : Ordered(list, FALSE, on, {}) => Ordered(ds, FALSE, on, {})
  <2> SUFFICES ASSUME NEW on, Ordered(list, FALSE, on, {}), NEW i \in DOMAIN ds
               PROVE  /\ ds[i].method = "Page.enable" => Before(ds, i, "Runtime.enable", "", FALSE)
                      /\ ds[i].method = "addScript" => Before(ds, i, "Page.enable", "", on)
                      /\ ds[i].method = "evaluateShim" =>
                            Before(ds, i, "addScript", Shim(ds[i].arg), ds[i].arg \in {})
    BY DEF Ordered
  <2> QED BY <1>1, <1>2 DEF Ordered
<1>4. \A on, off, n : EndsOn(list, on, off, n, FALSE) => EndsOn(ds, on, off, n, FALSE)
  BY <1>1 DEF EndsOn
<1> QED BY <1>3, <1>4 DEF ds

LEMMA EndsTail ==
    ASSUME NEW S, NEW cs \in Seq(S), cs # <<>>, NEW on, NEW off, NEW n, NEW now, NEW after,
           EndsOn(cs, on, off, n, now),
           Head(cs).method = on /\ Head(cs).arg = n => after,
           now /\ ~(Head(cs).method = off /\ Head(cs).arg = n) => after
    PROVE  EndsOn(Tail(cs), on, off, n, after)
<1>1. /\ \A i \in DOMAIN Tail(cs) : i \in Int /\ i + 1 \in DOMAIN cs /\ i + 1 # 1 /\ Tail(cs)[i] = cs[i + 1]
      /\ \A i \in DOMAIN cs : i \in Int /\ (i # 1 => i - 1 \in DOMAIN Tail(cs) /\ Tail(cs)[i - 1] = cs[i])
      /\ Head(cs) = cs[1] /\ 1 \in DOMAIN cs /\ \A i \in DOMAIN cs : i >= 1
  BY TailFacts
<1>2. ASSUME NEW i \in DOMAIN Tail(cs), Tail(cs)[i].method = off, Tail(cs)[i].arg = n
      PROVE  \E j \in DOMAIN Tail(cs) : j > i /\ Tail(cs)[j].method = on /\ Tail(cs)[j].arg = n
  <2>1. PICK j \in DOMAIN cs : j > i + 1 /\ cs[j].method = on /\ cs[j].arg = n
    BY <1>1, <1>2 DEF EndsOn
  <2>2. j - 1 \in DOMAIN Tail(cs) /\ Tail(cs)[j - 1] = cs[j] /\ j - 1 > i
    BY <1>1, <2>1
  <2> QED BY <2>1, <2>2
<1>3. ASSUME ~after
      PROVE  \E j \in DOMAIN Tail(cs) : Tail(cs)[j].method = on /\ Tail(cs)[j].arg = n
  <2>1. PICK j \in DOMAIN cs : j # 1 /\ cs[j].method = on /\ cs[j].arg = n
    <3>1. CASE now
      <4>1. PICK j \in DOMAIN cs : j > 1 /\ cs[j].method = on /\ cs[j].arg = n
        BY <1>1, <1>3, <3>1 DEF EndsOn
      <4> QED BY <4>1
    <3>2. CASE ~now
      <4>1. PICK j \in DOMAIN cs : cs[j].method = on /\ cs[j].arg = n
        BY <3>2 DEF EndsOn
      <4>2. j # 1
        BY <1>1, <1>3, <4>1
      <4> QED BY <4>1, <4>2
    <3> QED BY <3>1, <3>2
  <2>2. j - 1 \in DOMAIN Tail(cs) /\ Tail(cs)[j - 1] = cs[j]
    BY <1>1, <2>1
  <2> QED BY <2>1, <2>2
<1> QED BY <1>2, <1>3 DEF EndsOn

LEMMA EndsConcat ==
    ASSUME NEW S, NEW cs \in Seq(S), NEW ds \in Seq(S), NEW on, NEW off, NEW n, NEW now,
           \/ EndsOn(ds, on, off, n, FALSE)
           \/ EndsOn(cs, on, off, n, now) /\ \A k \in DOMAIN ds : ~(ds[k].method = off /\ ds[k].arg = n)
    PROVE  EndsOn(cs \o ds, on, off, n, now)
<1> DEFINE all == cs \o ds
<1>1. /\ \A i \in DOMAIN cs : i \in DOMAIN all /\ all[i] = cs[i]
      /\ \A k \in DOMAIN ds : Len(cs) + k \in DOMAIN all /\ all[Len(cs) + k] = ds[k]
      /\ \A i \in DOMAIN all : i \in DOMAIN cs \/ \E k \in DOMAIN ds : i = Len(cs) + k
  BY ConcatFacts
<1>2. /\ \A i \in DOMAIN cs, k \in DOMAIN ds : Len(cs) + k > i
      /\ \A k, l \in DOMAIN ds : k > l => Len(cs) + k > Len(cs) + l
  OBVIOUS
<1> HIDE DEF all
<1>3. CASE EndsOn(ds, on, off, n, FALSE)
  <2>1. PICK k \in DOMAIN ds : ds[k].method = on /\ ds[k].arg = n
    BY <1>3 DEF EndsOn
  <2>2. ASSUME NEW i \in DOMAIN all, all[i].method = off, all[i].arg = n
        PROVE  \E j \in DOMAIN all : j > i /\ all[j].method = on /\ all[j].arg = n
    <3>1. CASE i \in DOMAIN cs
      BY <1>1, <1>2, <2>1, <3>1
    <3>2. ASSUME NEW l \in DOMAIN ds, i = Len(cs) + l
          PROVE  \E j \in DOMAIN all : j > i /\ all[j].method = on /\ all[j].arg = n
      <4>1. PICK j \in DOMAIN ds : j > l /\ ds[j].method = on /\ ds[j].arg = n
        BY <1>1, <1>3, <2>2, <3>2 DEF EndsOn
      <4> QED BY <1>1, <1>2, <3>2, <4>1
    <3> QED BY <1>1, <3>1, <3>2
  <2>3. \E j \in DOMAIN all : all[j].method = on /\ all[j].arg = n
    BY <1>1, <2>1
  <2> QED BY <2>2, <2>3 DEF EndsOn, all
<1>4. CASE EndsOn(cs, on, off, n, now) /\ \A k \in DOMAIN ds : ~(ds[k].method = off /\ ds[k].arg = n)
  <2>1. ASSUME NEW i \in DOMAIN all, all[i].method = off, all[i].arg = n
        PROVE  \E j \in DOMAIN all : j > i /\ all[j].method = on /\ all[j].arg = n
    <3>1. i \in DOMAIN cs
      BY <1>1, <1>4, <2>1
    <3>2. PICK j \in DOMAIN cs : j > i /\ cs[j].method = on /\ cs[j].arg = n
      BY <1>1, <1>4, <2>1, <3>1 DEF EndsOn
    <3> QED BY <1>1, <3>2
  <2>2. now \/ \E j \in DOMAIN all : all[j].method = on /\ all[j].arg = n
    BY <1>1, <1>4 DEF EndsOn
  <2> QED BY <2>1, <2>2 DEF EndsOn, all
<1> QED BY <1>3, <1>4

-----------------------------------------------------------------------------
(***************************************************************************)
(* The lists the view sends.                                               *)
(***************************************************************************)
LEMMA Tuples ==
    ASSUME NEW S, NEW a \in S, NEW b \in S, NEW c \in S
    PROVE  /\ <<a>> \in Seq(S) /\ DOMAIN <<a>> = {1} /\ Len(<<a>>) = 1 /\ <<a>>[1] = a
           /\ <<a, b>> \in Seq(S) /\ DOMAIN <<a, b>> = {1, 2} /\ Len(<<a, b>>) = 2
           /\ <<a, b>>[1] = a /\ <<a, b>>[2] = b
           /\ <<a, b, c>> \in Seq(S) /\ DOMAIN <<a, b, c>> = {1, 2, 3} /\ Len(<<a, b, c>>) = 3
           /\ <<a, b, c>>[1] = a /\ <<a, b, c>>[2] = b /\ <<a, b, c>>[3] = c
<1>1. DOMAIN <<a>> = {1} /\ DOMAIN <<a, b>> = {1, 2} /\ DOMAIN <<a, b, c>> = {1, 2, 3}
  OBVIOUS
<1>2. <<a>> \in Seq(S) /\ Len(<<a>>) = 1 /\ <<a>>[1] = a
  OBVIOUS
<1>3. <<a, b>> \in Seq(S) /\ Len(<<a, b>>) = 2 /\ <<a, b>>[1] = a /\ <<a, b>>[2] = b
  OBVIOUS
<1>4. /\ <<a, b, c>> \in Seq(S) /\ Len(<<a, b, c>>) = 3
      /\ <<a, b, c>>[1] = a /\ <<a, b, c>>[2] = b /\ <<a, b, c>>[3] = c
  OBVIOUS
<1> QED BY <1>1, <1>2, <1>3, <1>4

LEMMA EnableDomainsFacts ==
    ASSUME NEW e \in BOOLEAN
    PROVE  /\ EnableDomains(e) \in Seq(Requests)
           /\ \A i \in DOMAIN EnableDomains(e) :
                 EnableDomains(e)[i].method \in {"Runtime.enable", "Page.enable"}
           /\ Ordered(EnableDomains(e), FALSE, e, {})
           /\ Before(EnableDomains(e), Len(EnableDomains(e)) + 1, "Page.enable", "", e)
           /\ Len(EnableDomains(e)) = IF e THEN 0 ELSE 2
<1> DEFINE d == EnableDomains(e)
<1>1. CASE e
  <2>1. d \in Seq(Requests) /\ Len(d) = 0 /\ DOMAIN d = {}
    BY <1>1 DEF EnableDomains
  <2> HIDE DEF d
  <2>2. Ordered(d, FALSE, e, {}) /\ Before(d, Len(d) + 1, "Page.enable", "", e)
    BY <1>1, <2>1 DEF Ordered, Before
  <2>3. \A i \in DOMAIN d : d[i].method \in {"Runtime.enable", "Page.enable"}
    BY <2>1
  <2> QED BY <1>1, <2>1, <2>2, <2>3 DEF d
<1>2. CASE ~e
  <2>1. PICK a \in Requests, b \in Requests :
            a = Command("Runtime.enable", "") /\ b = Command("Page.enable", "")
    BY OneRequest
  <2>2. d = <<a, b>>
    BY <1>2, <2>1 DEF EnableDomains
  <2>3. /\ d \in Seq(Requests) /\ DOMAIN d = {1, 2} /\ Len(d) = 2
        /\ d[1] = a /\ d[2] = b
    BY <2>2, Tuples
  <2> HIDE DEF d
  <2>4. /\ d[1].method = "Runtime.enable" /\ d[1].arg = ""
        /\ d[2].method = "Page.enable" /\ d[2].arg = ""
    <3>1. a.method = "Runtime.enable" /\ a.arg = ""
      BY <2>1 DEF Command
    <3>2. b.method = "Page.enable" /\ b.arg = ""
      BY <2>1 DEF Command
    <3> QED BY <2>3, <3>1, <3>2
  <2>5. 2 < 3 /\ 1 < 2
    OBVIOUS
  <2>6. Before(d, 3, "Page.enable", "", e) /\ Before(d, 2, "Runtime.enable", "", FALSE)
    BY <2>3, <2>4, <2>5 DEF Before
  <2>7. Ordered(d, FALSE, e, {})
    BY <2>3, <2>4, <2>6 DEF Ordered
  <2>8. Len(d) + 1 = 3
    BY <2>3
  <2>9. Before(d, Len(d) + 1, "Page.enable", "", e)
    BY <2>6, <2>8
  <2>10. \A i \in DOMAIN d : d[i].method \in {"Runtime.enable", "Page.enable"}
    BY <2>3, <2>4
  <2> QED BY <1>2, <2>3, <2>7, <2>9, <2>10 DEF d
<1> QED BY <1>1, <1>2

\* A list that needs the domains, with the domains in front of it.
LEMMA WithDomains ==
    ASSUME NEW e \in BOOLEAN, NEW x \in Seq(Requests), Ordered(x, FALSE, TRUE, {})
    PROVE  \E list \in Seq(Requests) :
              /\ list = EnableDomains(e) \o x /\ Ordered(list, FALSE, e, {})
              /\ Before(list, Len(list) + 1, "Page.enable", "", e)
              /\ \A i \in DOMAIN list :
                    \/ list[i].method \in {"Runtime.enable", "Page.enable"}
                    \/ \E k \in DOMAIN x : list[i] = x[k]
              /\ \A on, off, n : EndsOn(x, on, off, n, FALSE) => EndsOn(list, on, off, n, FALSE)
              /\ \E base \in Nat :
                    /\ Len(list) = base + Len(x)
                    /\ \A i \in 1..base : list[i].method \in {"Runtime.enable", "Page.enable"}
                    /\ \A k \in DOMAIN x : list[base + k] = x[k]
<1> DEFINE d == EnableDomains(e)
           list == d \o x
<1>1. /\ d \in Seq(Requests) /\ Ordered(d, FALSE, e, {})
      /\ Before(d, Len(d) + 1, "Page.enable", "", e)
      /\ \A i \in DOMAIN d : d[i].method \in {"Runtime.enable", "Page.enable"}
  BY EnableDomainsFacts
<1> HIDE DEF d
<1>0. d \in Seq(Requests)
  BY <1>1
<1>2. /\ list \in Seq(Requests) /\ Len(list) = Len(d) + Len(x)
      /\ \A i \in DOMAIN d : i \in DOMAIN list /\ list[i] = d[i]
      /\ \A k \in DOMAIN x : Len(d) + k \in DOMAIN list /\ list[Len(d) + k] = x[k]
      /\ \A i \in DOMAIN list : i \in DOMAIN d \/ \E k \in DOMAIN x : i = Len(d) + k
  BY <1>0, ConcatFacts
<1>3. Ordered(list, FALSE, e, {})
  BY <1>1, OrderedConcat
<1>4. Before(list, Len(list) + 1, "Page.enable", "", e)
  <2>1. CASE e
    BY <2>1 DEF Before
  <2>2. CASE ~e
    <3>1. PICK j \in DOMAIN d : d[j].method = "Page.enable" /\ d[j].arg = ""
      BY <1>1, <2>2 DEF Before
    <3>2. j < Len(list) + 1
      BY <1>0, <1>2
    <3> QED BY <1>2, <3>1, <3>2 DEF Before
  <2> QED BY <2>1, <2>2
<1>5. \A on, off, n : EndsOn(x, on, off, n, FALSE) => EndsOn(list, on, off, n, FALSE)
  BY <1>1, EndsConcat
<1>6. \A i \in DOMAIN list : \/ list[i].method \in {"Runtime.enable", "Page.enable"}
                             \/ \E k \in DOMAIN x : list[i] = x[k]
  BY <1>1, <1>2
<1>7. \E base \in Nat :
          /\ Len(list) = base + Len(x)
          /\ \A i \in 1..base : list[i].method \in {"Runtime.enable", "Page.enable"}
          /\ \A k \in DOMAIN x : list[base + k] = x[k]
  <2>1. Len(d) \in Nat /\ DOMAIN d = 1..Len(d)
    BY <1>0
  <2> HIDE DEF list
  <2> QED BY <1>1, <1>2, <2>1
<1>8. list = EnableDomains(e) \o x
  BY DEF d
<1> HIDE DEF list
<1> QED BY <1>2, <1>3, <1>4, <1>5, <1>6, <1>7, <1>8

LEMMA ScriptCommandFacts ==
    ASSUME NEW s \in Sources
    PROVE  /\ <<ScriptCommand(s)>> \in Seq(Requests) /\ Ordered(<<ScriptCommand(s)>>, FALSE, TRUE, {})
           /\ ScriptCommand(s).method = "addScript" /\ ScriptCommand(s).arg = UserScript(s)
<1>1. ScriptCommand(s).method = "addScript" /\ ScriptCommand(s).arg = UserScript(s)
  BY CommandFields DEF ScriptCommand
<1>2. ScriptCommand(s) \in Requests
  BY OneRequest DEF ScriptCommand
<1>3. \A i \in DOMAIN <<ScriptCommand(s)>> : <<ScriptCommand(s)>>[i] = ScriptCommand(s)
  OBVIOUS
<1>4. <<ScriptCommand(s)>> \in Seq(Requests)
  BY <1>2, Tuples
<1> QED BY <1>1, <1>3, <1>4 DEF Ordered, Before

LEMMA HandlerCommandsFacts ==
    ASSUME NEW n \in Names
    PROVE  /\ HandlerCommands(n) \in Seq(Requests) /\ DOMAIN HandlerCommands(n) = {1, 2, 3}
           /\ HandlerCommands(n)[1].method = "addBinding" /\ HandlerCommands(n)[1].arg = n
           /\ HandlerCommands(n)[2].method = "addScript" /\ HandlerCommands(n)[2].arg = Shim(n)
           /\ HandlerCommands(n)[3].method = "evaluateShim" /\ HandlerCommands(n)[3].arg = n
<1>1. PICK a \in Requests, b \in Requests, c \in Requests :
          /\ a = Command("addBinding", n) /\ b = Command("addScript", Shim(n))
          /\ c = Command("evaluateShim", n)
  BY OneRequest DEF OfName
<1>2. HandlerCommands(n) = <<a, b, c>>
  BY <1>1 DEF HandlerCommands
<1>3. /\ HandlerCommands(n) \in Seq(Requests) /\ DOMAIN HandlerCommands(n) = {1, 2, 3}
      /\ HandlerCommands(n)[1] = a /\ HandlerCommands(n)[2] = b /\ HandlerCommands(n)[3] = c
  BY <1>2, Tuples
<1> QED BY <1>1, <1>3, CommandFields

LEMMA AddHandlerList ==
    ASSUME NEW n \in Names
    PROVE  /\ Ordered(HandlerCommands(n), FALSE, TRUE, {})
           /\ EndsOn(HandlerCommands(n), "addBinding", "removeBinding", n, FALSE)
           /\ EndsOn(HandlerCommands(n), "evaluateShim", "evaluateDelete", n, FALSE)
<1> DEFINE h == HandlerCommands(n)
<1>1. /\ DOMAIN h = {1, 2, 3}
      /\ h[1].method = "addBinding" /\ h[1].arg = n
      /\ h[2].method = "addScript" /\ h[2].arg = Shim(n)
      /\ h[3].method = "evaluateShim" /\ h[3].arg = n
  BY HandlerCommandsFacts
<1> HIDE DEF h
<1>2. Before(h, 3, "addScript", Shim(h[3].arg), FALSE)
  BY <1>1 DEF Before
<1>3. Ordered(h, FALSE, TRUE, {})
  BY <1>1, <1>2 DEF Ordered, Before
<1>4. EndsOn(h, "addBinding", "removeBinding", n, FALSE)
  BY <1>1 DEF EndsOn
<1>5. EndsOn(h, "evaluateShim", "evaluateDelete", n, FALSE)
  BY <1>1 DEF EndsOn
<1> QED BY <1>3, <1>4, <1>5 DEF h

\* The sequence of a finite set has all its elements.
LEMMA SetToSeqFacts ==
    ASSUME NEW S, IsFiniteSet(S)
    PROVE  /\ SetToSeq(S) \in Seq(S)
           /\ \A x \in S : \E i \in DOMAIN SetToSeq(S) : SetToSeq(S)[i] = x
<1> DEFINE n == Cardinality(S)
<1>1. n \in Nat /\ ExistsBijection(1..n, S)
  BY FS_CardinalityType
<1>2. \E f \in [1..n -> S] : IsInjective(f)
  BY <1>1 DEF ExistsBijection, Bijection, Injection
<1>3. SetToSeq(S) \in [1..n -> S] /\ IsInjective(SetToSeq(S))
  BY <1>2 DEF SetToSeq
<1>4. SetToSeq(S) \in Injection(1..n, S)
  BY <1>3 DEF Injection
<1>5. IsFiniteSet(1..n) /\ Cardinality(1..n) = n
  BY <1>1, FS_Interval
<1>6. SetToSeq(S) \in Surjection(1..n, S)
  BY <1>4, <1>5, FS_Injection
<1> QED BY <1>1, <1>3, <1>6 DEF Surjection

-----------------------------------------------------------------------------
(***************************************************************************)
(* What the creation of the browser installs: three requests for each      *)
(* handler and one for each script.                                        *)
(***************************************************************************)
LEMMA Thirds ==
    ASSUME NEW L \in Nat
    PROVE  /\ \A i \in 1..3 * L : \E k \in 1..L : i = 3 * k - 2 \/ i = 3 * k - 1 \/ i = 3 * k
           /\ \A k \in 1..L :
                 /\ 3 * k - 2 \in 1..3 * L /\ (3 * k - 2 + 2) \div 3 = k /\ (3 * k - 2 + 2) % 3 = 0
                 /\ 3 * k - 1 \in 1..3 * L /\ (3 * k - 1 + 2) \div 3 = k /\ (3 * k - 1 + 2) % 3 = 1
                 /\ 3 * k \in 1..3 * L /\ (3 * k + 2) \div 3 = k /\ (3 * k + 2) % 3 = 2
<1>1. ASSUME NEW i \in 1..3 * L
      PROVE  \E k \in 1..L : i = 3 * k - 2 \/ i = 3 * k - 1 \/ i = 3 * k
  <2>1. PICK k \in Int : k = (i + 2) \div 3
    OBVIOUS
  <2>2. k \in 1..L /\ (i = 3 * k - 2 \/ i = 3 * k - 1 \/ i = 3 * k)
    BY <2>1
  <2> QED BY <2>2
<1>2. ASSUME NEW k \in 1..L
      PROVE  /\ 3 * k - 2 \in 1..3 * L /\ (3 * k - 2 + 2) \div 3 = k /\ (3 * k - 2 + 2) % 3 = 0
             /\ 3 * k - 1 \in 1..3 * L /\ (3 * k - 1 + 2) \div 3 = k /\ (3 * k - 1 + 2) % 3 = 1
             /\ 3 * k \in 1..3 * L /\ (3 * k + 2) \div 3 = k /\ (3 * k + 2) % 3 = 2
  OBVIOUS
<1> QED BY <1>1, <1>2

\* The requests for the handlers names, as Installs has them.
ForHandlers(names) ==
    [i \in 1..3 * Len(names) |-> HandlerCommands(names[(i + 2) \div 3])[((i + 2) % 3) + 1]]

LEMMA ForHandlersFacts ==
    ASSUME NEW names \in Seq(Names)
    PROVE  /\ ForHandlers(names) \in Seq(Requests) /\ Len(ForHandlers(names)) = 3 * Len(names)
           /\ \A k \in DOMAIN names :
                 /\ ForHandlers(names)[3 * k - 2].method = "addBinding"
                 /\ ForHandlers(names)[3 * k - 2].arg = names[k]
                 /\ ForHandlers(names)[3 * k - 1].method = "addScript"
                 /\ ForHandlers(names)[3 * k - 1].arg = Shim(names[k])
                 /\ ForHandlers(names)[3 * k].method = "evaluateShim"
                 /\ ForHandlers(names)[3 * k].arg = names[k]
<1> DEFINE L == Len(names)
           f == ForHandlers(names)
<1>1. L \in Nat /\ DOMAIN names = 1..L /\ 3 * L \in Nat
  OBVIOUS
<1>2. \A i \in 1..3 * L : f[i] = HandlerCommands(names[(i + 2) \div 3])[((i + 2) % 3) + 1]
  BY DEF ForHandlers
<1>3. DOMAIN f = 1..3 * L
  BY DEF ForHandlers
<1>4. ASSUME NEW k \in 1..L
      PROVE  /\ f[3 * k - 2] = HandlerCommands(names[k])[1]
             /\ f[3 * k - 1] = HandlerCommands(names[k])[2]
             /\ f[3 * k] = HandlerCommands(names[k])[3]
  <2>1. /\ 3 * k - 2 \in 1..3 * L /\ (3 * k - 2 + 2) \div 3 = k /\ (3 * k - 2 + 2) % 3 = 0
        /\ 3 * k - 1 \in 1..3 * L /\ (3 * k - 1 + 2) \div 3 = k /\ (3 * k - 1 + 2) % 3 = 1
        /\ 3 * k \in 1..3 * L /\ (3 * k + 2) \div 3 = k /\ (3 * k + 2) % 3 = 2
    BY <1>1, Thirds
  <2>2. 0 + 1 = 1 /\ 1 + 1 = 2 /\ 2 + 1 = 3
    OBVIOUS
  <2>3. f[3 * k - 2] = HandlerCommands(names[k])[1]
    BY <1>2, <2>1, <2>2
  <2>4. f[3 * k - 1] = HandlerCommands(names[k])[2]
    BY <1>2, <2>1, <2>2
  <2>5. f[3 * k] = HandlerCommands(names[k])[3]
    BY <1>2, <2>1, <2>2
  <2> QED BY <2>3, <2>4, <2>5
<1> HIDE DEF f
<1>5. ASSUME NEW k \in 1..L
      PROVE  /\ HandlerCommands(names[k]) \in Seq(Requests) /\ DOMAIN HandlerCommands(names[k]) = {1, 2, 3}
             /\ HandlerCommands(names[k])[1].method = "addBinding"
             /\ HandlerCommands(names[k])[1].arg = names[k]
             /\ HandlerCommands(names[k])[2].method = "addScript"
             /\ HandlerCommands(names[k])[2].arg = Shim(names[k])
             /\ HandlerCommands(names[k])[3].method = "evaluateShim"
             /\ HandlerCommands(names[k])[3].arg = names[k]
  BY <1>1, HandlerCommandsFacts
<1>6. ASSUME NEW i \in 1..3 * L PROVE f[i] \in Requests
  <2>1. PICK k \in 1..L : i = 3 * k - 2 \/ i = 3 * k - 1 \/ i = 3 * k
    BY <1>1, Thirds
  <2>2. /\ HandlerCommands(names[k])[1] \in Requests /\ HandlerCommands(names[k])[2] \in Requests
        /\ HandlerCommands(names[k])[3] \in Requests
    BY <1>5
  <2> QED BY <1>4, <2>1, <2>2
<1>7. f \in Seq(Requests) /\ Len(f) = 3 * L
  <2>1. f = [i \in 1..3 * L |-> f[i]]
    BY <1>3 DEF f, ForHandlers
  <2>2. f \in [1..3 * L -> Requests]
    BY <1>6, <2>1
  <2> QED BY <1>1, <2>2
<1> HIDE DEF L
<1>8. \A k \in 1..L : /\ f[3 * k - 2].method = "addBinding" /\ f[3 * k - 2].arg = names[k]
                      /\ f[3 * k - 1].method = "addScript" /\ f[3 * k - 1].arg = Shim(names[k])
                      /\ f[3 * k].method = "evaluateShim" /\ f[3 * k].arg = names[k]
  BY <1>4, <1>5
<1> QED BY <1>1, <1>7, <1>8 DEF f, L

\* The requests for the scripts.
ForScripts == [i \in DOMAIN scripts |-> ScriptCommand(scripts[i])]

LEMMA ForScriptsFacts ==
    ASSUME scripts \in Seq(Sources)
    PROVE  /\ ForScripts \in Seq(Requests) /\ Len(ForScripts) = Len(scripts)
           /\ \A i \in DOMAIN scripts : /\ ForScripts[i].method = "addScript"
                                        /\ ForScripts[i].arg = UserScript(scripts[i])
<1>0. \A i \in DOMAIN scripts : scripts[i] \in Sources
  OBVIOUS
<1>1. \A i \in DOMAIN scripts : ScriptCommand(scripts[i]) \in Requests
  BY <1>0, OneRequest DEF ScriptCommand
<1>2. DOMAIN scripts = 1..Len(scripts) /\ Len(scripts) \in Nat
  OBVIOUS
<1>3. ForScripts \in [1..Len(scripts) -> Requests]
  BY <1>1, <1>2 DEF ForScripts
<1>4. \A i \in DOMAIN scripts : ForScripts[i] = ScriptCommand(scripts[i])
  BY DEF ForScripts
<1>5. \A i \in DOMAIN scripts : /\ ForScripts[i].method = "addScript"
                                /\ ForScripts[i].arg = UserScript(scripts[i])
  BY <1>0, <1>4, ScriptCommandFacts
<1> QED BY <1>2, <1>3, <1>5

LEMMA InstallsFacts ==
    ASSUME ViewTypes
    PROVE  /\ Installs \in Seq(Requests) /\ Ordered(Installs, FALSE, TRUE, {})
           /\ \A n \in handlers :
                 /\ EndsOn(Installs, "addBinding", "removeBinding", n, FALSE)
                 /\ EndsOn(Installs, "evaluateShim", "evaluateDelete", n, FALSE)
           /\ \A i \in DOMAIN Installs :
                 /\ Installs[i].method \in {"addBinding", "addScript", "evaluateShim"}
                 /\ Installs[i].method = "addBinding" => Installs[i].arg \in handlers
           /\ \E base \in Nat :
                 /\ Len(Installs) = base + Len(scripts)
                 /\ \A i \in 1..base : ~IsUser(Installs[i])
                 /\ \A i \in DOMAIN scripts : /\ Installs[base + i].method = "addScript"
                                              /\ Installs[base + i].arg = UserScript(scripts[i])
<1> DEFINE names == SetToSeq(handlers)
           f == ForHandlers(names)
           L == Len(names)
<1>0. handlers \subseteq Names /\ IsFiniteSet(handlers) /\ scripts \in Seq(Sources)
  BY DEF ViewTypes
<1>1. names \in Seq(handlers) /\ \A n \in handlers : \E k \in DOMAIN names : names[k] = n
  BY <1>0, SetToSeqFacts
<1>2. Installs = f \o ForScripts
  BY DEF Installs, ForHandlers, ForScripts
<1> HIDE DEF names
<1>3. names \in Seq(Names) /\ L \in Nat /\ DOMAIN names = 1..L /\ \A k \in DOMAIN names : names[k] \in handlers
  BY <1>0, <1>1
<1>4. /\ f \in Seq(Requests) /\ Len(f) = 3 * L
      /\ \A k \in DOMAIN names :
            /\ f[3 * k - 2].method = "addBinding" /\ f[3 * k - 2].arg = names[k]
            /\ f[3 * k - 1].method = "addScript" /\ f[3 * k - 1].arg = Shim(names[k])
            /\ f[3 * k].method = "evaluateShim" /\ f[3 * k].arg = names[k]
  BY <1>3, ForHandlersFacts, SMTT(30)
<1>5. /\ ForScripts \in Seq(Requests) /\ Len(ForScripts) = Len(scripts)
      /\ DOMAIN ForScripts = DOMAIN scripts
      /\ \A i \in DOMAIN scripts : /\ ForScripts[i].method = "addScript"
                                   /\ ForScripts[i].arg = UserScript(scripts[i])
  BY <1>0, ForScriptsFacts
<1> HIDE DEF f
<1>6. /\ Installs \in Seq(Requests) /\ Len(Installs) = 3 * L + Len(scripts)
      /\ \A i \in DOMAIN f : i \in DOMAIN Installs /\ Installs[i] = f[i]
      /\ \A i \in DOMAIN ForScripts : 3 * L + i \in DOMAIN Installs /\ Installs[3 * L + i] = ForScripts[i]
      /\ \A i \in DOMAIN Installs : i \in DOMAIN f \/ \E k \in DOMAIN ForScripts : i = 3 * L + k
  <2>1. f \in Seq(Requests) /\ ForScripts \in Seq(Requests)
    BY <1>4, <1>5
  <2>2. /\ f \o ForScripts \in Seq(Requests) /\ Len(f \o ForScripts) = Len(f) + Len(ForScripts)
        /\ \A i \in DOMAIN f : i \in DOMAIN (f \o ForScripts) /\ (f \o ForScripts)[i] = f[i]
        /\ \A i \in DOMAIN ForScripts :
              /\ Len(f) + i \in DOMAIN (f \o ForScripts)
              /\ (f \o ForScripts)[Len(f) + i] = ForScripts[i]
        /\ \A i \in DOMAIN (f \o ForScripts) :
              i \in DOMAIN f \/ \E k \in DOMAIN ForScripts : i = Len(f) + k
    BY <2>1, ConcatFacts
  <2>3. Len(f) = 3 * L /\ Len(ForScripts) = Len(scripts)
    BY <1>4, <1>5
  <2> QED BY <1>2, <2>2, <2>3
<1>7. DOMAIN f = 1..3 * L /\ 3 * L \in Nat
  BY <1>3, <1>4
\* the handlers' requests
<1>8. \A k \in DOMAIN names :
          /\ 3 * k - 2 \in DOMAIN Installs /\ 3 * k - 1 \in DOMAIN Installs /\ 3 * k \in DOMAIN Installs
          /\ Installs[3 * k - 2].method = "addBinding" /\ Installs[3 * k - 2].arg = names[k]
          /\ Installs[3 * k - 1].method = "addScript" /\ Installs[3 * k - 1].arg = Shim(names[k])
          /\ Installs[3 * k].method = "evaluateShim" /\ Installs[3 * k].arg = names[k]
  BY <1>3, <1>4, <1>6, <1>7, Thirds
<1>9. \A i \in DOMAIN Installs :
          \/ \E k \in DOMAIN names : i = 3 * k - 2 \/ i = 3 * k - 1 \/ i = 3 * k
          \/ \E k \in DOMAIN scripts : i = 3 * L + k
  <2> SUFFICES ASSUME NEW i \in DOMAIN Installs
               PROVE  \/ \E k \in DOMAIN names : i = 3 * k - 2 \/ i = 3 * k - 1 \/ i = 3 * k
                      \/ \E k \in DOMAIN scripts : i = 3 * L + k
    OBVIOUS
  <2>1. CASE i \in 1..3 * L
    BY <1>3, <2>1, Thirds
  <2>2. CASE \E k \in DOMAIN ForScripts : i = 3 * L + k
    BY <1>5, <2>2
  <2> QED BY <1>6, <1>7, <2>1, <2>2
<1>10. \A i \in DOMAIN scripts : /\ 3 * L + i \in DOMAIN Installs
                                 /\ Installs[3 * L + i].method = "addScript"
                                 /\ Installs[3 * L + i].arg = UserScript(scripts[i])
  BY <1>5, <1>6
<1> HIDE DEF L
<1>11. Ordered(Installs, FALSE, TRUE, {})
  <2> SUFFICES ASSUME NEW i \in DOMAIN Installs
               PROVE  /\ Installs[i].method # "Page.enable"
                      /\ Installs[i].method = "evaluateShim" =>
                            Before(Installs, i, "addScript", Shim(Installs[i].arg), Installs[i].arg \in {})
    BY DEF Ordered, Before
  <2>1. ASSUME NEW k \in DOMAIN names, i = 3 * k - 2 \/ i = 3 * k - 1 \/ i = 3 * k
        PROVE  /\ Installs[i].method # "Page.enable"
               /\ Installs[i].method = "evaluateShim" =>
                     Before(Installs, i, "addScript", Shim(Installs[i].arg), Installs[i].arg \in {})
    <3>1. CASE i # 3 * k
      BY <1>8, <2>1, <3>1
    <3>2. CASE i = 3 * k
      <4>1. 3 * k - 1 < 3 * k
        BY <1>3
      <4> QED BY <1>8, <3>2, <4>1 DEF Before
    <3> QED BY <3>1, <3>2
  <2>2. ASSUME NEW k \in DOMAIN scripts, i = 3 * L + k
        PROVE  /\ Installs[i].method # "Page.enable" /\ Installs[i].method # "evaluateShim"
    BY <1>10, <2>2
  <2> QED BY <1>9, <2>1, <2>2
<1>12. \A i \in DOMAIN Installs :
          /\ Installs[i].method \in {"addBinding", "addScript", "evaluateShim"}
          /\ Installs[i].method = "addBinding" => Installs[i].arg \in handlers
  <2> SUFFICES ASSUME NEW i \in DOMAIN Installs
               PROVE  /\ Installs[i].method \in {"addBinding", "addScript", "evaluateShim"}
                      /\ Installs[i].method = "addBinding" => Installs[i].arg \in handlers
    OBVIOUS
  <2>1. ASSUME NEW k \in DOMAIN names, i = 3 * k - 2 \/ i = 3 * k - 1 \/ i = 3 * k
        PROVE  /\ Installs[i].method \in {"addBinding", "addScript", "evaluateShim"}
               /\ Installs[i].method = "addBinding" => Installs[i].arg \in handlers
    BY <1>3, <1>8, <2>1
  <2>2. ASSUME NEW k \in DOMAIN scripts, i = 3 * L + k
        PROVE  Installs[i].method = "addScript"
    BY <1>10, <2>2
  <2> QED BY <1>9, <2>1, <2>2
<1>13. ASSUME NEW n \in handlers
       PROVE  /\ EndsOn(Installs, "addBinding", "removeBinding", n, FALSE)
              /\ EndsOn(Installs, "evaluateShim", "evaluateDelete", n, FALSE)
  <2>1. PICK k \in DOMAIN names : names[k] = n
    BY <1>1
  <2> QED BY <1>8, <1>12, <2>1 DEF EndsOn
<1>14. ASSUME NEW i \in 1..3 * L PROVE ~IsUser(Installs[i])
  <2>1. PICK k \in DOMAIN names : i = 3 * k - 2 \/ i = 3 * k - 1 \/ i = 3 * k
    BY <1>3, Thirds DEF L
  <2>2. Shim(names[k]).kind = "shim"
    BY DEF Shim
  <2> QED BY <1>8, <2>1, <2>2 DEF IsUser
<1>15. \E base \in Nat :
          /\ Len(Installs) = base + Len(scripts)
          /\ \A i \in 1..base : ~IsUser(Installs[i])
          /\ \A i \in DOMAIN scripts : /\ Installs[base + i].method = "addScript"
                                       /\ Installs[base + i].arg = UserScript(scripts[i])
  BY <1>6, <1>7, <1>10, <1>14
<1> QED BY <1>6, <1>11, <1>12, <1>13, <1>15

\* The three lists that need the domains.
OneScript(s) == <<ScriptCommand(s)>>

LEMMA OneScriptFacts ==
    ASSUME NEW s \in Sources
    PROVE  /\ OneScript(s) \in Seq(Requests) /\ DOMAIN OneScript(s) = {1} /\ Len(OneScript(s)) = 1
           /\ OneScript(s)[1].method = "addScript" /\ OneScript(s)[1].arg = UserScript(s)
<1>1. PICK r \in Requests : r = ScriptCommand(s)
  BY OneRequest DEF ScriptCommand
<1>2. OneScript(s) = <<r>>
  BY <1>1 DEF OneScript
<1>3. OneScript(s) \in Seq(Requests) /\ DOMAIN OneScript(s) = {1} /\ Len(OneScript(s)) = 1 /\ OneScript(s)[1] = r
  BY <1>2, Tuples
<1> QED BY <1>1, <1>3, ScriptCommandFacts

LEMMA ScriptList ==
    ASSUME NEW e \in BOOLEAN, NEW s \in Sources
    PROVE  \E list \in Seq(Requests) :
              /\ list = EnableDomains(e) \o OneScript(s) /\ Ordered(list, FALSE, e, {})
              /\ Before(list, Len(list) + 1, "Page.enable", "", e)
              /\ \A i \in DOMAIN list : list[i].method \in {"Runtime.enable", "Page.enable", "addScript"}
<1> DEFINE x == OneScript(s)
<1>1. x \in Seq(Requests) /\ Ordered(x, FALSE, TRUE, {})
  BY ScriptCommandFacts DEF OneScript
<1>2. DOMAIN x = {1} /\ x[1].method = "addScript"
  BY OneScriptFacts
<1> HIDE DEF x
<1>3. PICK list \in Seq(Requests) :
          /\ list = EnableDomains(e) \o x /\ Ordered(list, FALSE, e, {})
          /\ Before(list, Len(list) + 1, "Page.enable", "", e)
          /\ \A i \in DOMAIN list :
                \/ list[i].method \in {"Runtime.enable", "Page.enable"}
                \/ \E k \in DOMAIN x : list[i] = x[k]
          /\ \A on, off, n : EndsOn(x, on, off, n, FALSE) => EndsOn(list, on, off, n, FALSE)
          /\ \E base \in Nat :
                /\ Len(list) = base + Len(x)
                /\ \A i \in 1..base : list[i].method \in {"Runtime.enable", "Page.enable"}
                /\ \A k \in DOMAIN x : list[base + k] = x[k]
  BY <1>1, WithDomains
<1>4. \A i \in DOMAIN list : list[i].method \in {"Runtime.enable", "Page.enable", "addScript"}
  BY <1>2, <1>3
<1>5. list = EnableDomains(e) \o OneScript(s)
  BY <1>3 DEF x
<1>6. Ordered(list, FALSE, e, {}) /\ Before(list, Len(list) + 1, "Page.enable", "", e)
  BY <1>3
<1> QED BY <1>4, <1>5, <1>6

LEMMA AppendIsConcat == ASSUME NEW S, NEW d \in Seq(S), NEW c \in S PROVE d \o <<c>> = Append(d, c)
OBVIOUS

\* The script's command is the last one.
LEMMA ScriptLast ==
    ASSUME NEW e \in BOOLEAN, NEW s \in Sources
    PROVE  \E list \in Seq(Requests) :
              /\ list = EnableDomains(e) \o OneScript(s) /\ list # <<>>
              /\ \A i \in DOMAIN list :
                    /\ i # Len(list) => list[i].method # "addScript"
                    /\ i = Len(list) => list[i].method = "addScript" /\ list[i].arg = UserScript(s)
<1>1. PICK d \in Seq(Requests) : /\ d = EnableDomains(e)
                                 /\ \A i \in DOMAIN d : d[i].method \in {"Runtime.enable", "Page.enable"}
  BY EnableDomainsFacts
<1>2. PICK c \in Requests : /\ c = ScriptCommand(s)
                            /\ c.method = "addScript" /\ c.arg = UserScript(s)
  BY OneRequest, ScriptCommandFacts DEF ScriptCommand
<1>3. PICK list \in Seq(Requests) : list = Append(d, c)
  BY AppendFacts
<1>4. /\ Len(list) = Len(d) + 1 /\ list # <<>> /\ list[Len(list)] = c
      /\ \A i \in DOMAIN list : i # Len(list) => i \in DOMAIN d /\ list[i] = d[i]
  BY <1>3
<1>5. ASSUME NEW i \in DOMAIN list
      PROVE  /\ i # Len(list) => list[i].method # "addScript"
             /\ i = Len(list) => list[i].method = "addScript" /\ list[i].arg = UserScript(s)
  <2>1. i # Len(list) => i \in DOMAIN d /\ list[i] = d[i]
    BY <1>4
  <2>2. i = Len(list) => list[i] = c
    BY <1>4
  <2> QED BY <1>1, <1>2, <2>1, <2>2
<1>6. list = EnableDomains(e) \o OneScript(s)
  <2>1. d \o <<c>> = Append(d, c)
    BY AppendIsConcat
  <2> QED BY <1>1, <1>2, <1>3, <2>1 DEF OneScript
<1> QED BY <1>4, <1>5, <1>6

LEMMA HandlerList ==
    ASSUME NEW e \in BOOLEAN, NEW n \in Names
    PROVE  \E list \in Seq(Requests) :
              /\ list = EnableDomains(e) \o HandlerCommands(n) /\ Ordered(list, FALSE, e, {})
              /\ Before(list, Len(list) + 1, "Page.enable", "", e)
              /\ EndsOn(list, "addBinding", "removeBinding", n, FALSE)
              /\ EndsOn(list, "evaluateShim", "evaluateDelete", n, FALSE)
              /\ \A i \in DOMAIN list :
                    /\ list[i].method \in
                          {"Runtime.enable", "Page.enable", "addBinding", "addScript", "evaluateShim"}
                    /\ ~IsUser(list[i])
                    /\ list[i].method = "addBinding" => list[i].arg = n
<1> DEFINE x == HandlerCommands(n)
<1>1. x \in Seq(Requests) /\ Ordered(x, FALSE, TRUE, {})
  BY HandlerCommandsFacts, AddHandlerList
<1>2. \A k \in DOMAIN x : /\ x[k].method \in {"addBinding", "addScript", "evaluateShim"} /\ ~IsUser(x[k])
                          /\ x[k].method = "addBinding" => x[k].arg = n
  BY HandlerCommandsFacts, ShimsAndUsers DEF IsUser
<1>3. /\ EndsOn(x, "addBinding", "removeBinding", n, FALSE)
      /\ EndsOn(x, "evaluateShim", "evaluateDelete", n, FALSE)
  BY AddHandlerList
<1> HIDE DEF x
<1>4. PICK list \in Seq(Requests) :
          /\ list = EnableDomains(e) \o x /\ Ordered(list, FALSE, e, {})
          /\ Before(list, Len(list) + 1, "Page.enable", "", e)
          /\ \A i \in DOMAIN list :
                \/ list[i].method \in {"Runtime.enable", "Page.enable"}
                \/ \E k \in DOMAIN x : list[i] = x[k]
          /\ \A on, off, m : EndsOn(x, on, off, m, FALSE) => EndsOn(list, on, off, m, FALSE)
          /\ \E base \in Nat :
                /\ Len(list) = base + Len(x)
                /\ \A i \in 1..base : list[i].method \in {"Runtime.enable", "Page.enable"}
                /\ \A k \in DOMAIN x : list[base + k] = x[k]
  BY <1>1, WithDomains
<1>5. ASSUME NEW i \in DOMAIN list
      PROVE  /\ list[i].method \in {"Runtime.enable", "Page.enable", "addBinding", "addScript", "evaluateShim"}
             /\ ~IsUser(list[i])
             /\ list[i].method = "addBinding" => list[i].arg = n
  <2>1. CASE list[i].method \in {"Runtime.enable", "Page.enable"}
    BY <2>1 DEF IsUser
  <2>2. CASE \E k \in DOMAIN x : list[i] = x[k]
    BY <1>2, <2>2
  <2> QED BY <1>4, <2>1, <2>2
<1>6. list = EnableDomains(e) \o HandlerCommands(n)
  BY <1>4 DEF x
<1>7. /\ EndsOn(list, "addBinding", "removeBinding", n, FALSE)
      /\ EndsOn(list, "evaluateShim", "evaluateDelete", n, FALSE)
  BY <1>3, <1>4
<1>8. Ordered(list, FALSE, e, {}) /\ Before(list, Len(list) + 1, "Page.enable", "", e)
  BY <1>4
<1> QED BY <1>5, <1>6, <1>7, <1>8

LEMMA InstallList ==
    ASSUME ViewTypes
    PROVE  \E list \in Seq(Requests) :
              /\ list = EnableDomains(FALSE) \o Installs /\ Ordered(list, FALSE, FALSE, {})
              /\ Before(list, Len(list) + 1, "Page.enable", "", FALSE)
              /\ \A n \in handlers :
                    /\ EndsOn(list, "addBinding", "removeBinding", n, FALSE)
                    /\ EndsOn(list, "evaluateShim", "evaluateDelete", n, FALSE)
              /\ \A i \in DOMAIN list :
                    /\ list[i].method \in
                          {"Runtime.enable", "Page.enable", "addBinding", "addScript", "evaluateShim"}
                    /\ list[i].method = "addBinding" => list[i].arg \in handlers
              /\ \E base \in Nat :
                    /\ Len(list) = base + Len(scripts)
                    /\ \A i \in 1..base : ~IsUser(list[i])
                    /\ \A k \in DOMAIN scripts : /\ list[base + k].method = "addScript"
                                                 /\ list[base + k].arg = UserScript(scripts[k])
<1> DEFINE x == Installs
<1>1. /\ x \in Seq(Requests) /\ Ordered(x, FALSE, TRUE, {})
      /\ \A n \in handlers : /\ EndsOn(x, "addBinding", "removeBinding", n, FALSE)
                             /\ EndsOn(x, "evaluateShim", "evaluateDelete", n, FALSE)
      /\ \A i \in DOMAIN x : /\ x[i].method \in {"addBinding", "addScript", "evaluateShim"}
                             /\ x[i].method = "addBinding" => x[i].arg \in handlers
  BY InstallsFacts
<1>2. PICK b \in Nat : /\ Len(x) = b + Len(scripts)
                       /\ \A i \in 1..b : ~IsUser(x[i])
                       /\ \A k \in DOMAIN scripts : /\ x[b + k].method = "addScript"
                                                    /\ x[b + k].arg = UserScript(scripts[k])
  BY InstallsFacts
<1> HIDE DEF x
<1>3. FALSE \in BOOLEAN
  OBVIOUS
<1>4. PICK list \in Seq(Requests) :
          /\ list = EnableDomains(FALSE) \o x /\ Ordered(list, FALSE, FALSE, {})
          /\ Before(list, Len(list) + 1, "Page.enable", "", FALSE)
          /\ \A i \in DOMAIN list :
                \/ list[i].method \in {"Runtime.enable", "Page.enable"}
                \/ \E k \in DOMAIN x : list[i] = x[k]
          /\ \A on, off, n : EndsOn(x, on, off, n, FALSE) => EndsOn(list, on, off, n, FALSE)
          /\ \E base \in Nat :
                /\ Len(list) = base + Len(x)
                /\ \A i \in 1..base : list[i].method \in {"Runtime.enable", "Page.enable"}
                /\ \A k \in DOMAIN x : list[base + k] = x[k]
  BY <1>1, <1>3, WithDomains
<1>5. ASSUME NEW i \in DOMAIN list
      PROVE  /\ list[i].method \in {"Runtime.enable", "Page.enable", "addBinding", "addScript", "evaluateShim"}
             /\ list[i].method = "addBinding" => list[i].arg \in handlers
  <2>1. CASE list[i].method \in {"Runtime.enable", "Page.enable"}
    BY <2>1
  <2>2. CASE \E k \in DOMAIN x : list[i] = x[k]
    BY <1>1, <2>2
  <2> QED BY <1>4, <2>1, <2>2
<1>6. \A n \in handlers : /\ EndsOn(list, "addBinding", "removeBinding", n, FALSE)
                          /\ EndsOn(list, "evaluateShim", "evaluateDelete", n, FALSE)
  BY <1>1, <1>4
<1>7. \E base \in Nat :
          /\ Len(list) = base + Len(scripts)
          /\ \A i \in 1..base : ~IsUser(list[i])
          /\ \A k \in DOMAIN scripts : /\ list[base + k].method = "addScript"
                                       /\ list[base + k].arg = UserScript(scripts[k])
  <2>1. PICK a \in Nat : /\ Len(list) = a + Len(x)
                         /\ \A i \in 1..a : list[i].method \in {"Runtime.enable", "Page.enable"}
                         /\ \A k \in DOMAIN x : list[a + k] = x[k]
    BY <1>4
  <2>2. Len(scripts) \in Nat /\ DOMAIN scripts = 1..Len(scripts) /\ DOMAIN x = 1..Len(x)
    BY <1>1 DEF ViewTypes
  <2>3. a + b \in Nat /\ Len(list) = (a + b) + Len(scripts)
    BY <1>2, <2>1, <2>2
  <2>4. ASSUME NEW i \in 1..(a + b) PROVE ~IsUser(list[i])
    <3>1. CASE i \in 1..a
      BY <2>1, <3>1 DEF IsUser
    <3>2. CASE i \notin 1..a
      <4>1. i - a \in 1..b /\ i - a \in DOMAIN x /\ i = a + (i - a)
        BY <1>2, <2>2, <3>2
      <4>2. list[i] = x[i - a]
        BY <2>1, <4>1
      <4> QED BY <1>2, <4>1, <4>2
    <3> QED BY <3>1, <3>2
  <2>5. ASSUME NEW k \in DOMAIN scripts
        PROVE  list[(a + b) + k].method = "addScript" /\ list[(a + b) + k].arg = UserScript(scripts[k])
    <3>1. b + k \in DOMAIN x /\ (a + b) + k = a + (b + k)
      BY <1>2, <2>2
    <3>2. list[(a + b) + k] = x[b + k]
      BY <2>1, <3>1
    <3> QED BY <1>2, <3>2
  <2> QED BY <2>3, <2>4, <2>5
<1>8. list = EnableDomains(FALSE) \o Installs
  BY <1>4 DEF x
<1>9. Ordered(list, FALSE, FALSE, {}) /\ Before(list, Len(list) + 1, "Page.enable", "", FALSE)
  BY <1>4
<1> QED BY <1>5, <1>6, <1>7, <1>8, <1>9

-----------------------------------------------------------------------------
(***************************************************************************)
(* What each call of the host sends.                                       *)
(***************************************************************************)
LEMMA AddUserScriptSends ==
    ASSUME TInv, NEW s \in Sources, AddUserScriptAtDocumentStart(s)
    PROVE  \E list \in Seq(Requests) :
              /\ Sends(list)
              /\ IF HasBrowser THEN list = EnableDomains(enabled) \o OneScript(s)
                                ELSE list = <<>>
<1>1. commands \in Seq(Commands) /\ nextId \in Nat /\ enabled \in BOOLEAN
  BY DEF TInv, ViewTypes, AgentTypes
<1>2. EnableDomains(enabled) \o OneScript(s) \in Seq(Requests)
  <2>1. EnableDomains(enabled) \in Seq(Requests)
    BY <1>1, EnableDomainsFacts
  <2>2. OneScript(s) \in Seq(Requests)
    BY ScriptCommandFacts DEF OneScript
  <2> QED BY <2>1, <2>2, ConcatFacts
<1>3. CASE HasBrowser
  <2>1. Send(EnableDomains(enabled) \o OneScript(s))
    BY <1>3 DEF AddUserScriptAtDocumentStart, OneScript
  <2> QED BY <1>1, <1>2, <1>3, <2>1, SendFacts
<1>4. CASE ~HasBrowser
  BY <1>1, <1>4, SendNothingFacts DEF AddUserScriptAtDocumentStart
<1> QED BY <1>3, <1>4

LEMMA RemoveAllSends ==
    ASSUME TInv, RemoveAllUserScripts
    PROVE  <<>> \in Seq(Requests) /\ Sends(<<>>)
<1>1. commands \in Seq(Commands) /\ nextId \in Nat /\ identifiers = <<>>
  BY DEF TInv, ViewTypes, AgentTypes
<1>2. CASE HasBrowser
  <2>1. Send([i \in DOMAIN identifiers |-> Command("removeScript", identifiers[i])])
    BY <1>2 DEF RemoveAllUserScripts
  <2>2. [i \in DOMAIN identifiers |-> Command("removeScript", identifiers[i])] = <<>>
    <3>1. DOMAIN identifiers = 1..0 /\ \A i : i \notin 1..0
      BY <1>1
    <3>2. \A f \in [1..0 -> Requests] : f = <<>>
      OBVIOUS
    <3> QED BY <3>1, <3>2
  <2>3. <<>> \in Seq(Requests) /\ Send(<<>>)
    BY <2>1, <2>2
  <2> QED BY <1>1, <2>3, SendFacts
<1>3. CASE ~HasBrowser
  BY <1>1, <1>3, SendNothingFacts DEF RemoveAllUserScripts
<1> QED BY <1>2, <1>3

LEMMA AddHandlerSends ==
    ASSUME TInv, NEW n \in Names, AddMessageHandlerName(n)
    PROVE  \E list \in Seq(Requests) :
              /\ Sends(list)
              /\ IF HasBrowser THEN list = EnableDomains(enabled) \o HandlerCommands(n)
                                ELSE list = <<>>
<1>1. commands \in Seq(Commands) /\ nextId \in Nat /\ enabled \in BOOLEAN
  BY DEF TInv, ViewTypes, AgentTypes
<1>2. EnableDomains(enabled) \o HandlerCommands(n) \in Seq(Requests)
  BY <1>1, HandlerList
<1>3. CASE HasBrowser
  <2>1. Send(EnableDomains(enabled) \o HandlerCommands(n))
    BY <1>3 DEF AddMessageHandlerName
  <2> QED BY <1>1, <1>2, <1>3, <2>1, SendFacts
<1>4. CASE ~HasBrowser
  BY <1>1, <1>4, SendNothingFacts DEF AddMessageHandlerName
<1> QED BY <1>3, <1>4

\* The commands that undo a handler.
Undo(n) == <<Command("removeBinding", n), Command("evaluateDelete", n)>>

LEMMA UndoFacts ==
    ASSUME NEW n \in Names
    PROVE  /\ Undo(n) \in Seq(Requests) /\ DOMAIN Undo(n) = {1, 2}
           /\ Undo(n)[1].method = "removeBinding" /\ Undo(n)[1].arg = n
           /\ Undo(n)[2].method = "evaluateDelete" /\ Undo(n)[2].arg = n
           /\ \A on \in BOOLEAN : Ordered(Undo(n), FALSE, on, {})
           /\ EndsOn(Undo(n), "removeBinding", "addBinding", n, FALSE)
<1>1. PICK a \in Requests, b \in Requests :
          a = Command("removeBinding", n) /\ b = Command("evaluateDelete", n)
  BY OneRequest DEF OfName
<1>2. Undo(n) = <<a, b>>
  BY <1>1 DEF Undo
<1>3. Undo(n) \in Seq(Requests) /\ DOMAIN Undo(n) = {1, 2} /\ Undo(n)[1] = a /\ Undo(n)[2] = b
  BY <1>2, Tuples
<1>4. a.method = "removeBinding" /\ a.arg = n /\ b.method = "evaluateDelete" /\ b.arg = n
  BY <1>1 DEF Command
<1>5. \A on \in BOOLEAN : Ordered(Undo(n), FALSE, on, {})
  BY <1>3, <1>4 DEF Ordered
<1>6. EndsOn(Undo(n), "removeBinding", "addBinding", n, FALSE)
  BY <1>3, <1>4 DEF EndsOn
<1> QED BY <1>3, <1>4, <1>5, <1>6

LEMMA RemoveHandlerSends ==
    ASSUME TInv, NEW n \in Names, RemoveMessageHandlerName(n)
    PROVE  \E list \in Seq(Requests) :
              /\ Sends(list)
              /\ IF HasBrowser THEN list = Undo(n) ELSE list = <<>>
<1>1. commands \in Seq(Commands) /\ nextId \in Nat
  BY DEF TInv, ViewTypes, AgentTypes
<1>2. CASE HasBrowser
  <2>1. Send(Undo(n))
    BY <1>2 DEF RemoveMessageHandlerName, Undo
  <2> QED BY <1>1, <1>2, <2>1, UndoFacts, SendFacts
<1>3. CASE ~HasBrowser
  BY <1>1, <1>3, SendNothingFacts DEF RemoveMessageHandlerName
<1> QED BY <1>2, <1>3

LEMMA EvaluateSends ==
    ASSUME TInv, NEW p \in Programs, EvaluateJavaScript(p)
    PROVE  \E list \in Seq(Requests) :
              /\ Sends(list)
              /\ IF HasBrowser THEN list = <<Command("evaluate", p)>> ELSE list = <<>>
<1>1. commands \in Seq(Commands) /\ nextId \in Nat
  BY DEF TInv, ViewTypes, AgentTypes
<1>2. Command("evaluate", p) \in Requests
  BY OneRequest
<1>3. <<Command("evaluate", p)>> \in Seq(Requests)
  BY <1>2, Tuples
<1>4. CASE HasBrowser
  <2>1. Send(<<Command("evaluate", p)>>)
    BY <1>4 DEF EvaluateJavaScript
  <2> QED BY <1>1, <1>3, <1>4, <2>1, SendFacts
<1>5. CASE ~HasBrowser
  BY <1>1, <1>5, SendNothingFacts DEF EvaluateJavaScript
<1> QED BY <1>4, <1>5

LEMMA DidCreateSends ==
    ASSUME TInv, BrowserDidCreate
    PROVE  \E list \in Seq(Requests) :
              /\ Sends(list)
              /\ IF HasBrowser /\ Installs # <<>>
                 THEN list = EnableDomains(FALSE) \o Installs ELSE list = <<>>
<1>1. commands \in Seq(Commands) /\ nextId \in Nat
  BY DEF TInv, ViewTypes, AgentTypes
<1>2. EnableDomains(FALSE) \o Installs \in Seq(Requests)
  BY InstallList DEF TInv
<1>3. CASE HasBrowser /\ Installs # <<>>
  <2>1. Send(EnableDomains(FALSE) \o Installs)
    BY <1>3 DEF BrowserDidCreate
  <2> QED BY <1>1, <1>2, <1>3, <2>1, SendFacts
<1>4. CASE ~(HasBrowser /\ Installs # <<>>)
  BY <1>1, <1>4, SendNothingFacts DEF BrowserDidCreate
<1> QED BY <1>3, <1>4

-----------------------------------------------------------------------------
(***************************************************************************)
(* Types.                                                                  *)
(***************************************************************************)
LEMMA NewAgentTyped == NewAgent \in Agents
<1>1. <<>> \in Seq([script : Sources, identifier : Nat])
  OBVIOUS
<1> QED BY <1>1 DEF NewAgent, Agents

LEMMA InitTypes == Init => TInv
<1> SUFFICES ASSUME Init PROVE TInv
  OBVIOUS
<1>0. evalCallbacks = <<>> /\ scripts = <<>> /\ nextId = 1 /\ calls = 0 /\ handlers = {}
  BY DEF Init
<1>1. ViewTypes
  <2>1. DOMAIN evalCallbacks \subseteq 1..nextId
    BY <1>0
  <2>2. scripts \in Seq(Sources) /\ nextId \in Nat /\ calls \in 0..MaxCalls
    BY <1>0, MaxCallsAssumption
  <2>3. IsFiniteSet(handlers)
    BY <1>0, FS_EmptySet
  <2> QED BY <2>1, <2>2, <2>3 DEF Init, ViewTypes
<1>2. agent \in Agents
  BY NewAgentTyped DEF Init
<1>3. AgentTypes
  BY <1>2, FS_EmptySet DEF Init, AgentTypes
<1>4. RecordTypes
  BY DEF Init, RecordTypes
<1> QED BY <1>1, <1>3, <1>4 DEF TInv

\* A step of the host or of the creation's block, by what it leaves.
LEMMA SendingTypes ==
    ASSUME TInv, NEW list \in Seq(Requests), Sends(list), browser' = browser,
           UNCHANGED agentVars,
           calls' \in 0..MaxCalls, enabled' \in BOOLEAN,
           handlers' \subseteq Names, IsFiniteSet(handlers'),
           scripts' \in Seq(Sources), identifiers' = <<>>,
           queue' \in Seq(Blocks), \A i \in DOMAIN queue' : \E j \in DOMAIN queue : queue'[i] = queue[j],
           evals' \in Seq(EvalRecord), posts' \in Seq(PostRecord), DOMAIN posts' = DOMAIN posts,
           \A id \in DOMAIN evalCallbacks' : id \in 1..nextId' /\ evalCallbacks'[id] \in DOMAIN evals'
    PROVE  TInv'
<1>1. /\ commands' \in Seq(Commands) /\ \A i \in DOMAIN commands' : commands'[i].id <= nextId'
      /\ nextId' \in Nat /\ nextId' >= nextId /\ rawCallbacks' \subseteq 1..nextId' /\ nextId \in Nat
  BY SendTypes DEF TInv, ViewTypes
<1>2. ViewTypes'
  BY <1>1 DEF TInv, ViewTypes
<1>3. AgentTypes'
  <2>1. awaiting \subseteq [id : 1..nextId', program : Programs]
    <3>1. 1..nextId \subseteq 1..nextId'
      BY <1>1
    <3> QED BY <3>1 DEF TInv, AgentTypes
  <2> QED BY <1>1, <2>1 DEF TInv, AgentTypes, agentVars
<1>4. RecordTypes'
  BY DEF TInv, RecordTypes
<1> QED BY <1>2, <1>3, <1>4 DEF TInv

LEMMA TypeFacts ==
    ASSUME TInv
    PROVE  /\ browser \in {"none", "attached", "unowned", "closed"}
           /\ nextId \in Nat /\ calls \in 0..MaxCalls /\ enabled \in BOOLEAN /\ calls \in Int
           /\ DOMAIN evalCallbacks \subseteq 1..nextId /\ rawCallbacks \subseteq 1..nextId
           /\ handlers \subseteq Names /\ IsFiniteSet(handlers)
           /\ scripts \in Seq(Sources) /\ identifiers = <<>>
           /\ commands \in Seq(Commands) /\ \A i \in DOMAIN commands : commands[i].id <= nextId
           /\ agent \in Agents /\ page \subseteq Names
           /\ awaiting \subseteq [id : 1..nextId, program : Programs] /\ IsFiniteSet(awaiting)
           /\ queue \in Seq(Blocks) /\ evals \in Seq(EvalRecord) /\ posts \in Seq(PostRecord)
           /\ \A id \in DOMAIN evalCallbacks : id \in 1..nextId /\ evalCallbacks[id] \in DOMAIN evals
           /\ \A i \in DOMAIN queue : queue[i].kind = "event" => queue[i].id \in DOMAIN posts
BY MaxCallsAssumption DEF TInv, ViewTypes, AgentTypes, RecordTypes

LEMMA ApiCallTypes == ASSUME TInv, NEW name, ApiCall(name) PROVE calls' \in 0..MaxCalls
BY TypeFacts, MaxCallsAssumption DEF ApiCall

LEMMA AddUserScriptTypes ==
    ASSUME TInv, NEW s \in Sources, AddUserScriptAtDocumentStart(s) PROVE TInv'
<1>1. PICK list \in Seq(Requests) : Sends(list)
  BY AddUserScriptSends
<1>2. calls' \in 0..MaxCalls
  BY ApiCallTypes DEF AddUserScriptAtDocumentStart
<1>3. scripts' \in Seq(Sources)
  BY TypeFacts DEF AddUserScriptAtDocumentStart
<1>4. enabled' \in BOOLEAN
  BY TypeFacts DEF AddUserScriptAtDocumentStart
<1>5. UNCHANGED <<browser, evalCallbacks, handlers, identifiers, queue, agentVars, evals, posts>>
  BY DEF AddUserScriptAtDocumentStart
<1>6. nextId' >= nextId /\ nextId' \in Nat
  BY <1>1, SendTypes
<1>7. \A id \in DOMAIN evalCallbacks' : id \in 1..nextId' /\ evalCallbacks'[id] \in DOMAIN evals'
  BY <1>5, <1>6, TypeFacts
<1> QED BY <1>1, <1>2, <1>3, <1>4, <1>5, <1>7, TypeFacts, SendingTypes

LEMMA RemoveAllTypes == ASSUME TInv, RemoveAllUserScripts PROVE TInv'
<1>1. <<>> \in Seq(Requests) /\ Sends(<<>>)
  BY RemoveAllSends
<1>2. calls' \in 0..MaxCalls
  BY ApiCallTypes DEF RemoveAllUserScripts
<1>3. /\ UNCHANGED <<browser, evalCallbacks, handlers, enabled, queue, agentVars, evals, posts>>
      /\ scripts' = <<>> /\ identifiers' = <<>>
  BY DEF RemoveAllUserScripts
<1>4. nextId' >= nextId /\ nextId' \in Nat
  BY <1>1, SendTypes
<1>5. \A id \in DOMAIN evalCallbacks' : id \in 1..nextId' /\ evalCallbacks'[id] \in DOMAIN evals'
  BY <1>3, <1>4, TypeFacts
<1>6. scripts' \in Seq(Sources)
  BY <1>3
<1> QED BY <1>1, <1>2, <1>3, <1>5, <1>6, TypeFacts, SendingTypes

LEMMA AddHandlerTypes == ASSUME TInv, NEW n \in Names, AddMessageHandlerName(n) PROVE TInv'
<1>1. PICK list \in Seq(Requests) : Sends(list)
  BY AddHandlerSends
<1>2. calls' \in 0..MaxCalls
  BY ApiCallTypes DEF AddMessageHandlerName
<1>3. handlers' \subseteq Names /\ IsFiniteSet(handlers')
  BY TypeFacts, FS_AddElement DEF AddMessageHandlerName
<1>4. enabled' \in BOOLEAN
  BY TypeFacts DEF AddMessageHandlerName
<1>5. UNCHANGED <<browser, evalCallbacks, scripts, identifiers, queue, agentVars, evals, posts>>
  BY DEF AddMessageHandlerName
<1>6. nextId' >= nextId /\ nextId' \in Nat
  BY <1>1, SendTypes
<1>7. \A id \in DOMAIN evalCallbacks' : id \in 1..nextId' /\ evalCallbacks'[id] \in DOMAIN evals'
  BY <1>5, <1>6, TypeFacts
<1> QED BY <1>1, <1>2, <1>3, <1>4, <1>5, <1>7, TypeFacts, SendingTypes

LEMMA OrphanedFacts ==
    ASSUME posts \in Seq(PostRecord), NEW n
    PROVE  /\ Orphaned(n) \in Seq(PostRecord) /\ DOMAIN Orphaned(n) = DOMAIN posts
           /\ \A i \in DOMAIN posts :
                 /\ Orphaned(n)[i].name = posts[i].name
                 /\ Orphaned(n)[i].outcome = posts[i].outcome
                 /\ Orphaned(n)[i].removed = (posts[i].removed \/ posts[i].name = n)
<1>1. DOMAIN posts = 1..Len(posts) /\ Len(posts) \in Nat /\ \A i \in DOMAIN posts : posts[i] \in PostRecord
  OBVIOUS
<1>2. ASSUME NEW i \in DOMAIN posts
      PROVE  /\ Orphaned(n)[i] \in PostRecord
             /\ Orphaned(n)[i].name = posts[i].name
             /\ Orphaned(n)[i].outcome = posts[i].outcome
             /\ Orphaned(n)[i].removed = (posts[i].removed \/ posts[i].name = n)
  <2>1. posts[i] \in PostRecord
    BY <1>1
  <2>2. CASE posts[i].name = n
    <3>1. Orphaned(n)[i] = [posts[i] EXCEPT !.removed = TRUE]
      BY <2>2 DEF Orphaned
    <3> QED BY <2>1, <2>2, <3>1 DEF PostRecord
  <2>3. CASE posts[i].name # n
    <3>1. Orphaned(n)[i] = posts[i]
      BY <2>3 DEF Orphaned
    <3> QED BY <2>1, <2>3, <3>1 DEF PostRecord
  <2> QED BY <2>2, <2>3
<1>3. DOMAIN Orphaned(n) = DOMAIN posts
  BY DEF Orphaned
<1>4. Orphaned(n) = [i \in DOMAIN posts |-> Orphaned(n)[i]]
  BY DEF Orphaned
<1>5. Orphaned(n) \in [1..Len(posts) -> PostRecord]
  BY <1>1, <1>2, <1>4
<1> QED BY <1>1, <1>2, <1>3, <1>5

LEMMA RemoveHandlerTypes == ASSUME TInv, NEW n \in Names, RemoveMessageHandlerName(n) PROVE TInv'
<1>1. PICK list \in Seq(Requests) : Sends(list)
  BY RemoveHandlerSends
<1>2. calls' \in 0..MaxCalls
  BY ApiCallTypes DEF RemoveMessageHandlerName
<1>3. handlers' \subseteq Names /\ IsFiniteSet(handlers')
  BY TypeFacts, FS_RemoveElement DEF RemoveMessageHandlerName
<1>4. posts' \in Seq(PostRecord) /\ DOMAIN posts' = DOMAIN posts
  BY TypeFacts, OrphanedFacts DEF RemoveMessageHandlerName
<1>5. UNCHANGED <<browser, evalCallbacks, enabled, scripts, identifiers, queue, agentVars, evals>>
  BY DEF RemoveMessageHandlerName
<1>6. nextId' >= nextId /\ nextId' \in Nat
  BY <1>1, SendTypes
<1>7. \A id \in DOMAIN evalCallbacks' : id \in 1..nextId' /\ evalCallbacks'[id] \in DOMAIN evals'
  BY <1>5, <1>6, TypeFacts
<1> QED BY <1>1, <1>2, <1>3, <1>4, <1>5, <1>7, TypeFacts, SendingTypes

LEMMA EvaluateFacts ==
    ASSUME TInv, NEW p \in Programs, EvaluateJavaScript(p)
    PROVE  /\ evals' \in Seq(EvalRecord) /\ Len(evals) + 1 \in DOMAIN evals'
           /\ evals'[Len(evals) + 1].program = p
           /\ evals'[Len(evals) + 1].outcome = IF HasBrowser THEN "pending" ELSE "error"
           /\ DOMAIN evals' = DOMAIN evals \cup {Len(evals) + 1}
           /\ \A i \in DOMAIN evals : i \in DOMAIN evals' /\ evals'[i] = evals[i]
           /\ HasBrowser =>
                 /\ DOMAIN evalCallbacks' = DOMAIN evalCallbacks \cup {nextId + 1}
                 /\ evalCallbacks'[nextId + 1] = Len(evals) + 1
                 /\ \A id \in DOMAIN evalCallbacks : evalCallbacks'[id] = evalCallbacks[id]
           /\ ~HasBrowser => evalCallbacks' = evalCallbacks
<1>1. PICK r \in EvalRecord : /\ evals' = Append(evals, r) /\ r.program = p
                              /\ r.outcome = IF HasBrowser THEN "pending" ELSE "error"
  <2>1. [program |-> p, outcome |-> "pending"] \in EvalRecord /\ [program |-> p, outcome |-> "error"] \in EvalRecord
    BY DEF EvalRecord, Outcomes
  <2> QED BY <2>1 DEF EvaluateJavaScript
<1>2. /\ evals' \in Seq(EvalRecord) /\ Len(evals) + 1 \in DOMAIN evals' /\ evals'[Len(evals) + 1] = r
      /\ \A i \in DOMAIN evals : i \in DOMAIN evals' /\ evals'[i] = evals[i]
      /\ \A i \in DOMAIN evals' : i \in DOMAIN evals \/ i = Len(evals) + 1
  BY <1>1, TypeFacts, AppendFacts
<1>3. ASSUME HasBrowser
      PROVE  /\ DOMAIN evalCallbacks' = DOMAIN evalCallbacks \cup {nextId + 1}
             /\ evalCallbacks'[nextId + 1] = Len(evals) + 1
             /\ \A id \in DOMAIN evalCallbacks : evalCallbacks'[id] = evalCallbacks[id]
  <2>1. evalCallbacks' = Remember(nextId + 1, Len(evals) + 1)
    BY <1>3 DEF EvaluateJavaScript
  <2>2. nextId + 1 \notin DOMAIN evalCallbacks
    BY TypeFacts
  <2> QED BY <2>1, <2>2 DEF Remember
<1>4. ~HasBrowser => evalCallbacks' = evalCallbacks
  BY DEF EvaluateJavaScript
<1> QED BY <1>1, <1>2, <1>3, <1>4

LEMMA EvaluateTypes == ASSUME TInv, NEW p \in Programs, EvaluateJavaScript(p) PROVE TInv'
<1>1. PICK list \in Seq(Requests) :
          /\ Sends(list)
          /\ IF HasBrowser THEN list = <<Command("evaluate", p)>> ELSE list = <<>>
  BY EvaluateSends
<1>2. calls' \in 0..MaxCalls
  BY ApiCallTypes DEF EvaluateJavaScript
<1>3. UNCHANGED <<browser, handlers, enabled, scripts, identifiers, queue, agentVars, posts>>
  BY DEF EvaluateJavaScript
<1>4. nextId' >= nextId /\ nextId' \in Nat /\ (HasBrowser => nextId' = nextId + 1)
  <2>1. nextId' >= nextId /\ nextId' \in Nat
    BY <1>1, SendTypes
  <2>2. nextId' = nextId + Len(list)
    BY <1>1 DEF Sends
  <2>3. ASSUME HasBrowser PROVE Len(list) = 1
    BY <1>1, <2>3, OneRequest, Tuples
  <2> QED BY <2>1, <2>2, <2>3
<1>5. ASSUME NEW id \in DOMAIN evalCallbacks'
      PROVE  id \in 1..nextId' /\ evalCallbacks'[id] \in DOMAIN evals'
  <2>1. CASE id \in DOMAIN evalCallbacks
    <3>1. id \in 1..nextId /\ evalCallbacks[id] \in DOMAIN evals
      BY <2>1, TypeFacts
    <3>2. evalCallbacks'[id] = evalCallbacks[id]
      BY <2>1, EvaluateFacts
    <3>3. evalCallbacks[id] \in DOMAIN evals'
      BY <3>1, EvaluateFacts
    <3> QED BY <1>4, <3>1, <3>2, <3>3, TypeFacts
  <2>2. CASE id \notin DOMAIN evalCallbacks
    <3>1. HasBrowser
      BY <2>2, EvaluateFacts
    <3>2. id = nextId + 1 /\ evalCallbacks'[id] = Len(evals) + 1
      BY <2>2, <3>1, EvaluateFacts
    <3>3. Len(evals) + 1 \in DOMAIN evals'
      BY EvaluateFacts
    <3> QED BY <1>4, <3>1, <3>2, <3>3, TypeFacts
  <2> QED BY <2>1, <2>2
<1>6. evals' \in Seq(EvalRecord)
  BY EvaluateFacts
<1> QED BY <1>1, <1>2, <1>3, <1>5, <1>6, TypeFacts, SendingTypes

LEMMA DidCreateTypes == ASSUME TInv, BrowserDidCreate PROVE TInv'
<1>1. PICK list \in Seq(Requests) : Sends(list)
  BY DidCreateSends
<1>2. /\ UNCHANGED <<browser, evalCallbacks, handlers, scripts, agentVars, evals, posts, calls>>
      /\ enabled' \in BOOLEAN /\ identifiers' = <<>> /\ queue # <<>> /\ queue' = Tail(queue)
  BY TypeFacts DEF BrowserDidCreate
<1>3. queue' \in Seq(Blocks) /\ \A i \in DOMAIN queue' : \E j \in DOMAIN queue : queue'[i] = queue[j]
  BY <1>2, TypeFacts, TailFacts
<1>4. nextId' >= nextId /\ nextId' \in Nat
  BY <1>1, SendTypes
<1>5. \A id \in DOMAIN evalCallbacks' : id \in 1..nextId' /\ evalCallbacks'[id] \in DOMAIN evals'
  BY <1>2, <1>4, TypeFacts
<1> QED BY <1>1, <1>2, <1>3, <1>5, TypeFacts, SendingTypes

LEMMA AgentRecord ==
    /\ \A a \in Agents :
          /\ a.runtime \in BOOLEAN /\ a.pageDomain \in BOOLEAN
          /\ a.bindings \subseteq Names /\ a.shims \subseteq Names
          /\ a.scripts \in Seq([script : Sources, identifier : Nat])
    /\ \A a \in Agents : [a EXCEPT !.runtime = TRUE] \in Agents
    /\ \A a \in Agents : [a EXCEPT !.pageDomain = TRUE] \in Agents
    /\ \A a \in Agents, b \in SUBSET Names : [a EXCEPT !.bindings = b] \in Agents
    /\ \A a \in Agents, b \in SUBSET Names : [a EXCEPT !.shims = b] \in Agents
    /\ \A a \in Agents, s \in Seq([script : Sources, identifier : Nat]) : [a EXCEPT !.scripts = s] \in Agents
BY DEF Agents

\* What executing a command does to the agent.
LEMMA ExecutedFacts ==
    ASSUME agent \in Agents, NEW c \in Commands
    PROVE  /\ Executed(c) \in Agents
           /\ Executed(c).runtime = (agent.runtime \/ c.method = "Runtime.enable")
           /\ Executed(c).pageDomain = (agent.pageDomain \/ c.method = "Page.enable")
           /\ Executed(c).bindings = IF c.method = "addBinding" THEN agent.bindings \cup {c.arg}
                                     ELSE IF c.method = "removeBinding" THEN agent.bindings \ {c.arg}
                                     ELSE agent.bindings
           /\ \A n : c.method = "addScript" /\ c.arg = Shim(n) =>
                        Executed(c).shims = agent.shims \cup {n}
           /\ ~(\E n \in Names : c.method = "addScript" /\ c.arg = Shim(n)) =>
                 Executed(c).shims = agent.shims
           /\ \A s : c.method = "addScript" /\ c.arg = UserScript(s) =>
                        Executed(c).scripts = Append(agent.scripts, [script |-> s, identifier |-> c.id])
           /\ ~(\E s \in Sources : c.method = "addScript" /\ c.arg = UserScript(s)) =>
                 Executed(c).scripts = agent.scripts
<1> DEFINE r == Executed(c)
<1>0. /\ c.id \in Nat
      /\ c.method \in OfName => c.arg \in Names
      /\ c.method = "addScript" => \/ \E n \in Names : c.arg = Shim(n)
                                   \/ \E s \in Sources : c.arg = UserScript(s)
      /\ c.method # "removeScript"
  BY CommandFacts
<1>a. /\ agent.runtime \in BOOLEAN /\ agent.pageDomain \in BOOLEAN
      /\ agent.bindings \subseteq Names /\ agent.shims \subseteq Names
      /\ agent.scripts \in Seq([script : Sources, identifier : Nat])
  BY AgentRecord
<1>1. CASE c.method = "Runtime.enable"
  <2>1. r = [agent EXCEPT !.runtime = TRUE]
    BY <1>1 DEF Executed
  <2>2. r \in Agents
    BY <2>1, AgentRecord
  <2>3. /\ r.runtime = TRUE /\ r.pageDomain = agent.pageDomain /\ r.bindings = agent.bindings
        /\ r.shims = agent.shims /\ r.scripts = agent.scripts
    BY <2>1 DEF Agents
  <2> QED BY <1>1, <1>a, <2>2, <2>3
<1>2. CASE c.method = "Page.enable"
  <2>1. r = [agent EXCEPT !.pageDomain = TRUE]
    BY <1>2 DEF Executed
  <2>2. r \in Agents
    BY <2>1, AgentRecord
  <2>3. /\ r.runtime = agent.runtime /\ r.pageDomain = TRUE /\ r.bindings = agent.bindings
        /\ r.shims = agent.shims /\ r.scripts = agent.scripts
    BY <2>1 DEF Agents
  <2> QED BY <1>2, <1>a, <2>2, <2>3
<1>3. CASE c.method = "addBinding"
  <2>1. r = [agent EXCEPT !.bindings = agent.bindings \cup {c.arg}]
    BY <1>3 DEF Executed
  <2>2. r \in Agents
    <3>1. agent.bindings \cup {c.arg} \in SUBSET Names
      BY <1>0, <1>3, <1>a DEF OfName
    <3> QED BY <2>1, <3>1, AgentRecord
  <2>3. /\ r.runtime = agent.runtime /\ r.pageDomain = agent.pageDomain
        /\ r.bindings = agent.bindings \cup {c.arg}
        /\ r.shims = agent.shims /\ r.scripts = agent.scripts
    BY <2>1 DEF Agents
  <2> QED BY <1>3, <1>a, <2>2, <2>3
<1>4. CASE c.method = "removeBinding"
  <2>1. r = [agent EXCEPT !.bindings = agent.bindings \ {c.arg}]
    BY <1>4 DEF Executed
  <2>2. r \in Agents
    <3>1. agent.bindings \ {c.arg} \in SUBSET Names
      BY <1>a
    <3> QED BY <2>1, <3>1, AgentRecord
  <2>3. /\ r.runtime = agent.runtime /\ r.pageDomain = agent.pageDomain
        /\ r.bindings = agent.bindings \ {c.arg}
        /\ r.shims = agent.shims /\ r.scripts = agent.scripts
    BY <2>1 DEF Agents
  <2> QED BY <1>4, <1>a, <2>2, <2>3
<1>5. ASSUME NEW n \in Names, c.method = "addScript", c.arg = Shim(n)
      PROVE  /\ r \in Agents /\ r.shims = agent.shims \cup {n}
             /\ r.runtime = agent.runtime /\ r.pageDomain = agent.pageDomain
             /\ r.bindings = agent.bindings /\ r.scripts = agent.scripts
  <2>0. c.arg.kind = "shim" /\ c.arg.of = n
    BY <1>5, ShimsAndUsers
  <2>1. r = [agent EXCEPT !.shims = agent.shims \cup {n}]
    BY <1>5, <2>0 DEF Executed
  <2>2. r \in Agents
    <3>1. agent.shims \cup {n} \in SUBSET Names
      BY <1>a
    <3> QED BY <2>1, <3>1, AgentRecord
  <2> QED BY <2>1, <2>2 DEF Agents
<1>6. ASSUME NEW s \in Sources, c.method = "addScript", c.arg = UserScript(s)
      PROVE  /\ r \in Agents /\ r.shims = agent.shims
             /\ r.runtime = agent.runtime /\ r.pageDomain = agent.pageDomain
             /\ r.bindings = agent.bindings
             /\ r.scripts = Append(agent.scripts, [script |-> s, identifier |-> c.id])
  <2>0. c.arg.kind = "user" /\ c.arg.of = s
    BY <1>6, ShimsAndUsers
  <2>1. r = [agent EXCEPT !.scripts = Append(agent.scripts, [script |-> s, identifier |-> c.id])]
    BY <1>6, <2>0 DEF Executed
  <2>2. Append(agent.scripts, [script |-> s, identifier |-> c.id]) \in Seq([script : Sources, identifier : Nat])
    BY <1>0, <1>a
  <2>3. r \in Agents
    BY <2>1, <2>2, AgentRecord
  <2> QED BY <2>1, <2>3 DEF Agents
<1>7. CASE c.method \notin {"Runtime.enable", "Page.enable", "addBinding", "removeBinding", "addScript"}
  <2>1. r = agent
    BY <1>0, <1>7 DEF Executed
  <2> QED BY <1>7, <1>a, <2>1
<1>8. CASE c.method = "addScript"
  <2> HIDE DEF r
  <2>a. c.method \notin {"Runtime.enable", "Page.enable", "addBinding", "removeBinding"}
    BY <1>8
  <2>1. ASSUME NEW n \in Names, c.arg = Shim(n)
        PROVE  /\ r \in Agents /\ r.shims = agent.shims \cup {n}
               /\ r.runtime = agent.runtime /\ r.pageDomain = agent.pageDomain
               /\ r.bindings = agent.bindings /\ r.scripts = agent.scripts
               /\ \A m : c.arg = Shim(m) => m = n
               /\ \A s : c.arg # UserScript(s)
    <3>1. (\A m : c.arg = Shim(m) => m = n) /\ \A s : c.arg # UserScript(s)
      BY <2>1, ShimsAndUsers
    <3> QED BY <1>5, <1>8, <2>1, <3>1
  <2>2. ASSUME NEW s \in Sources, c.arg = UserScript(s)
        PROVE  /\ r \in Agents /\ r.shims = agent.shims
               /\ r.runtime = agent.runtime /\ r.pageDomain = agent.pageDomain
               /\ r.bindings = agent.bindings
               /\ r.scripts = Append(agent.scripts, [script |-> s, identifier |-> c.id])
               /\ \A t : c.arg = UserScript(t) => t = s
               /\ \A n : c.arg # Shim(n)
    <3>1. (\A t : c.arg = UserScript(t) => t = s) /\ \A n : c.arg # Shim(n)
      <4>1. c.arg.of = s
        BY <2>2, ShimsAndUsers
      <4> QED BY <2>2, <4>1, ShimsAndUsers
    <3> QED BY <1>6, <1>8, <2>2, <3>1
  <2>3. CASE \E n \in Names : c.arg = Shim(n)
    BY <1>8, <1>a, <2>a, <2>1, <2>3 DEF r
  <2>4. CASE \E s \in Sources : c.arg = UserScript(s)
    BY <1>8, <1>a, <2>a, <2>2, <2>4 DEF r
  <2> QED BY <1>0, <1>8, <2>3, <2>4
<1> QED BY <1>1, <1>2, <1>3, <1>4, <1>7, <1>8

\* A step that leaves the queue's blocks and may add one, or several.
LEMMA AgentSteps ==
    ASSUME TInv, UNCHANGED <<browser, viewVars, evals, posts, calls>>,
           commands' \in Seq(Commands), \A i \in DOMAIN commands' : commands'[i].id <= nextId,
           agent' \in Agents, page' \subseteq Names,
           awaiting' \subseteq [id : 1..nextId, program : Programs], IsFiniteSet(awaiting'),
           queue' \in Seq(Blocks),
           \A i \in DOMAIN queue' : queue'[i].kind = "event" => queue'[i].id \in DOMAIN posts
    PROVE  TInv'
<1>1. ViewTypes'
  BY DEF TInv, ViewTypes, viewVars
<1>2. AgentTypes'
  BY DEF TInv, AgentTypes, viewVars
<1>3. RecordTypes'
  BY DEF TInv, RecordTypes, viewVars
<1> QED BY <1>1, <1>2, <1>3 DEF TInv

\* A popup of CEF's, or the view's browser: a new agent that has been sent nothing.
LEMMA OnAfterCreatedFacts ==
    ASSUME TInv, OnAfterCreated
    PROVE  /\ agent' = NewAgent /\ page' = {} /\ commands' = <<>> /\ awaiting' = {}
           /\ UNCHANGED <<viewVars, evals, posts>> /\ calls' \in 0..MaxCalls
           /\ \/ /\ browser' = "attached" /\ browser \in {"none", "attached"}
                 /\ \E b \in Blocks : queue' = Append(queue, b) /\ b.kind = "didCreate"
              \/ browser' = "unowned" /\ queue' = queue /\ browser \notin {"none", "attached"}
<1> DEFINE b == Block("didCreate", 0, <<>>)
<1>1. b \in Blocks /\ b.kind = "didCreate"
  BY BlockFields, ReplyFacts
<1>2. calls' \in 0..MaxCalls
  BY TypeFacts, MaxCallsAssumption DEF OnAfterCreated
<1> QED BY <1>1, <1>2 DEF OnAfterCreated, Unregister

LEMMA OnAfterCreatedTypes == ASSUME TInv, OnAfterCreated PROVE TInv'
<1>1. /\ agent' = NewAgent /\ page' = {} /\ commands' = <<>> /\ awaiting' = {}
      /\ UNCHANGED <<viewVars, evals, posts>> /\ calls' \in 0..MaxCalls
      /\ browser' \in {"attached", "unowned"}
  BY OnAfterCreatedFacts
<1>2. queue' = queue \/ \E b \in Blocks : queue' = Append(queue, b) /\ b.kind = "didCreate"
  BY OnAfterCreatedFacts
<1>3. queue' \in Seq(Blocks) /\ \A i \in DOMAIN queue' : queue'[i].kind = "event" => queue'[i].id \in DOMAIN posts
  <2>1. CASE queue' = queue
    BY <2>1, TypeFacts
  <2>2. ASSUME NEW b \in Blocks, queue' = Append(queue, b), b.kind = "didCreate"
        PROVE  /\ queue' \in Seq(Blocks)
               /\ \A i \in DOMAIN queue' : queue'[i].kind = "event" => queue'[i].id \in DOMAIN posts
    BY <2>2, TypeFacts, AppendFacts
  <2> QED BY <1>2, <2>1, <2>2
<1>4. ViewTypes'
  BY <1>1 DEF TInv, ViewTypes, viewVars
<1>5. AgentTypes'
  <2>1. commands' \in Seq(Commands) /\ DOMAIN commands' = {} /\ IsFiniteSet(awaiting')
    BY <1>1, FS_EmptySet
  <2> QED BY <1>1, <2>1, NewAgentTyped DEF AgentTypes
<1>6. RecordTypes'
  BY <1>1, <1>3 DEF TInv, RecordTypes, viewVars
<1> QED BY <1>4, <1>5, <1>6 DEF TInv

LEMMA OnBeforeCloseFacts ==
    ASSUME OnBeforeClose
    PROVE  /\ browser' = "closed" /\ commands' = <<>> /\ awaiting' = {}
           /\ UNCHANGED <<viewVars, queue, agent, page, evals, posts, calls>>
BY DEF OnBeforeClose, Unregister

LEMMA OnBeforeCloseTypes == ASSUME TInv, OnBeforeClose PROVE TInv'
<1>1. /\ browser' = "closed" /\ commands' = <<>> /\ awaiting' = {}
      /\ UNCHANGED <<viewVars, queue, agent, page, evals, posts, calls>>
  BY OnBeforeCloseFacts
<1>2. ViewTypes'
  BY <1>1 DEF TInv, ViewTypes, viewVars
<1>3. commands' \in Seq(Commands) /\ DOMAIN commands' = {} /\ IsFiniteSet(awaiting')
  BY <1>1, FS_EmptySet
<1>4. AgentTypes'
  BY <1>1, <1>3 DEF TInv, AgentTypes, viewVars
<1>5. RecordTypes'
  BY <1>1 DEF TInv, RecordTypes, viewVars
<1> QED BY <1>2, <1>4, <1>5 DEF TInv

\* The command that is executed, and what comes of it.
LEMMA AgentExecutesFacts ==
    ASSUME TInv, AgentExecutes
    PROVE  /\ browser = "attached"
           /\ commands # <<>> /\ Head(commands) \in Commands /\ Head(commands).id \in 1..nextId
           /\ commands' = Tail(commands) /\ agent' = Executed(Head(commands)) /\ agent' \in Agents
           /\ UNCHANGED <<browser, viewVars, evals, posts, calls>>
           /\ \A n : n \in page' <=> \/ Head(commands).method = "evaluateShim" /\ Head(commands).arg = n
                                     \/ /\ n \in page
                                        /\ ~(Head(commands).method = "evaluateDelete" /\ Head(commands).arg = n)
           /\ Head(commands).method = "evaluate" =>
                 /\ queue' = queue
                 /\ awaiting' = awaiting \cup {[id |-> Head(commands).id, program |-> Head(commands).arg]}
           /\ Head(commands).method # "evaluate" =>
                 /\ awaiting' = awaiting
                 /\ \E b \in Blocks : /\ queue' = Append(queue, b) /\ b.kind = "result"
                                      /\ b.id = Head(commands).id /\ "result" \notin DOMAIN b.reply
<1> DEFINE c == Head(commands)
<1>1. /\ commands # <<>> /\ c \in Commands /\ c.id \in 1..nextId /\ commands' = Tail(commands)
      /\ UNCHANGED <<browser, viewVars, evals, posts, calls>>
  <2>1. commands # <<>> /\ commands' = Tail(commands) /\ UNCHANGED <<browser, viewVars, evals, posts, calls>>
    BY DEF AgentExecutes
  <2>2. c \in Commands /\ c = commands[1] /\ 1 \in DOMAIN commands
    BY <2>1, TypeFacts, TailFacts
  <2>3. c.id \in Nat \ {0} /\ c.id <= nextId /\ nextId \in Nat
    BY <2>2, TypeFacts, CommandFacts
  <2> QED BY <2>1, <2>2, <2>3
<1>2. agent' = Executed(c)
  BY DEF AgentExecutes
<1>3. agent' \in Agents
  BY <1>1, <1>2, TypeFacts, ExecutedFacts
<1>4. \A n : n \in page' <=> \/ c.method = "evaluateShim" /\ c.arg = n
                             \/ n \in page /\ ~(c.method = "evaluateDelete" /\ c.arg = n)
  BY DEF AgentExecutes
<1>5. c.method = "evaluate" => /\ queue' = queue
                               /\ awaiting' = awaiting \cup {[id |-> c.id, program |-> c.arg]}
  BY DEF AgentExecutes
<1>6. ASSUME c.method # "evaluate"
      PROVE  /\ awaiting' = awaiting
             /\ \E b \in Blocks : /\ queue' = Append(queue, b) /\ b.kind = "result"
                                  /\ b.id = c.id /\ "result" \notin DOMAIN b.reply
  <2>1. PICK reply \in Replies :
            /\ reply = IF c.method = "addScript" THEN Identified(c.id) ELSE Succeeded
            /\ "result" \notin DOMAIN reply
    BY <1>1, ReplyFacts
  <2>2. awaiting' = awaiting /\ queue' = Append(queue, Block("result", c.id, reply))
    BY <1>6, <2>1 DEF AgentExecutes, Reply
  <2>3. Block("result", c.id, reply) \in Blocks
    BY <1>1, BlockFields
  <2> QED BY <2>1, <2>2, <2>3, BlockFields
<1>7. browser = "attached"
  BY DEF AgentExecutes
<1> QED BY <1>1, <1>2, <1>3, <1>4, <1>5, <1>6, <1>7

LEMMA AgentExecutesTypes == ASSUME TInv, AgentExecutes PROVE TInv'
<1> DEFINE c == Head(commands)
<1>1. /\ commands # <<>> /\ c \in Commands /\ c.id \in 1..nextId
      /\ commands' = Tail(commands) /\ agent' \in Agents
      /\ UNCHANGED <<browser, viewVars, evals, posts, calls>>
      /\ \A n : n \in page' => (c.method = "evaluateShim" /\ c.arg = n) \/ n \in page
      /\ c.method = "evaluate" =>
            queue' = queue /\ awaiting' = awaiting \cup {[id |-> c.id, program |-> c.arg]}
      /\ c.method # "evaluate" =>
            /\ awaiting' = awaiting
            /\ \E b \in Blocks : queue' = Append(queue, b) /\ b.kind = "result"
  BY AgentExecutesFacts
<1>2. /\ c.method \in OfName => c.arg \in Names
      /\ c.method = "evaluate" => c.arg \in Programs
  BY <1>1, CommandFacts
<1> HIDE DEF c
<1>3. page' \subseteq Names
  BY <1>1, <1>2, TypeFacts DEF OfName
<1>4. commands' \in Seq(Commands) /\ \A i \in DOMAIN commands' : commands'[i].id <= nextId
  BY <1>1, TypeFacts, TailFacts
<1>5. awaiting' \subseteq [id : 1..nextId, program : Programs] /\ IsFiniteSet(awaiting')
  <2>1. CASE c.method = "evaluate"
    <3>1. [id |-> c.id, program |-> c.arg] \in [id : 1..nextId, program : Programs]
      BY <1>1, <1>2, <2>1
    <3>2. awaiting \subseteq [id : 1..nextId, program : Programs] /\ IsFiniteSet(awaiting)
      BY TypeFacts
    <3>3. IsFiniteSet(awaiting \cup {[id |-> c.id, program |-> c.arg]})
      BY <3>2, FS_AddElement
    <3> QED BY <1>1, <2>1, <3>1, <3>2, <3>3
  <2>2. CASE c.method # "evaluate"
    BY <1>1, <2>2, TypeFacts
  <2> QED BY <2>1, <2>2
<1>6. queue' \in Seq(Blocks) /\ \A i \in DOMAIN queue' : queue'[i].kind = "event" => queue'[i].id \in DOMAIN posts
  <2>1. CASE c.method = "evaluate"
    BY <1>1, <2>1, TypeFacts
  <2>2. CASE c.method # "evaluate"
    <3>1. PICK b \in Blocks : queue' = Append(queue, b) /\ b.kind = "result"
      BY <1>1, <2>2
    <3> QED BY <3>1, TypeFacts, AppendFacts
  <2> QED BY <2>1, <2>2
<1> QED BY <1>1, <1>3, <1>4, <1>5, <1>6, AgentSteps

LEMMA SettlesFacts ==
    ASSUME TInv, NEW e \in awaiting, EvaluationSettles(e)
    PROVE  /\ e.id \in 1..nextId /\ e.program \in Programs
           /\ awaiting' = awaiting \ {e}
           /\ \E b \in Blocks : /\ queue' = Append(queue, b) /\ b.kind = "result"
                                /\ b.id = e.id /\ b.reply = Answer(e.program)
           /\ UNCHANGED <<browser, viewVars, commands, agent, page, evals, posts, calls>>
<1>1. e.id \in 1..nextId /\ e.program \in Programs /\ e.id \in Nat
  BY TypeFacts
<1>2. PICK reply \in Replies : reply = Answer(e.program)
  BY <1>1, ReplyFacts
<1>3. queue' = Append(queue, Block("result", e.id, reply))
  BY <1>2 DEF EvaluationSettles, Reply
<1>4. Block("result", e.id, reply) \in Blocks
  BY <1>1, BlockFields
<1>5. \E b \in Blocks : /\ queue' = Append(queue, b) /\ b.kind = "result"
                        /\ b.id = e.id /\ b.reply = Answer(e.program)
  BY <1>2, <1>3, <1>4, BlockFields
<1> QED BY <1>1, <1>5 DEF EvaluationSettles

LEMMA SettlesTypes == ASSUME TInv, NEW e \in awaiting, EvaluationSettles(e) PROVE TInv'
<1>1. PICK b \in Blocks : queue' = Append(queue, b) /\ b.kind = "result"
  BY SettlesFacts
<1>2. /\ awaiting' = awaiting \ {e}
      /\ UNCHANGED <<browser, viewVars, commands, agent, page, evals, posts, calls>>
  BY SettlesFacts
<1>3. queue' \in Seq(Blocks) /\ \A i \in DOMAIN queue' : queue'[i].kind = "event" => queue'[i].id \in DOMAIN posts
  BY <1>1, TypeFacts, AppendFacts
<1>4. awaiting' \subseteq [id : 1..nextId, program : Programs] /\ IsFiniteSet(awaiting')
  BY <1>2, TypeFacts, FS_RemoveElement
<1> QED BY <1>2, <1>3, <1>4, TypeFacts, AgentSteps

LEMMA NavigateFacts ==
    ASSUME TInv, Navigate
    PROVE  /\ browser = "attached" /\ page' = NewDocumentShims /\ awaiting' = {}
           /\ UNCHANGED <<browser, viewVars, commands, agent, evals, posts, calls>>
           /\ \E failed \in Seq(Blocks) :
                 /\ queue' = queue \o failed
                 /\ \A i \in DOMAIN failed : /\ failed[i].kind = "result" /\ failed[i].reply = <<>>
                                             /\ \E e \in awaiting : failed[i].id = e.id
                 /\ \A e \in awaiting : \E i \in DOMAIN failed : failed[i].id = e.id
<1> DEFINE S == {Block("result", e.id, <<>>) : e \in awaiting}
<1>1. IsFiniteSet(S)
  <2> DEFINE f == [e \in awaiting |-> Block("result", e.id, <<>>)]
  <2>1. f \in Surjection(awaiting, S)
    BY DEF Surjection
  <2> HIDE DEF f, S
  <2>2. IsFiniteSet(awaiting)
    BY TypeFacts
  <2> QED BY <2>1, <2>2, FS_Surjection
<1>2. PICK failed \in Seq(S) : /\ failed = SetToSeq(S)
                                /\ \A b \in S : \E i \in DOMAIN failed : failed[i] = b
  BY <1>1, SetToSeqFacts
<1>3. queue' = queue \o failed
  BY <1>2 DEF Navigate
<1>4. ASSUME NEW b \in S
      PROVE  /\ b \in Blocks /\ b.kind = "result" /\ b.reply = <<>>
             /\ \E e \in awaiting : b.id = e.id
  <2>1. PICK e \in awaiting : b = Block("result", e.id, <<>>)
    OBVIOUS
  <2>2. e.id \in Nat
    BY TypeFacts
  <2> QED BY <2>1, <2>2, BlockFields, ReplyFacts
<1>7. \A e \in awaiting : \E b \in S : b.id = e.id
  BY BlockFields
<1> HIDE DEF S
<1>5. failed \in Seq(Blocks)
  <2>1. \A i \in 1..Len(failed) : failed[i] \in Blocks
    BY <1>2, <1>4
  <2> QED BY <1>2, <2>1
<1>6. \A i \in DOMAIN failed : failed[i] \in S
  BY <1>2
<1>8. \A e \in awaiting : \E i \in DOMAIN failed : failed[i].id = e.id
  BY <1>2, <1>7
<1> QED BY <1>3, <1>4, <1>5, <1>6, <1>8 DEF Navigate

LEMMA NavigateTypes == ASSUME TInv, Navigate PROVE TInv'
<1>1. PICK failed \in Seq(Blocks) :
          queue' = queue \o failed /\ \A i \in DOMAIN failed : failed[i].kind = "result"
  BY NavigateFacts
<1>2. /\ page' = NewDocumentShims /\ awaiting' = {}
      /\ UNCHANGED <<browser, viewVars, commands, agent, evals, posts, calls>>
  BY NavigateFacts
<1>3. queue' \in Seq(Blocks)
  BY <1>1, TypeFacts, ConcatFacts
<1>4. ASSUME NEW i \in DOMAIN queue', queue'[i].kind = "event" PROVE queue'[i].id \in DOMAIN posts
  <2>1. CASE i \in DOMAIN queue
    <3>1. queue'[i] = queue[i]
      BY <1>1, <2>1, TypeFacts, ConcatFacts
    <3> QED BY <1>4, <2>1, <3>1, TypeFacts
  <2>2. ASSUME NEW k \in DOMAIN failed, i = Len(queue) + k PROVE FALSE
    <3>1. queue'[i] = failed[k]
      BY <1>1, <2>2, TypeFacts, ConcatFacts
    <3> QED BY <1>1, <1>4, <3>1
  <2> QED BY <1>1, <2>1, <2>2, TypeFacts, ConcatFacts
<1>5. awaiting' \subseteq [id : 1..nextId, program : Programs] /\ IsFiniteSet(awaiting')
  BY <1>2, FS_EmptySet
<1>6. page' \subseteq Names
  BY <1>2, TypeFacts, AgentRecord DEF NewDocumentShims
<1> QED BY <1>2, <1>3, <1>4, <1>5, <1>6, TypeFacts, AgentSteps

\* What a message posts.
LEMMA PostMessageFacts ==
    ASSUME TInv, NEW n \in Names, PostMessage(n)
    PROVE  /\ browser = "attached" /\ calls' \in 0..MaxCalls
           /\ posts' \in Seq(PostRecord) /\ Len(posts) + 1 \in DOMAIN posts'
           /\ posts'[Len(posts) + 1].name = n /\ posts'[Len(posts) + 1].outcome = "posted"
           /\ posts'[Len(posts) + 1].removed = (n \notin handlers)
           /\ \A i \in DOMAIN posts : i \in DOMAIN posts' /\ posts'[i] = posts[i]
           /\ \A i \in DOMAIN posts' : i \in DOMAIN posts \/ i = Len(posts) + 1
           /\ \E b \in Blocks : queue' = Append(queue, b) /\ b.kind = "event" /\ b.id = Len(posts) + 1
           /\ UNCHANGED <<browser, viewVars, commands, agentVars, evals>>
<1>1. PICK gone \in BOOLEAN : gone = (n \notin handlers)
  OBVIOUS
<1>2. PICK r \in PostRecord : r = [name |-> n, removed |-> gone, outcome |-> "posted"]
  BY DEF PostRecord
<1>3. r.name = n /\ r.outcome = "posted" /\ r.removed = (n \notin handlers)
  BY <1>1, <1>2
<1>4. posts' = Append(posts, r)
  BY <1>1, <1>2 DEF PostMessage
<1>5. /\ posts' \in Seq(PostRecord) /\ Len(posts) + 1 \in DOMAIN posts' /\ posts'[Len(posts) + 1] = r
      /\ \A i \in DOMAIN posts : i \in DOMAIN posts' /\ posts'[i] = posts[i]
      /\ \A i \in DOMAIN posts' : i \in DOMAIN posts \/ i = Len(posts) + 1
  BY <1>4, TypeFacts, AppendFacts
<1>6. Len(posts) + 1 \in Nat
  BY TypeFacts
<1>7. \E b \in Blocks : queue' = Append(queue, b) /\ b.kind = "event" /\ b.id = Len(posts) + 1
  <2>1. queue' = Append(queue, Block("event", Len(posts) + 1, <<>>))
    BY DEF PostMessage
  <2>2. Block("event", Len(posts) + 1, <<>>) \in Blocks
    BY <1>6, BlockFields, ReplyFacts
  <2> QED BY <2>1, <2>2, BlockFields
<1>8. calls' \in 0..MaxCalls
  BY TypeFacts, MaxCallsAssumption DEF PostMessage
<1> QED BY <1>3, <1>5, <1>7, <1>8 DEF PostMessage

LEMMA PostMessageTypes == ASSUME TInv, NEW n \in Names, PostMessage(n) PROVE TInv'
<1>1. /\ calls' \in 0..MaxCalls /\ posts' \in Seq(PostRecord) /\ Len(posts) + 1 \in DOMAIN posts'
      /\ \A i \in DOMAIN posts : i \in DOMAIN posts'
      /\ UNCHANGED <<browser, viewVars, commands, agentVars, evals>>
  BY PostMessageFacts
<1>2. PICK b \in Blocks : queue' = Append(queue, b) /\ b.id = Len(posts) + 1
  BY PostMessageFacts
<1>3. queue' \in Seq(Blocks) /\ \A i \in DOMAIN queue' : queue'[i].kind = "event" => queue'[i].id \in DOMAIN posts'
  BY <1>1, <1>2, TypeFacts, AppendFacts, SMTT(30)
<1>4. ViewTypes'
  BY <1>1 DEF TInv, ViewTypes, viewVars
<1>5. AgentTypes'
  BY <1>1 DEF TInv, AgentTypes, viewVars, agentVars
<1>6. RecordTypes'
  BY <1>1, <1>3 DEF TInv, RecordTypes, viewVars
<1> QED BY <1>4, <1>5, <1>6 DEF TInv

LEMMA EventFacts ==
    ASSUME TInv, OnDevToolsEvent
    PROVE  \E i \in DOMAIN posts :
              /\ queue # <<>> /\ queue' = Tail(queue) /\ Head(queue).kind = "event"
              /\ i = Head(queue).id /\ posts'[i].outcome \in {"ignored", "handled"}
              /\ posts' \in Seq(PostRecord) /\ DOMAIN posts' = DOMAIN posts
              /\ posts'[i].name = posts[i].name /\ posts'[i].removed = posts[i].removed
              /\ posts'[i].outcome = "ignored" => posts[i].name \notin handlers
              /\ \A j \in DOMAIN posts : j # i => posts'[j] = posts[j]
              /\ UNCHANGED <<browser, viewVars, commands, agentVars, evals, calls>>
<1>1. queue # <<>> /\ Head(queue).kind = "event" /\ queue' = Tail(queue)
  BY DEF OnDevToolsEvent
<1>2. Head(queue) = queue[1] /\ 1 \in DOMAIN queue
  BY <1>1, TypeFacts, TailFacts
<1>3. PICK i \in DOMAIN posts : i = Head(queue).id
  BY <1>1, <1>2, TypeFacts
<1>4. PICK o \in {"ignored", "handled"} :
          o = IF HandlerFor(posts[i].name) = {} THEN "ignored" ELSE "handled"
  OBVIOUS
<1>5. posts' = [posts EXCEPT ![i].outcome = o]
  BY <1>3, <1>4 DEF OnDevToolsEvent
<1>6. posts[i] \in PostRecord /\ DOMAIN posts = 1..Len(posts) /\ Len(posts) \in Nat
      /\ posts \in [1..Len(posts) -> PostRecord]
  BY TypeFacts
<1>7. DOMAIN posts' = DOMAIN posts /\ \A j \in DOMAIN posts : j # i => posts'[j] = posts[j]
  BY <1>5
<1>8. posts'[i] = [posts[i] EXCEPT !.outcome = o]
  BY <1>5
<1>9. /\ posts'[i] \in PostRecord /\ posts'[i].name = posts[i].name
      /\ posts'[i].removed = posts[i].removed /\ posts'[i].outcome = o
  BY <1>6, <1>8 DEF PostRecord
<1>10. posts' \in Seq(PostRecord)
  <2>1. posts' = [posts EXCEPT ![i] = posts'[i]]
    BY <1>5, <1>8
  <2>2. posts' \in [1..Len(posts) -> PostRecord]
    BY <1>6, <1>9, <2>1
  <2> QED BY <1>6, <2>2
<1>11. o = "ignored" => posts[i].name \notin handlers
  BY <1>4 DEF HandlerFor
<1> QED BY <1>1, <1>3, <1>7, <1>9, <1>10, <1>11 DEF OnDevToolsEvent

LEMMA EventTypes == ASSUME TInv, OnDevToolsEvent PROVE TInv'
<1>1. /\ queue # <<>> /\ queue' = Tail(queue)
      /\ posts' \in Seq(PostRecord) /\ DOMAIN posts' = DOMAIN posts
      /\ UNCHANGED <<browser, viewVars, commands, agentVars, evals, calls>>
  BY EventFacts
<1>2. queue' \in Seq(Blocks) /\ \A i \in DOMAIN queue' : queue'[i].kind = "event" => queue'[i].id \in DOMAIN posts'
  BY <1>1, TypeFacts, TailFacts
<1>3. ViewTypes'
  BY <1>1 DEF TInv, ViewTypes, viewVars
<1>4. AgentTypes'
  BY <1>1 DEF TInv, AgentTypes, viewVars, agentVars
<1>5. RecordTypes'
  BY <1>1, <1>2 DEF TInv, RecordTypes, viewVars
<1> QED BY <1>3, <1>4, <1>5 DEF TInv

\* A result: a raw callback finds no identifier in it, a completion gets its own.
LEMMA ResultFacts ==
    ASSUME TInv, ResultsAnswer, OnDevToolsResult
    PROVE  /\ queue # <<>> /\ Head(queue).kind = "result" /\ queue' = Tail(queue)
           /\ UNCHANGED <<browser, nextId, handlers, enabled, scripts, commands, agentVars, posts, calls>>
           /\ identifiers' = <<>> /\ rawCallbacks' \subseteq rawCallbacks
           /\ DOMAIN evalCallbacks' \subseteq DOMAIN evalCallbacks
           /\ \A id \in DOMAIN evalCallbacks' : evalCallbacks'[id] = evalCallbacks[id]
           /\ evals' \in Seq(EvalRecord) /\ DOMAIN evals' = DOMAIN evals
           /\ \A i \in DOMAIN evals :
                 /\ evals'[i].program = evals[i].program
                 /\ evals'[i].outcome # evals[i].outcome => evals'[i].outcome \in Fitting(evals[i].program)
<1> DEFINE b == Head(queue)
<1>1. /\ queue # <<>> /\ b.kind = "result" /\ queue' = Tail(queue)
      /\ UNCHANGED <<browser, nextId, handlers, enabled, scripts, commands, agentVars, posts, calls>>
      /\ RawResult(b) \/ EvalResult(b)
  BY DEF OnDevToolsResult
<1>2. b = queue[1] /\ 1 \in DOMAIN queue
  BY <1>1, TypeFacts, TailFacts
<1>3. /\ b.id \in rawCallbacks => "result" \notin DOMAIN b.reply
      /\ b.id \in DOMAIN evalCallbacks => b.reply = <<>> \/ b.reply = Answer(Awaited(b.id))
  BY <1>1, <1>2 DEF ResultsAnswer
<1>4. evals \in Seq(EvalRecord) /\ identifiers = <<>>
  BY TypeFacts
<1> HIDE DEF b
<1>5. CASE RawResult(b)
  <2>1. identifiers' = <<>> /\ rawCallbacks' \subseteq rawCallbacks /\ evalCallbacks' = evalCallbacks /\ evals' = evals
    BY <1>3, <1>4, <1>5 DEF RawResult
  <2> QED BY <1>1, <1>4, <2>1 DEF b
<1>6. CASE EvalResult(b) /\ b.id \notin DOMAIN evalCallbacks
  <2>1. identifiers' = <<>> /\ rawCallbacks' = rawCallbacks /\ evalCallbacks' = evalCallbacks /\ evals' = evals
    BY <1>4, <1>6 DEF EvalResult
  <2> QED BY <1>1, <1>4, <2>1 DEF b
<1>7. CASE EvalResult(b) /\ b.id \in DOMAIN evalCallbacks
  <2>1. PICK k \in DOMAIN evals : k = evalCallbacks[b.id]
    BY <1>7, TypeFacts
  <2>2. /\ identifiers' = <<>> /\ rawCallbacks' = rawCallbacks /\ evalCallbacks' = Forget(b.id)
        /\ evals' = [evals EXCEPT ![k].outcome = Completion(b.reply)]
    BY <1>4, <1>7, <2>1 DEF EvalResult
  <2>3. /\ DOMAIN evalCallbacks' \subseteq DOMAIN evalCallbacks
        /\ \A id \in DOMAIN evalCallbacks' : evalCallbacks'[id] = evalCallbacks[id]
    BY <2>2 DEF Forget
  <2>4. /\ evals[k] \in EvalRecord /\ DOMAIN evals = 1..Len(evals) /\ Len(evals) \in Nat
        /\ evals \in [1..Len(evals) -> EvalRecord]
    BY <1>4
  <2>5. evals[k].program \in Programs
    BY <2>4 DEF EvalRecord
  <2>6. Completion(b.reply) \in Fitting(evals[k].program)
    <3>1. CASE b.reply = <<>>
      BY <3>1, CompletionOfAnswer DEF Fitting
    <3>2. CASE b.reply = Answer(evals[k].program)
      BY <2>5, <3>2, CompletionOfAnswer DEF Fitting
    <3> QED BY <1>3, <1>7, <2>1, <3>1, <3>2 DEF Awaited
  <2>7. PICK o \in Outcomes : o = Completion(b.reply) /\ o \in Fitting(evals[k].program)
    BY <2>6 DEF Fitting, Outcomes
  <2>8. evals' = [evals EXCEPT ![k].outcome = o]
    BY <2>2, <2>7
  <2>9. evals'[k] = [evals[k] EXCEPT !.outcome = o]
    BY <2>8
  <2>10. evals'[k] \in EvalRecord /\ evals'[k].program = evals[k].program /\ evals'[k].outcome = o
    BY <2>4, <2>9 DEF EvalRecord
  <2>11. DOMAIN evals' = DOMAIN evals /\ \A i \in DOMAIN evals : i # k => evals'[i] = evals[i]
    BY <2>8
  <2>12. evals' \in Seq(EvalRecord)
    <3>1. evals' = [evals EXCEPT ![k] = evals'[k]]
      BY <2>8, <2>9
    <3>2. evals' \in [1..Len(evals) -> EvalRecord]
      BY <2>4, <2>10, <3>1
    <3> QED BY <2>4, <3>2
  <2> QED BY <1>1, <2>2, <2>3, <2>7, <2>10, <2>11, <2>12 DEF b
<1> QED BY <1>1, <1>5, <1>6, <1>7

LEMMA ResultTypes == ASSUME TInv, ResultsAnswer, OnDevToolsResult PROVE TInv'
<1>1. /\ queue # <<>> /\ queue' = Tail(queue)
      /\ UNCHANGED <<browser, nextId, handlers, enabled, scripts, commands, agentVars, posts, calls>>
      /\ identifiers' = <<>> /\ rawCallbacks' \subseteq rawCallbacks
      /\ DOMAIN evalCallbacks' \subseteq DOMAIN evalCallbacks
      /\ \A id \in DOMAIN evalCallbacks' : evalCallbacks'[id] = evalCallbacks[id]
      /\ evals' \in Seq(EvalRecord) /\ DOMAIN evals' = DOMAIN evals
  BY ResultFacts
<1>2. queue' \in Seq(Blocks) /\ \A i \in DOMAIN queue' : queue'[i].kind = "event" => queue'[i].id \in DOMAIN posts
  BY <1>1, TypeFacts, TailFacts
<1>3. ViewTypes'
  BY <1>1 DEF TInv, ViewTypes
<1>4. AgentTypes'
  BY <1>1 DEF TInv, AgentTypes, agentVars
<1>5. RecordTypes'
  BY <1>1, <1>2 DEF TInv, RecordTypes
<1> QED BY <1>3, <1>4, <1>5 DEF TInv

LEMMA StutterTypes == ASSUME TInv, UNCHANGED vars PROVE TInv'
BY DEF vars, viewVars, agentVars, TInv, ViewTypes, AgentTypes, RecordTypes

LEMMA StepTypes == ASSUME TInv, ResultsAnswer, [Next]_vars PROVE TInv'
<1>1. CASE HostCalls
  BY <1>1, AddUserScriptTypes, RemoveAllTypes, AddHandlerTypes, RemoveHandlerTypes, EvaluateTypes
     DEF HostCalls
<1>2. CASE OnAfterCreated \/ OnBeforeClose
  BY <1>2, OnAfterCreatedTypes, OnBeforeCloseTypes
<1>3. CASE BrowserDidCreate \/ OnDevToolsResult \/ OnDevToolsEvent
  BY <1>3, DidCreateTypes, ResultTypes, EventTypes
<1>4. CASE AgentExecutes \/ \E e \in awaiting : EvaluationSettles(e)
  BY <1>4, AgentExecutesTypes, SettlesTypes
<1>5. CASE Navigate \/ \E n \in Names : PostMessage(n)
  BY <1>5, NavigateTypes, PostMessageTypes
<1>6. CASE UNCHANGED vars
  BY <1>6, StutterTypes
<1> QED BY <1>1, <1>2, <1>3, <1>4, <1>5, <1>6 DEF Next

-----------------------------------------------------------------------------
(***************************************************************************)
(* Answers.                                                                *)
(***************************************************************************)
\* A step that sends: the new commands are about what waits for them.
LEMMA SendingAnswers ==
    ASSUME TInv, CommandsAnswer, PromisesAnswer, ResultsAnswer,
           NEW list \in Seq(Requests), Sends(list), awaiting' = awaiting,
           \A i \in DOMAIN queue' : \E j \in DOMAIN queue : queue'[i] = queue[j],
           \A id \in 1..nextId : id \in DOMAIN evalCallbacks' =>
               /\ id \in DOMAIN evalCallbacks
               /\ evals'[evalCallbacks'[id]].program = Awaited(id),
           \A k \in DOMAIN list :
               IF list[k].method = "evaluate"
               THEN nextId + k \in DOMAIN evalCallbacks' =>
                        list[k].arg = evals'[evalCallbacks'[nextId + k]].program
               ELSE nextId + k \notin DOMAIN evalCallbacks'
    PROVE  CommandsAnswer' /\ PromisesAnswer' /\ ResultsAnswer'
<1> DEFINE sent == Numbered(list, nextId)
<1>1. /\ commands \in Seq(Commands) /\ nextId \in Nat /\ rawCallbacks \subseteq 1..nextId
      /\ \A i \in DOMAIN commands : commands[i].id \in 1..nextId
      /\ \A e \in awaiting : e.id \in 1..nextId
  <2>1. ASSUME NEW i \in DOMAIN commands PROVE commands[i].id \in 1..nextId
    <3>1. commands[i] \in Commands /\ commands[i].id <= nextId /\ nextId \in Nat
      BY TypeFacts
    <3> QED BY <3>1, CommandFacts
  <2> QED BY <2>1, TypeFacts
<1>2. /\ sent \in Seq(Commands) /\ DOMAIN sent = DOMAIN list
      /\ \A k \in DOMAIN list : /\ k \in Nat /\ k > 0 /\ sent[k].id = nextId + k
                                /\ sent[k].method = list[k].method /\ sent[k].arg = list[k].arg
  BY <1>1, NumberedFacts DEF Numbered
<1>3. /\ commands' = commands \o sent /\ nextId' = nextId + Len(list)
      /\ \A id \in rawCallbacks' : id \in rawCallbacks \/
            \E i \in DOMAIN list : id = nextId + i /\ list[i].method = "addScript"
  BY DEF Sends
<1> HIDE DEF sent
<1>4. \A id \in 1..nextId : id \in rawCallbacks' => id \in rawCallbacks
  BY <1>1, <1>2, <1>3
<1>5. \A k \in DOMAIN list : list[k].method = "evaluate" => nextId + k \notin rawCallbacks'
  <2> SUFFICES ASSUME NEW k \in DOMAIN list, list[k].method = "evaluate", nextId + k \in rawCallbacks'
               PROVE  FALSE
    OBVIOUS
  <2>1. nextId + k \notin rawCallbacks
    BY <1>1, <1>2
  <2>2. PICK i \in DOMAIN list : nextId + k = nextId + i /\ list[i].method = "addScript"
    BY <1>3, <2>1
  <2>3. i = k
    BY <1>1, <1>2, <2>2
  <2> QED BY <2>2, <2>3
<1>6. CommandsAnswer'
  <2> SUFFICES ASSUME NEW i \in DOMAIN commands'
               PROVE  IF commands'[i].method = "evaluate"
                      THEN /\ commands'[i].id \notin rawCallbacks'
                           /\ commands'[i].id \in DOMAIN evalCallbacks' =>
                                 commands'[i].arg = evals'[evalCallbacks'[commands'[i].id]].program
                      ELSE commands'[i].id \notin DOMAIN evalCallbacks'
    BY DEF CommandsAnswer, Awaited
  <2>1. CASE i \in DOMAIN commands
    <3>1. commands'[i] = commands[i] /\ commands[i].id \in 1..nextId
      BY <1>1, <1>2, <1>3, <2>1, ConcatFacts
    <3>2. IF commands[i].method = "evaluate"
          THEN /\ commands[i].id \notin rawCallbacks
               /\ commands[i].id \in DOMAIN evalCallbacks => commands[i].arg = Awaited(commands[i].id)
          ELSE commands[i].id \notin DOMAIN evalCallbacks
      BY <2>1 DEF CommandsAnswer
    <3> QED BY <1>4, <3>1, <3>2
  <2>2. ASSUME NEW k \in DOMAIN sent, i = Len(commands) + k
        PROVE  IF commands'[i].method = "evaluate"
               THEN /\ commands'[i].id \notin rawCallbacks'
                    /\ commands'[i].id \in DOMAIN evalCallbacks' =>
                          commands'[i].arg = evals'[evalCallbacks'[commands'[i].id]].program
               ELSE commands'[i].id \notin DOMAIN evalCallbacks'
    <3>1. commands'[i] = sent[k]
      BY <1>1, <1>2, <1>3, <2>2, ConcatFacts
    <3> QED BY <1>2, <1>5, <3>1
  <2> QED BY <1>1, <1>2, <1>3, <2>1, <2>2, ConcatFacts, SMTT(30)
<1>7. PromisesAnswer'
  BY <1>1, <1>4 DEF PromisesAnswer, Awaited
<1>8. ResultsAnswer'
  <2> SUFFICES ASSUME NEW i \in DOMAIN queue', queue'[i].kind = "result"
               PROVE  /\ queue'[i].id \in rawCallbacks' => "result" \notin DOMAIN queue'[i].reply
                      /\ queue'[i].id \in DOMAIN evalCallbacks' =>
                            \/ queue'[i].reply = <<>>
                            \/ queue'[i].reply = Answer(evals'[evalCallbacks'[queue'[i].id]].program)
                      /\ queue'[i].id \in 1..nextId'
    BY DEF ResultsAnswer, Awaited
  <2>1. PICK j \in DOMAIN queue : queue'[i] = queue[j]
    OBVIOUS
  <2>2. /\ queue[j].id \in rawCallbacks => "result" \notin DOMAIN queue[j].reply
        /\ queue[j].id \in DOMAIN evalCallbacks =>
              queue[j].reply = <<>> \/ queue[j].reply = Answer(Awaited(queue[j].id))
        /\ queue[j].id \in 1..nextId
    BY <2>1 DEF ResultsAnswer
  <2>3. 1..nextId \subseteq 1..nextId'
    BY <1>1, <1>3
  <2> QED BY <1>4, <2>1, <2>2, <2>3
<1> QED BY <1>6, <1>7, <1>8

\* A step that sends no evaluation and leaves those that there are.
LEMMA SendingOthers ==
    ASSUME TInv, AnswerInv, NEW list \in Seq(Requests), Sends(list),
           UNCHANGED <<agentVars, evalCallbacks, evals>>,
           \A i \in DOMAIN queue' : \E j \in DOMAIN queue : queue'[i] = queue[j],
           \A k \in DOMAIN list : list[k].method # "evaluate"
    PROVE  AnswerInv'
<1>1. DOMAIN evalCallbacks \subseteq 1..nextId /\ nextId \in Nat
  BY TypeFacts
<1>2. \A k \in DOMAIN list : nextId + k \notin DOMAIN evalCallbacks
  BY <1>1
<1>3. CommandsAnswer' /\ PromisesAnswer' /\ ResultsAnswer'
  BY <1>2, SendingAnswers DEF AnswerInv, agentVars, Awaited
<1> QED BY <1>3 DEF AnswerInv, OutcomesFit

LEMMA SameQueue == ASSUME queue' = queue PROVE \A i \in DOMAIN queue' : \E j \in DOMAIN queue : queue'[i] = queue[j]
OBVIOUS

LEMMA AddUserScriptAnswers ==
    ASSUME TInv, AnswerInv, NEW s \in Sources, AddUserScriptAtDocumentStart(s) PROVE AnswerInv'
<1>1. PICK list \in Seq(Requests) :
          /\ Sends(list)
          /\ IF HasBrowser THEN list = EnableDomains(enabled) \o OneScript(s) ELSE list = <<>>
  BY AddUserScriptSends
<1>2. \A k \in DOMAIN list : list[k].method # "evaluate"
  <2>1. CASE HasBrowser
    <3>1. enabled \in BOOLEAN
      BY TypeFacts
    <3>2. PICK l \in Seq(Requests) :
              /\ l = EnableDomains(enabled) \o OneScript(s)
              /\ \A i \in DOMAIN l : l[i].method \in {"Runtime.enable", "Page.enable", "addScript"}
      BY <3>1, ScriptList
    <3> QED BY <1>1, <2>1, <3>2
  <2>2. CASE ~HasBrowser
    BY <1>1, <2>2
  <2> QED BY <2>1, <2>2
<1>3. UNCHANGED <<agentVars, evalCallbacks, evals>> /\ queue' = queue
  BY DEF AddUserScriptAtDocumentStart
<1> QED BY <1>1, <1>2, <1>3, SameQueue, SendingOthers

LEMMA RemoveAllAnswers == ASSUME TInv, AnswerInv, RemoveAllUserScripts PROVE AnswerInv'
<1>1. <<>> \in Seq(Requests) /\ Sends(<<>>)
  BY RemoveAllSends
<1>2. UNCHANGED <<agentVars, evalCallbacks, evals>> /\ queue' = queue
  BY DEF RemoveAllUserScripts
<1>3. PICK list \in Seq(Requests) : list = <<>> /\ Sends(list)
  BY <1>1
<1>4. \A k \in DOMAIN list : list[k].method # "evaluate"
  BY <1>3
<1> QED BY <1>2, <1>3, <1>4, SameQueue, SendingOthers

LEMMA AddHandlerAnswers ==
    ASSUME TInv, AnswerInv, NEW n \in Names, AddMessageHandlerName(n) PROVE AnswerInv'
<1>1. PICK list \in Seq(Requests) :
          /\ Sends(list)
          /\ IF HasBrowser THEN list = EnableDomains(enabled) \o HandlerCommands(n) ELSE list = <<>>
  BY AddHandlerSends
<1>2. \A k \in DOMAIN list : list[k].method # "evaluate"
  <2>1. CASE HasBrowser
    <3>1. enabled \in BOOLEAN
      BY TypeFacts
    <3> QED BY <1>1, <2>1, <3>1, HandlerList
  <2>2. CASE ~HasBrowser
    BY <1>1, <2>2
  <2> QED BY <2>1, <2>2
<1>3. UNCHANGED <<agentVars, evalCallbacks, evals>> /\ queue' = queue
  BY DEF AddMessageHandlerName
<1> QED BY <1>1, <1>2, <1>3, SameQueue, SendingOthers

LEMMA RemoveHandlerAnswers ==
    ASSUME TInv, AnswerInv, NEW n \in Names, RemoveMessageHandlerName(n) PROVE AnswerInv'
<1>1. PICK list \in Seq(Requests) :
          Sends(list) /\ IF HasBrowser THEN list = Undo(n) ELSE list = <<>>
  BY RemoveHandlerSends
<1>2. \A k \in DOMAIN list : list[k].method # "evaluate"
  <2>1. CASE HasBrowser
    <3>1. list = Undo(n)
      BY <1>1, <2>1
    <3>2. /\ DOMAIN Undo(n) = {1, 2}
          /\ Undo(n)[1].method = "removeBinding" /\ Undo(n)[2].method = "evaluateDelete"
      BY UndoFacts
    <3> QED BY <3>1, <3>2
  <2>2. CASE ~HasBrowser
    BY <1>1, <2>2
  <2> QED BY <2>1, <2>2
<1>3. UNCHANGED <<agentVars, evalCallbacks, evals>> /\ queue' = queue
  BY DEF RemoveMessageHandlerName
<1> QED BY <1>1, <1>2, <1>3, SameQueue, SendingOthers

LEMMA DidCreateAnswers == ASSUME TInv, AnswerInv, BrowserDidCreate PROVE AnswerInv'
<1>1. PICK list \in Seq(Requests) :
          /\ Sends(list)
          /\ IF HasBrowser /\ Installs # <<>>
             THEN list = EnableDomains(FALSE) \o Installs ELSE list = <<>>
  BY DidCreateSends
<1>2. \A k \in DOMAIN list : list[k].method # "evaluate"
  <2>1. CASE HasBrowser /\ Installs # <<>>
    BY <1>1, <2>1, InstallList DEF TInv
  <2>2. CASE ~(HasBrowser /\ Installs # <<>>)
    <3>1. list = <<>>
      BY <1>1, <2>2
    <3> QED BY <3>1
  <2> QED BY <2>1, <2>2
<1>3. UNCHANGED <<agentVars, evalCallbacks, evals>> /\ queue # <<>> /\ queue' = Tail(queue)
  BY DEF BrowserDidCreate
<1>4. \A i \in DOMAIN queue' : \E j \in DOMAIN queue : queue'[i] = queue[j]
  BY <1>3, TypeFacts, TailFacts
<1> QED BY <1>1, <1>2, <1>3, <1>4, SendingOthers

LEMMA EvaluateAnswers ==
    ASSUME TInv, AnswerInv, NEW p \in Programs, EvaluateJavaScript(p) PROVE AnswerInv'
<1>1. PICK list \in Seq(Requests) :
          Sends(list) /\ IF HasBrowser THEN list = <<Command("evaluate", p)>> ELSE list = <<>>
  BY EvaluateSends
<1>2. UNCHANGED agentVars /\ queue' = queue
  BY DEF EvaluateJavaScript
<1>3. /\ nextId \in Nat /\ DOMAIN evalCallbacks \subseteq 1..nextId
      /\ \A id \in DOMAIN evalCallbacks : evalCallbacks[id] \in DOMAIN evals
  BY TypeFacts
<1>4. ASSUME NEW id \in 1..nextId, id \in DOMAIN evalCallbacks'
      PROVE  /\ id \in DOMAIN evalCallbacks
             /\ evals'[evalCallbacks'[id]].program = Awaited(id)
  <2>1. id # nextId + 1
    BY <1>3
  <2>2. id \in DOMAIN evalCallbacks /\ evalCallbacks'[id] = evalCallbacks[id]
    BY <1>4, <2>1, EvaluateFacts
  <2>3. evals'[evalCallbacks[id]] = evals[evalCallbacks[id]]
    BY <1>3, <2>2, EvaluateFacts
  <2> QED BY <2>2, <2>3 DEF Awaited
<1>5. ASSUME NEW k \in DOMAIN list
      PROVE  IF list[k].method = "evaluate"
             THEN nextId + k \in DOMAIN evalCallbacks' =>
                      list[k].arg = evals'[evalCallbacks'[nextId + k]].program
             ELSE nextId + k \notin DOMAIN evalCallbacks'
  <2>1. HasBrowser /\ list = <<Command("evaluate", p)>>
    BY <1>1, <1>5
  <2>2. k = 1 /\ list[k] = Command("evaluate", p)
    BY <1>5, <2>1
  <2>3. list[k].method = "evaluate" /\ list[k].arg = p
    BY <2>2, CommandFields
  <2>4. evals'[evalCallbacks'[nextId + 1]].program = p
    BY <2>1, EvaluateFacts
  <2> QED BY <2>2, <2>3, <2>4
<1>6. CommandsAnswer' /\ PromisesAnswer' /\ ResultsAnswer'
  BY <1>1, <1>2, <1>4, <1>5, SameQueue, SendingAnswers DEF AnswerInv, agentVars
<1>7. OutcomesFit'
  <2> SUFFICES ASSUME NEW i \in DOMAIN evals'
               PROVE  evals'[i].outcome = "pending" \/ evals'[i].outcome \in Fitting(evals'[i].program)
    BY DEF OutcomesFit
  <2>1. CASE i \in DOMAIN evals
    BY <2>1, EvaluateFacts DEF AnswerInv, OutcomesFit
  <2>2. CASE i \notin DOMAIN evals
    BY <2>2, EvaluateFacts DEF Fitting
  <2> QED BY <2>1, <2>2
<1> QED BY <1>6, <1>7 DEF AnswerInv

\* The other steps.
LEMMA OnAfterCreatedAnswers == ASSUME TInv, AnswerInv, OnAfterCreated PROVE AnswerInv'
<1>1. commands' = <<>> /\ awaiting' = {} /\ UNCHANGED <<viewVars, evals>>
  BY OnAfterCreatedFacts
<1>2. queue' = queue \/ \E b \in Blocks : queue' = Append(queue, b) /\ b.kind = "didCreate"
  BY OnAfterCreatedFacts
<1>3. \A i \in DOMAIN queue' : queue'[i].kind = "result" => i \in DOMAIN queue /\ queue'[i] = queue[i]
  BY <1>2, TypeFacts, AppendFacts
<1>4. DOMAIN commands' = {}
  BY <1>1
<1> QED BY <1>1, <1>3, <1>4 DEF AnswerInv, CommandsAnswer, PromisesAnswer, ResultsAnswer, OutcomesFit, Awaited,
                                viewVars

LEMMA OnBeforeCloseAnswers == ASSUME TInv, AnswerInv, OnBeforeClose PROVE AnswerInv'
<1>1. commands' = <<>> /\ awaiting' = {} /\ UNCHANGED <<viewVars, queue, evals>>
  BY OnBeforeCloseFacts
<1>2. DOMAIN commands' = {}
  BY <1>1
<1> QED BY <1>1, <1>2 DEF AnswerInv, CommandsAnswer, PromisesAnswer, ResultsAnswer, OutcomesFit, Awaited,
                          viewVars

LEMMA EventAnswers == ASSUME TInv, AnswerInv, OnDevToolsEvent PROVE AnswerInv'
<1>1. /\ queue # <<>> /\ queue' = Tail(queue)
      /\ UNCHANGED <<browser, viewVars, commands, agentVars, evals, calls>>
  BY EventFacts
<1>2. \A i \in DOMAIN queue' : \E j \in DOMAIN queue : queue'[i] = queue[j]
  BY <1>1, TypeFacts, TailFacts
<1> QED BY <1>1, <1>2 DEF AnswerInv, CommandsAnswer, PromisesAnswer, ResultsAnswer, OutcomesFit, Awaited,
                          viewVars, agentVars

LEMMA ResultAnswers == ASSUME TInv, AnswerInv, OnDevToolsResult PROVE AnswerInv'
<1>0. ResultsAnswer
  BY DEF AnswerInv
<1>1. /\ queue # <<>> /\ queue' = Tail(queue)
      /\ UNCHANGED <<nextId, commands, agentVars>> /\ rawCallbacks' \subseteq rawCallbacks
      /\ DOMAIN evalCallbacks' \subseteq DOMAIN evalCallbacks
      /\ \A id \in DOMAIN evalCallbacks' : evalCallbacks'[id] = evalCallbacks[id]
      /\ DOMAIN evals' = DOMAIN evals
      /\ \A i \in DOMAIN evals :
            /\ evals'[i].program = evals[i].program
            /\ evals'[i].outcome # evals[i].outcome => evals'[i].outcome \in Fitting(evals[i].program)
  BY <1>0, ResultFacts
<1>2. \A i \in DOMAIN queue' : \E j \in DOMAIN queue : queue'[i] = queue[j]
  BY <1>1, TypeFacts, TailFacts
<1>3. \A id \in DOMAIN evalCallbacks' :
          id \in DOMAIN evalCallbacks /\ evals'[evalCallbacks'[id]].program = Awaited(id)
  BY <1>1, TypeFacts DEF Awaited
<1>4. CommandsAnswer'
  BY <1>1, <1>3 DEF AnswerInv, CommandsAnswer, Awaited
<1>5. PromisesAnswer'
  BY <1>1, <1>3 DEF AnswerInv, PromisesAnswer, Awaited, agentVars
<1>6. ResultsAnswer'
  BY <1>1, <1>2, <1>3 DEF AnswerInv, ResultsAnswer, Awaited
<1>7. OutcomesFit'
  BY <1>1 DEF AnswerInv, OutcomesFit
<1> QED BY <1>4, <1>5, <1>6, <1>7 DEF AnswerInv

LEMMA AgentExecutesAnswers == ASSUME TInv, AnswerInv, AgentExecutes PROVE AnswerInv'
<1> DEFINE c == Head(commands)
<1>1. /\ commands # <<>> /\ c.id \in 1..nextId /\ commands' = Tail(commands)
      /\ UNCHANGED <<viewVars, evals>>
      /\ c.method = "evaluate" =>
            queue' = queue /\ awaiting' = awaiting \cup {[id |-> c.id, program |-> c.arg]}
      /\ c.method # "evaluate" =>
            /\ awaiting' = awaiting
            /\ \E b \in Blocks : /\ queue' = Append(queue, b) /\ b.kind = "result"
                                 /\ b.id = c.id /\ "result" \notin DOMAIN b.reply
  BY AgentExecutesFacts
<1>2. c = commands[1] /\ 1 \in DOMAIN commands
  BY <1>1, TypeFacts, TailFacts
<1>3. IF c.method = "evaluate"
      THEN c.id \notin rawCallbacks /\ (c.id \in DOMAIN evalCallbacks => c.arg = Awaited(c.id))
      ELSE c.id \notin DOMAIN evalCallbacks
  BY <1>2 DEF AnswerInv, CommandsAnswer
<1> HIDE DEF c
<1>4. CommandsAnswer'
  <2>1. \A i \in DOMAIN commands' : \E j \in DOMAIN commands : commands'[i] = commands[j]
    BY <1>1, TypeFacts, TailFacts
  <2> QED BY <1>1, <2>1 DEF AnswerInv, CommandsAnswer, Awaited, viewVars
<1>5. PromisesAnswer'
  <2>1. CASE c.method = "evaluate"
    <3> DEFINE new == [id |-> c.id, program |-> c.arg]
    <3>1. new.id = c.id /\ new.program = c.arg
      OBVIOUS
    <3>2. awaiting' = awaiting \cup {new}
      BY <1>1, <2>1
    <3> HIDE DEF new
    <3> QED BY <1>1, <1>3, <2>1, <3>1, <3>2 DEF AnswerInv, PromisesAnswer, Awaited, viewVars
  <2>2. CASE c.method # "evaluate"
    BY <1>1, <2>2 DEF AnswerInv, PromisesAnswer, Awaited, viewVars
  <2> QED BY <2>1, <2>2
<1>6. ResultsAnswer'
  <2>1. CASE c.method = "evaluate"
    BY <1>1, <2>1 DEF AnswerInv, ResultsAnswer, Awaited, viewVars
  <2>2. CASE c.method # "evaluate"
    <3>1. PICK b \in Blocks : /\ queue' = Append(queue, b) /\ b.kind = "result"
                              /\ b.id = c.id /\ "result" \notin DOMAIN b.reply
      BY <1>1, <2>2
    <3>2. \A i \in DOMAIN queue' : (i \in DOMAIN queue /\ queue'[i] = queue[i]) \/ queue'[i] = b
      BY <3>1, TypeFacts, AppendFacts
    <3> QED BY <1>1, <1>3, <2>2, <3>1, <3>2 DEF AnswerInv, ResultsAnswer, Awaited, viewVars
  <2> QED BY <2>1, <2>2
<1>7. OutcomesFit'
  BY <1>1 DEF AnswerInv, OutcomesFit
<1> QED BY <1>4, <1>5, <1>6, <1>7 DEF AnswerInv

LEMMA SettlesAnswers == ASSUME TInv, AnswerInv, NEW e \in awaiting, EvaluationSettles(e) PROVE AnswerInv'
<1>1. PICK b \in Blocks : /\ queue' = Append(queue, b) /\ b.kind = "result"
                          /\ b.id = e.id /\ b.reply = Answer(e.program)
  BY SettlesFacts
<1>2. e.id \in 1..nextId /\ awaiting' = awaiting \ {e} /\ UNCHANGED <<viewVars, commands, evals>>
  BY SettlesFacts
<1>3. \A i \in DOMAIN queue' : (i \in DOMAIN queue /\ queue'[i] = queue[i]) \/ queue'[i] = b
  BY <1>1, TypeFacts, AppendFacts
<1>4. e.id \notin rawCallbacks /\ (e.id \in DOMAIN evalCallbacks => e.program = Awaited(e.id))
  BY DEF AnswerInv, PromisesAnswer
<1>5. ResultsAnswer'
  BY <1>1, <1>2, <1>3, <1>4 DEF AnswerInv, ResultsAnswer, Awaited, viewVars
<1> QED BY <1>2, <1>5 DEF AnswerInv, CommandsAnswer, PromisesAnswer, OutcomesFit, Awaited, viewVars

LEMMA NavigateAnswers == ASSUME TInv, AnswerInv, Navigate PROVE AnswerInv'
<1>1. PICK failed \in Seq(Blocks) :
          /\ queue' = queue \o failed
          /\ \A i \in DOMAIN failed : /\ failed[i].kind = "result" /\ failed[i].reply = <<>>
                                      /\ \E e \in awaiting : failed[i].id = e.id
  BY NavigateFacts
<1>2. awaiting' = {} /\ UNCHANGED <<viewVars, commands, evals>>
  BY NavigateFacts
<1>3. \A i \in DOMAIN queue' : \/ i \in DOMAIN queue /\ queue'[i] = queue[i]
                               \/ \E k \in DOMAIN failed : queue'[i] = failed[k]
  BY <1>1, TypeFacts, ConcatFacts, SMTT(30)
<1>4. \A k \in DOMAIN failed : failed[k].id \notin rawCallbacks /\ failed[k].id \in 1..nextId
  BY <1>1, TypeFacts DEF AnswerInv, PromisesAnswer
<1>5. ResultsAnswer'
  BY <1>1, <1>2, <1>3, <1>4 DEF AnswerInv, ResultsAnswer, Awaited, viewVars
<1> QED BY <1>2, <1>5 DEF AnswerInv, CommandsAnswer, PromisesAnswer, OutcomesFit, Awaited, viewVars

LEMMA PostMessageAnswers == ASSUME TInv, AnswerInv, NEW n \in Names, PostMessage(n) PROVE AnswerInv'
<1>1. PICK b \in Blocks : queue' = Append(queue, b) /\ b.kind = "event"
  BY PostMessageFacts
<1>2. UNCHANGED <<browser, viewVars, commands, agentVars, evals>>
  BY PostMessageFacts
<1>3. \A i \in DOMAIN queue' : queue'[i].kind = "result" => i \in DOMAIN queue /\ queue'[i] = queue[i]
  BY <1>1, TypeFacts, AppendFacts
<1> QED BY <1>2, <1>3 DEF AnswerInv, CommandsAnswer, PromisesAnswer, ResultsAnswer, OutcomesFit, Awaited,
                          viewVars, agentVars

LEMMA StutterAnswers == ASSUME AnswerInv, UNCHANGED vars PROVE AnswerInv'
BY DEF AnswerInv, CommandsAnswer, PromisesAnswer, ResultsAnswer, OutcomesFit, Awaited, vars, viewVars, agentVars

LEMMA StepAnswers == ASSUME TInv, AnswerInv, [Next]_vars PROVE AnswerInv'
<1>1. CASE HostCalls
  BY <1>1, AddUserScriptAnswers, RemoveAllAnswers, AddHandlerAnswers, RemoveHandlerAnswers, EvaluateAnswers
     DEF HostCalls
<1>2. CASE OnAfterCreated \/ OnBeforeClose
  BY <1>2, OnAfterCreatedAnswers, OnBeforeCloseAnswers
<1>3. CASE BrowserDidCreate \/ OnDevToolsResult \/ OnDevToolsEvent
  BY <1>3, DidCreateAnswers, ResultAnswers, EventAnswers
<1>4. CASE AgentExecutes \/ \E e \in awaiting : EvaluationSettles(e)
  BY <1>4, AgentExecutesAnswers, SettlesAnswers
<1>5. CASE Navigate \/ \E n \in Names : PostMessage(n)
  BY <1>5, NavigateAnswers, PostMessageAnswers
<1>6. CASE UNCHANGED vars
  BY <1>6, StutterAnswers
<1> QED BY <1>1, <1>2, <1>3, <1>4, <1>5, <1>6 DEF Next

LEMMA InitAnswers == Init => AnswerInv
<1> SUFFICES ASSUME Init PROVE AnswerInv
  OBVIOUS
<1>1. DOMAIN commands = {} /\ DOMAIN queue = {} /\ DOMAIN evals = {} /\ awaiting = {}
  BY DEF Init
<1> QED BY <1>1 DEF AnswerInv, CommandsAnswer, PromisesAnswer, ResultsAnswer, OutcomesFit

-----------------------------------------------------------------------------
(***************************************************************************)
(* Order.                                                                  *)
(***************************************************************************)
LEMMA InitDomains == Init => DomainsInv
<1> SUFFICES ASSUME Init PROVE DomainsInv
  OBVIOUS
<1>1. DOMAIN commands = {} /\ commands = <<>> /\ awaiting = {} /\ page = {}
  BY DEF Init
<1>2. agent.pageDomain = FALSE
  BY DEF Init, NewAgent
<1> QED BY <1>1, <1>2 DEF DomainsInv, Ordered

LEMMA NothingOrdered == \A on : Ordered(<<>>, FALSE, on, {})
<1>1. DOMAIN <<>> = {}
  OBVIOUS
<1> QED BY <1>1 DEF Ordered

LEMMA AgentTyped ==
    ASSUME TInv
    PROVE  /\ agent.runtime \in BOOLEAN /\ agent.pageDomain \in BOOLEAN
           /\ agent.bindings \subseteq Names /\ agent.shims \subseteq Names
           /\ agent.scripts \in Seq([script : Sources, identifier : Nat])
BY TypeFacts, AgentRecord

\* The commands after a step that sends.
LEMMA SentFacts ==
    ASSUME TInv, NEW list \in Seq(Requests), Sends(list)
    PROVE  /\ commands' \in Seq(Commands) /\ Len(commands') = Len(commands) + Len(list)
           /\ Len(commands) \in Nat /\ DOMAIN commands = 1..Len(commands)
           /\ Len(list) \in Nat /\ DOMAIN list = 1..Len(list) /\ DOMAIN commands' = 1..Len(commands')
           /\ \A i \in DOMAIN commands : i \in DOMAIN commands' /\ commands'[i] = commands[i]
           /\ \A k \in DOMAIN list : /\ Len(commands) + k \in DOMAIN commands'
                                     /\ commands'[Len(commands) + k].method = list[k].method
                                     /\ commands'[Len(commands) + k].arg = list[k].arg
                                     /\ commands'[Len(commands) + k].id = nextId + k
           /\ \A i \in DOMAIN commands' : i \in DOMAIN commands \/ \E k \in DOMAIN list : i = Len(commands) + k
<1>1. commands \in Seq(Commands) /\ nextId \in Nat
  BY TypeFacts
<1>2. PICK sent \in Seq(Commands) :
          /\ sent = Numbered(list, nextId) /\ Len(sent) = Len(list)
          /\ \A i \in DOMAIN list : /\ sent[i].method = list[i].method /\ sent[i].arg = list[i].arg
                                    /\ sent[i].id = nextId + i
  BY <1>1, NumberedFacts
<1>3. DOMAIN sent = DOMAIN list /\ DOMAIN list = 1..Len(list) /\ Len(list) \in Nat
  BY <1>2
<1>4. PICK cs \in Seq(Commands) : cs = commands \o sent
  BY <1>1, ConcatFacts
<1>5. /\ Len(cs) = Len(commands) + Len(sent)
      /\ \A i \in DOMAIN commands : i \in DOMAIN cs /\ cs[i] = commands[i]
      /\ \A k \in DOMAIN sent : Len(commands) + k \in DOMAIN cs /\ cs[Len(commands) + k] = sent[k]
      /\ \A i \in DOMAIN cs : i \in DOMAIN commands \/ \E k \in DOMAIN sent : i = Len(commands) + k
  BY <1>1, <1>4, ConcatFacts
<1>6. commands' = cs
  BY <1>2, <1>4 DEF Sends
<1>7. DOMAIN cs = 1..Len(cs) /\ Len(commands) \in Nat /\ DOMAIN commands = 1..Len(commands)
  BY <1>1
<1> QED BY <1>2, <1>3, <1>5, <1>6, <1>7

LEMMA Below == ASSUME NEW cs \in Seq(Commands), NEW j \in DOMAIN cs PROVE j < Len(cs) + 1
OBVIOUS

LEMMA NothingSent == ASSUME TInv, Sends(<<>>), commands = <<>> PROVE commands' = <<>>
<1>1. <<>> \in Seq(Requests)
  OBVIOUS
<1>2. PICK list \in Seq(Requests) : list = <<>> /\ Sends(list) /\ Len(list) = 0
  BY <1>1
<1>3. commands' \in Seq(Commands) /\ Len(commands') = Len(commands) + Len(list)
  BY <1>2, SentFacts
<1> QED BY <1>2, <1>3

\* Every step that sends.
LEMMA SendingDomains ==
    ASSUME TInv, DomainsInv, NEW list \in Seq(Requests), Sends(list), UNCHANGED <<browser, agentVars>>,
           NEW on \in BOOLEAN, Ordered(list, FALSE, on, {}), ~HasBrowser => list = <<>>
    PROVE  DomainsInv'
<1>1. commands \in Seq(Commands) /\ nextId \in Nat
  BY TypeFacts
<1>2. PICK sent \in Seq(Commands) : sent = Numbered(list, nextId)
  BY <1>1, NumberedFacts
<1>3. Ordered(sent, FALSE, on, {})
  BY <1>1, <1>2, NumberedSame
<1>4. commands' = commands \o sent
  BY <1>2 DEF Sends
<1>5. PICK yes \in BOOLEAN : yes = TRUE
  OBVIOUS
<1>6. Before(commands, Len(commands) + 1, "Page.enable", "", yes)
  BY <1>5 DEF Before
<1>7. Ordered(commands, agent.runtime, yes, agent.shims)
  BY <1>5 DEF DomainsInv
<1>8. Ordered(commands', agent.runtime, yes, agent.shims)
  BY <1>1, <1>3, <1>4, <1>6, <1>7, AgentTyped, OrderedConcat
<1>9. ~HasBrowser => commands' = <<>>
  <2> SUFFICES ASSUME ~HasBrowser PROVE commands' = <<>>
    OBVIOUS
  <2>1. commands = <<>> /\ list = <<>>
    BY DEF DomainsInv
  <2> QED BY <2>1, NothingSent
<1> QED BY <1>5, <1>8, <1>9 DEF DomainsInv, agentVars, HasBrowser

LEMMA AddUserScriptDomains ==
    ASSUME TInv, DomainsInv, NEW s \in Sources, AddUserScriptAtDocumentStart(s) PROVE DomainsInv'
<1>1. PICK list \in Seq(Requests) :
          /\ Sends(list)
          /\ IF HasBrowser THEN list = EnableDomains(enabled) \o OneScript(s) ELSE list = <<>>
  BY AddUserScriptSends
<1>2. enabled \in BOOLEAN
  BY TypeFacts
<1>3. UNCHANGED <<browser, agentVars>>
  BY DEF AddUserScriptAtDocumentStart
<1>4. CASE HasBrowser
  <2>1. PICK l \in Seq(Requests) :
            l = EnableDomains(enabled) \o OneScript(s) /\ Ordered(l, FALSE, enabled, {})
    BY <1>2, ScriptList
  <2>2. l = list
    BY <1>1, <1>4, <2>1
  <2> QED BY <1>1, <1>2, <1>3, <1>4, <2>1, <2>2, SendingDomains
<1>5. CASE ~HasBrowser
  <2>1. list = <<>>
    BY <1>1, <1>5
  <2>2. Ordered(list, FALSE, FALSE, {})
    BY <2>1, NothingOrdered
  <2> QED BY <1>1, <1>3, <1>5, <2>1, <2>2, SendingDomains
<1> QED BY <1>4, <1>5

LEMMA AddHandlerDomains ==
    ASSUME TInv, DomainsInv, NEW n \in Names, AddMessageHandlerName(n) PROVE DomainsInv'
<1>1. PICK list \in Seq(Requests) :
          /\ Sends(list)
          /\ IF HasBrowser THEN list = EnableDomains(enabled) \o HandlerCommands(n) ELSE list = <<>>
  BY AddHandlerSends
<1>2. enabled \in BOOLEAN
  BY TypeFacts
<1>3. UNCHANGED <<browser, agentVars>>
  BY DEF AddMessageHandlerName
<1>4. CASE HasBrowser
  <2>1. PICK l \in Seq(Requests) :
            l = EnableDomains(enabled) \o HandlerCommands(n) /\ Ordered(l, FALSE, enabled, {})
    BY <1>2, HandlerList
  <2>2. l = list
    BY <1>1, <1>4, <2>1
  <2> QED BY <1>1, <1>2, <1>3, <1>4, <2>1, <2>2, SendingDomains
<1>5. CASE ~HasBrowser
  <2>1. list = <<>>
    BY <1>1, <1>5
  <2>2. Ordered(list, FALSE, FALSE, {})
    BY <2>1, NothingOrdered
  <2> QED BY <1>1, <1>3, <1>5, <2>1, <2>2, SendingDomains
<1> QED BY <1>4, <1>5

LEMMA DidCreateDomains == ASSUME TInv, DomainsInv, BrowserDidCreate PROVE DomainsInv'
<1>1. PICK list \in Seq(Requests) :
          /\ Sends(list)
          /\ IF HasBrowser /\ Installs # <<>>
             THEN list = EnableDomains(FALSE) \o Installs ELSE list = <<>>
  BY DidCreateSends
<1>2. UNCHANGED <<browser, agentVars>>
  BY DEF BrowserDidCreate
<1>3. CASE HasBrowser /\ Installs # <<>>
  <2>1. PICK l \in Seq(Requests) :
            l = EnableDomains(FALSE) \o Installs /\ Ordered(l, FALSE, FALSE, {})
    BY InstallList DEF TInv
  <2>2. l = list
    BY <1>1, <1>3, <2>1
  <2> QED BY <1>1, <1>2, <1>3, <2>1, <2>2, SendingDomains
<1>4. CASE ~(HasBrowser /\ Installs # <<>>)
  <2>1. list = <<>>
    BY <1>1, <1>4
  <2>2. Ordered(list, FALSE, FALSE, {})
    BY <2>1, NothingOrdered
  <2> QED BY <1>1, <1>2, <2>1, <2>2, SendingDomains
<1> QED BY <1>3, <1>4

LEMMA RemoveAllDomains == ASSUME TInv, DomainsInv, RemoveAllUserScripts PROVE DomainsInv'
<1>1. PICK list \in Seq(Requests) : list = <<>> /\ Sends(list)
  BY RemoveAllSends
<1>2. UNCHANGED <<browser, agentVars>>
  BY DEF RemoveAllUserScripts
<1>3. Ordered(list, FALSE, FALSE, {})
  BY <1>1, NothingOrdered
<1> QED BY <1>1, <1>2, <1>3, SendingDomains

LEMMA RemoveHandlerDomains ==
    ASSUME TInv, DomainsInv, NEW n \in Names, RemoveMessageHandlerName(n) PROVE DomainsInv'
<1>1. PICK list \in Seq(Requests) :
          Sends(list) /\ IF HasBrowser THEN list = Undo(n) ELSE list = <<>>
  BY RemoveHandlerSends
<1>2. UNCHANGED <<browser, agentVars>>
  BY DEF RemoveMessageHandlerName
<1>3. Ordered(list, FALSE, FALSE, {})
  <2>1. CASE HasBrowser
    <3>1. FALSE \in BOOLEAN /\ \A on \in BOOLEAN : Ordered(Undo(n), FALSE, on, {})
      BY UndoFacts
    <3> QED BY <1>1, <2>1, <3>1
  <2>2. CASE ~HasBrowser
    BY <1>1, <2>2, NothingOrdered
  <2> QED BY <2>1, <2>2
<1> QED BY <1>1, <1>2, <1>3, SendingDomains

LEMMA EvaluateDomains ==
    ASSUME TInv, DomainsInv, NEW p \in Programs, EvaluateJavaScript(p) PROVE DomainsInv'
<1>1. PICK list \in Seq(Requests) :
          Sends(list) /\ IF HasBrowser THEN list = <<Command("evaluate", p)>> ELSE list = <<>>
  BY EvaluateSends
<1>2. UNCHANGED <<browser, agentVars>>
  BY DEF EvaluateJavaScript
<1>3. Ordered(list, FALSE, FALSE, {})
  <2>1. CASE HasBrowser
    <3>1. PICK r \in Requests : r = Command("evaluate", p) /\ r.method = "evaluate"
      BY OneRequest, CommandFields
    <3>2. list = <<r>>
      BY <1>1, <2>1, <3>1
    <3>3. DOMAIN list = {1} /\ list[1] = r
      BY <3>2, Tuples
    <3> QED BY <3>1, <3>3 DEF Ordered
  <2>2. CASE ~HasBrowser
    BY <1>1, <2>2, NothingOrdered
  <2> QED BY <2>1, <2>2
<1> QED BY <1>1, <1>2, <1>3, SendingDomains

\* The agent executes a command.
LEMMA AgentExecutesDomains == ASSUME TInv, DomainsInv, AgentExecutes PROVE DomainsInv'
<1> DEFINE c == Head(commands)
<1>1. /\ commands # <<>> /\ c \in Commands /\ commands' = Tail(commands)
      /\ agent' = Executed(c) /\ agent' \in Agents /\ UNCHANGED browser /\ browser = "attached"
      /\ \A n : n \in page' <=> \/ c.method = "evaluateShim" /\ c.arg = n
                                \/ n \in page /\ ~(c.method = "evaluateDelete" /\ c.arg = n)
  BY AgentExecutesFacts
<1>2. commands \in Seq(Commands) /\ agent \in Agents
  BY TypeFacts
<1>3. PICK a \in Agents : a = Executed(c)
  BY <1>1
<1>4. /\ a.runtime = (agent.runtime \/ c.method = "Runtime.enable")
      /\ a.pageDomain = (agent.pageDomain \/ c.method = "Page.enable")
      /\ \A n : c.method = "addScript" /\ c.arg = Shim(n) => a.shims = agent.shims \cup {n}
      /\ ~(\E n \in Names : c.method = "addScript" /\ c.arg = Shim(n)) => a.shims = agent.shims
  BY <1>1, <1>2, <1>3, ExecutedFacts
<1>5. PICK yes \in BOOLEAN : yes = TRUE
  OBVIOUS
<1>6. agent.runtime \in BOOLEAN /\ agent.pageDomain \in BOOLEAN /\ a.runtime \in BOOLEAN /\ a.pageDomain \in BOOLEAN
  BY <1>2, <1>3, AgentRecord
<1>7. agent.shims \subseteq a.shims
  BY <1>4
<1>8. \A n : c.method = "addScript" /\ c.arg = Shim(n) => n \in a.shims
  BY <1>4
<1>9. Ordered(commands, agent.runtime, yes, agent.shims)
  BY <1>5 DEF DomainsInv
<1>10. Ordered(commands', a.runtime, yes, a.shims)
  <2>1. /\ agent.runtime => a.runtime
        /\ c.method = "Runtime.enable" => a.runtime
        /\ yes => yes
        /\ c.method = "Page.enable" => yes
    BY <1>4, <1>5
  <2>2. Ordered(Tail(commands), a.runtime, yes, a.shims)
    BY <1>1, <1>2, <1>6, <1>7, <1>8, <1>9, <2>1, OrderedTail
  <2> QED BY <1>1, <2>2
<1>11. agent' = a
  BY <1>1, <1>3
<1>12. /\ c.method = "Page.enable" => agent.runtime
       /\ c.method = "evaluateShim" => c.arg \in agent.shims
  BY <1>1, <1>2, <1>9, HeadOrdered
<1>13. a.pageDomain => a.runtime
  BY <1>4, <1>6, <1>12 DEF DomainsInv
<1>14. page' \subseteq a.shims
  BY <1>1, <1>7, <1>12 DEF DomainsInv
<1>15. browser' = "attached"
  BY <1>1
<1> HIDE DEF c
<1> QED BY <1>5, <1>10, <1>11, <1>13, <1>14, <1>15 DEF DomainsInv, HasBrowser

\* The steps that leave the commands alone or lose them all.
LEMMA OnAfterCreatedDomains == ASSUME TInv, DomainsInv, OnAfterCreated PROVE DomainsInv'
<1>1. agent' = NewAgent /\ page' = {} /\ commands' = <<>> /\ awaiting' = {}
  BY OnAfterCreatedFacts
<1>2. DOMAIN commands' = {} /\ ~NewAgent.pageDomain
  BY <1>1 DEF NewAgent
<1> QED BY <1>1, <1>2 DEF DomainsInv, Ordered

LEMMA OnBeforeCloseDomains == ASSUME TInv, DomainsInv, OnBeforeClose PROVE DomainsInv'
<1>1. commands' = <<>> /\ awaiting' = {} /\ UNCHANGED <<agent, page>>
  BY OnBeforeCloseFacts
<1>2. DOMAIN commands' = {}
  BY <1>1
<1> QED BY <1>1, <1>2 DEF DomainsInv, Ordered

LEMMA SettlesDomains == ASSUME TInv, DomainsInv, NEW e \in awaiting, EvaluationSettles(e) PROVE DomainsInv'
<1>1. awaiting' = awaiting \ {e} /\ UNCHANGED <<browser, commands, agent, page>>
  BY SettlesFacts
<1> QED BY <1>1 DEF DomainsInv, HasBrowser

LEMMA NavigateDomains == ASSUME TInv, DomainsInv, Navigate PROVE DomainsInv'
<1>1. page' = NewDocumentShims /\ awaiting' = {} /\ UNCHANGED <<browser, commands, agent>>
  BY NavigateFacts
<1> QED BY <1>1 DEF DomainsInv, NewDocumentShims, HasBrowser

LEMMA OtherDomains ==
    ASSUME DomainsInv, UNCHANGED <<browser, commands, agentVars>> PROVE DomainsInv'
BY DEF DomainsInv, agentVars, HasBrowser

LEMMA StepDomains == ASSUME TInv, AnswerInv, DomainsInv, [Next]_vars PROVE DomainsInv'
<1>1. CASE HostCalls
  BY <1>1, AddUserScriptDomains, RemoveAllDomains, AddHandlerDomains, RemoveHandlerDomains, EvaluateDomains
     DEF HostCalls
<1>2. CASE OnAfterCreated \/ OnBeforeClose
  BY <1>2, OnAfterCreatedDomains, OnBeforeCloseDomains
<1>3. CASE BrowserDidCreate
  BY <1>3, DidCreateDomains
<1>4. CASE OnDevToolsResult \/ OnDevToolsEvent
  BY <1>4, OtherDomains DEF OnDevToolsResult, OnDevToolsEvent, viewVars
<1>5. CASE AgentExecutes \/ \E e \in awaiting : EvaluationSettles(e)
  BY <1>5, AgentExecutesDomains, SettlesDomains
<1>6. CASE Navigate
  BY <1>6, NavigateDomains
<1>7. CASE \E n \in Names : PostMessage(n)
  BY <1>7, OtherDomains DEF PostMessage, viewVars
<1>8. CASE UNCHANGED vars
  BY <1>8, OtherDomains DEF vars, viewVars
<1> QED BY <1>1, <1>2, <1>3, <1>4, <1>5, <1>6, <1>7, <1>8 DEF Next

-----------------------------------------------------------------------------
(***************************************************************************)
(* The Page domain, once the creation's block has run.                     *)
(***************************************************************************)
\* The block of the creation stays in the queue.
LEMMA StillCreating ==
    ASSUME TInv, AnswerInv,
           \/ AgentExecutes \/ (\E e \in awaiting : EvaluationSettles(e))
           \/ Navigate \/ (\E n \in Names : PostMessage(n))
           \/ OnDevToolsResult \/ OnDevToolsEvent
    PROVE  Creating => Creating'
<1>1. ASSUME NEW b \in Blocks, queue' = Append(queue, b) PROVE Creating => Creating'
  BY <1>1, TypeFacts, AppendFacts DEF Creating
<1>2. ASSUME queue # <<>>, Head(queue).kind # "didCreate", queue' = Tail(queue) PROVE Creating => Creating'
  <2> SUFFICES ASSUME NEW i \in DOMAIN queue, queue[i].kind = "didCreate"
               PROVE  \E j \in DOMAIN queue' : queue'[j].kind = "didCreate"
    BY DEF Creating
  <2>1. /\ Head(queue) = queue[1]
        /\ \A j \in DOMAIN queue : j # 1 => j - 1 \in DOMAIN Tail(queue) /\ Tail(queue)[j - 1] = queue[j]
    BY <1>2, TypeFacts, TailFacts
  <2> QED BY <1>2, <2>1
<1>3. ASSUME NEW failed \in Seq(Blocks), queue' = queue \o failed PROVE Creating => Creating'
  BY <1>3, TypeFacts, ConcatFacts DEF Creating
<1>4. CASE AgentExecutes
  <2>1. queue' = queue \/ \E b \in Blocks : queue' = Append(queue, b)
    BY <1>4, AgentExecutesFacts
  <2> QED BY <1>1, <2>1 DEF Creating
<1>5. CASE \E e \in awaiting : EvaluationSettles(e)
  <2>1. \E b \in Blocks : queue' = Append(queue, b)
    BY <1>5, SettlesFacts
  <2> QED BY <1>1, <2>1
<1>6. CASE Navigate
  BY <1>3, <1>6, NavigateFacts
<1>7. CASE \E n \in Names : PostMessage(n)
  <2>1. \E b \in Blocks : queue' = Append(queue, b)
    BY <1>7, PostMessageFacts
  <2> QED BY <1>1, <2>1
<1>8. CASE OnDevToolsResult
  <2>1. queue # <<>> /\ Head(queue).kind = "result" /\ queue' = Tail(queue)
    BY <1>8 DEF OnDevToolsResult
  <2> QED BY <1>2, <2>1
<1>9. CASE OnDevToolsEvent
  <2>1. queue # <<>> /\ Head(queue).kind = "event" /\ queue' = Tail(queue)
    BY <1>9 DEF OnDevToolsEvent
  <2> QED BY <1>2, <2>1
<1> QED BY <1>4, <1>5, <1>6, <1>7, <1>8, <1>9

LEMMA SameCreating == queue' = queue => (Creating' <=> Creating)
BY DEF Creating

LEMMA ShimNeedsPage ==
    ASSUME NEW cs \in Seq(Requests), NEW e \in BOOLEAN, Ordered(cs, FALSE, e, {}),
           NEW k \in DOMAIN cs, cs[k].method = "evaluateShim"
    PROVE  Before(cs, k, "Page.enable", "", e)
<1>1. PICK j \in DOMAIN cs : j < k /\ cs[j].method = "addScript"
  BY DEF Ordered, Before
<1>2. CASE e
  BY <1>2 DEF Before
<1>3. CASE ~e
  <2>1. PICK i \in DOMAIN cs : i < j /\ cs[i].method = "Page.enable" /\ cs[i].arg = ""
    BY <1>1, <1>3 DEF Ordered, Before
  <2>2. i \in Int /\ j \in Int /\ k \in Int
    OBVIOUS
  <2>3. j < k
    BY <1>1, Zenon
  <2>4. i < j
    BY <2>1, Zenon
  <2>5. i < k
    BY ONLY <2>2, <2>3, <2>4
  <2> QED BY <2>1, <2>5 DEF Before
<1> QED BY <1>2, <1>3

LEMMA SentBefore ==
    ASSUME TInv, NEW list \in Seq(Requests), Sends(list), NEW method, NEW arg
    PROVE  /\ \A j \in DOMAIN commands : Before(commands, j, method, arg, FALSE) =>
                                            Before(commands', j, method, arg, FALSE)
           /\ Before(commands, Len(commands) + 1, method, arg, FALSE) =>
                 /\ \A k \in DOMAIN list : Before(commands', Len(commands) + k, method, arg, FALSE)
                 /\ Before(commands', Len(commands') + 1, method, arg, FALSE)
           /\ \A k \in DOMAIN list : Before(list, k, method, arg, FALSE) =>
                                        Before(commands', Len(commands) + k, method, arg, FALSE)
           /\ Before(list, Len(list) + 1, method, arg, FALSE) =>
                 Before(commands', Len(commands') + 1, method, arg, FALSE)
<1>1. PICK cs \in Seq(Commands) :
          /\ cs = commands' /\ Len(cs) = Len(commands) + Len(list)
          /\ Len(commands) \in Nat /\ Len(list) \in Nat
          /\ DOMAIN commands = 1..Len(commands) /\ DOMAIN list = 1..Len(list) /\ DOMAIN cs = 1..Len(cs)
          /\ \A i \in DOMAIN commands : i \in DOMAIN cs /\ cs[i] = commands[i]
          /\ \A k \in DOMAIN list : /\ Len(commands) + k \in DOMAIN cs
                                    /\ cs[Len(commands) + k].method = list[k].method
                                    /\ cs[Len(commands) + k].arg = list[k].arg
  BY SentFacts
<1>2. ASSUME NEW j \in DOMAIN commands, Before(commands, j, method, arg, FALSE)
      PROVE  Before(cs, j, method, arg, FALSE)
  BY <1>1, <1>2 DEF Before
<1>3. ASSUME Before(commands, Len(commands) + 1, method, arg, FALSE)
      PROVE  /\ \A k \in DOMAIN list : Before(cs, Len(commands) + k, method, arg, FALSE)
             /\ Before(cs, Len(cs) + 1, method, arg, FALSE)
  <2>1. PICK i \in DOMAIN commands : commands[i].method = method /\ commands[i].arg = arg
    BY <1>3 DEF Before
  <2>2. i \in DOMAIN cs /\ cs[i].method = method /\ cs[i].arg = arg
    BY <1>1, <2>1
  <2>3. i < Len(cs) + 1 /\ \A k \in DOMAIN list : i < Len(commands) + k
    BY <1>1
  <2> QED BY <2>2, <2>3 DEF Before
<1>4. ASSUME NEW k \in DOMAIN list, Before(list, k, method, arg, FALSE)
      PROVE  Before(cs, Len(commands) + k, method, arg, FALSE)
  <2>1. PICK i \in DOMAIN list : i < k /\ list[i].method = method /\ list[i].arg = arg
    BY <1>4 DEF Before
  <2>2. /\ Len(commands) + i \in DOMAIN cs
        /\ cs[Len(commands) + i].method = method /\ cs[Len(commands) + i].arg = arg
    BY <1>1, <2>1
  <2>3. Len(commands) + i < Len(commands) + k
    BY <1>1, <2>1
  <2> QED BY <2>2, <2>3 DEF Before
<1>5. ASSUME Before(list, Len(list) + 1, method, arg, FALSE)
      PROVE  Before(cs, Len(cs) + 1, method, arg, FALSE)
  <2>1. PICK i \in DOMAIN list : list[i].method = method /\ list[i].arg = arg
    BY <1>5 DEF Before
  <2>2. /\ Len(commands) + i \in DOMAIN cs
        /\ cs[Len(commands) + i].method = method /\ cs[Len(commands) + i].arg = arg
    BY <1>1, <2>1
  <2>3. Len(commands) + i < Len(cs) + 1
    BY <1>1
  <2> QED BY <2>2, <2>3 DEF Before
<1> QED BY <1>1, <1>2, <1>3, <1>4, <1>5

LEMMA InitEnabled == Init => EnabledInv
BY DEF Init, EnabledInv

\* A step that sends list; on: the domains were enabled for this browser before it.
LEMMA SendingEnabled ==
    ASSUME TInv, EnabledInv, NEW list \in Seq(Requests), Sends(list), UNCHANGED <<browser, agentVars>>,
           NEW on \in BOOLEAN, on => ~Creating /\ enabled,
           browser = "attached" /\ ~Creating' =>
               /\ handlers' # {} \/ scripts' # <<>> => enabled'
               /\ enabled' => Before(list, Len(list) + 1, "Page.enable", "", on)
               /\ \A n \in handlers' :
                     \/ ~Creating /\ n \in handlers
                     \/ \E k \in DOMAIN list : /\ list[k].method = "evaluateShim" /\ list[k].arg = n
                                               /\ Before(list, k, "Page.enable", "", on)
    PROVE  EnabledInv'
<1> SUFFICES ASSUME browser = "attached", ~Creating'
             PROVE  /\ handlers' # {} \/ scripts' # <<>> => enabled'
                    /\ enabled' => Before(commands', Len(commands') + 1, "Page.enable", "", agent.pageDomain)
                    /\ \A n \in handlers' : Coming(commands', n, agent.pageDomain)
  BY DEF EnabledInv, agentVars
<1>1. agent.pageDomain \in BOOLEAN
  BY AgentTyped
<1>2. on => Before(commands, Len(commands) + 1, "Page.enable", "", agent.pageDomain)
  BY DEF EnabledInv
<1>3. ASSUME enabled', ~agent.pageDomain
      PROVE  Before(commands', Len(commands') + 1, "Page.enable", "", FALSE)
  <2>1. CASE on
    <3>1. Before(commands, Len(commands) + 1, "Page.enable", "", FALSE)
      BY <1>2, <1>3, <2>1 DEF Before
    <3> QED BY <3>1, SentBefore
  <2>2. CASE ~on
    <3>1. Before(list, Len(list) + 1, "Page.enable", "", FALSE)
      BY <1>3, <2>2 DEF Before
    <3> QED BY <3>1, SentBefore
  <2> QED BY <2>1, <2>2
<1>4. ASSUME NEW n \in handlers', ~agent.pageDomain PROVE Coming(commands', n, FALSE)
  <2>1. CASE ~Creating /\ n \in handlers
    <3>1. PICK j \in DOMAIN commands : /\ commands[j].method = "evaluateShim" /\ commands[j].arg = n
                                       /\ Before(commands, j, "Page.enable", "", FALSE)
      BY <1>4, <2>1 DEF EnabledInv, Coming
    <3>2. j \in DOMAIN commands' /\ commands'[j] = commands[j]
      BY SentFacts
    <3>3. Before(commands', j, "Page.enable", "", FALSE)
      BY <3>1, SentBefore
    <3> QED BY <3>1, <3>2, <3>3 DEF Coming
  <2>2. CASE ~(~Creating /\ n \in handlers)
    <3>1. PICK k \in DOMAIN list : /\ list[k].method = "evaluateShim" /\ list[k].arg = n
                                   /\ Before(list, k, "Page.enable", "", on)
      BY <2>2
    <3>a. PICK j : j = Len(commands) + k
      OBVIOUS
    <3>2. j \in DOMAIN commands' /\ commands'[j].method = "evaluateShim" /\ commands'[j].arg = n
      BY <3>1, <3>a, SentFacts
    <3>3. CASE on
      <4>1. Before(commands, Len(commands) + 1, "Page.enable", "", FALSE)
        BY <1>2, <1>4, <3>3 DEF Before
      <4>2. Before(commands', j, "Page.enable", "", FALSE)
        BY <3>a, <4>1, SentBefore
      <4> QED BY <3>2, <4>2 DEF Coming
    <3>4. CASE ~on
      <4>1. Before(list, k, "Page.enable", "", FALSE)
        BY <3>1, <3>4 DEF Before
      <4>2. Before(commands', j, "Page.enable", "", FALSE)
        BY <3>a, <4>1, SentBefore
      <4> QED BY <3>2, <4>2 DEF Coming
    <3> QED BY <3>3, <3>4
  <2> QED BY <2>1, <2>2
<1>5. CASE agent.pageDomain
  BY <1>5 DEF Before, Coming
<1>6. CASE ~agent.pageDomain
  BY <1>1, <1>3, <1>4, <1>6 DEF Before, Coming
<1> QED BY <1>5, <1>6

LEMMA AddUserScriptEnabled ==
    ASSUME TInv, EnabledInv, NEW s \in Sources, AddUserScriptAtDocumentStart(s) PROVE EnabledInv'
<1>1. PICK list \in Seq(Requests) :
          /\ Sends(list)
          /\ IF HasBrowser THEN list = EnableDomains(enabled) \o OneScript(s) ELSE list = <<>>
  BY AddUserScriptSends
<1>2. UNCHANGED <<browser, agentVars, queue, handlers>> /\ enabled \in BOOLEAN
  BY TypeFacts DEF AddUserScriptAtDocumentStart
<1>3. PICK on \in BOOLEAN : on = (enabled /\ ~Creating)
  OBVIOUS
<1>4. ASSUME browser = "attached", ~Creating'
      PROVE  enabled' /\ Before(list, Len(list) + 1, "Page.enable", "", on)
  <2>1. HasBrowser
    BY <1>4 DEF HasBrowser
  <2>2. PICK l \in Seq(Requests) : /\ l = EnableDomains(enabled) \o OneScript(s)
                                   /\ Before(l, Len(l) + 1, "Page.enable", "", enabled)
    BY <1>2, ScriptList
  <2>3. l = list
    BY <1>1, <2>1, <2>2
  <2>4. on = enabled
    BY <1>2, <1>3, <1>4, SameCreating
  <2>5. enabled'
    BY <2>1 DEF AddUserScriptAtDocumentStart
  <2> QED BY <2>2, <2>3, <2>4, <2>5
<1> QED BY <1>1, <1>2, <1>3, <1>4, SameCreating, SendingEnabled

LEMMA AddHandlerEnabled ==
    ASSUME TInv, EnabledInv, NEW n \in Names, AddMessageHandlerName(n) PROVE EnabledInv'
<1>1. PICK list \in Seq(Requests) :
          /\ Sends(list)
          /\ IF HasBrowser THEN list = EnableDomains(enabled) \o HandlerCommands(n) ELSE list = <<>>
  BY AddHandlerSends
<1>2. UNCHANGED <<browser, agentVars, queue>> /\ handlers' = handlers \cup {n} /\ enabled \in BOOLEAN
  BY TypeFacts DEF AddMessageHandlerName
<1>3. PICK on \in BOOLEAN : on = (enabled /\ ~Creating)
  OBVIOUS
<1>4. ASSUME browser = "attached", ~Creating'
      PROVE  /\ enabled' /\ Before(list, Len(list) + 1, "Page.enable", "", on)
             /\ \E k \in DOMAIN list : /\ list[k].method = "evaluateShim" /\ list[k].arg = n
                                       /\ Before(list, k, "Page.enable", "", on)
  <2>1. HasBrowser
    BY <1>4 DEF HasBrowser
  <2>2. PICK l \in Seq(Requests) : /\ l = EnableDomains(enabled) \o HandlerCommands(n)
                                   /\ Ordered(l, FALSE, enabled, {})
                                   /\ Before(l, Len(l) + 1, "Page.enable", "", enabled)
                                   /\ EndsOn(l, "evaluateShim", "evaluateDelete", n, FALSE)
    BY <1>2, HandlerList, ZenonT(60)
  <2>3. l = list
    BY <1>1, <2>1, <2>2
  <2>4. on = enabled
    BY <1>2, <1>3, <1>4, SameCreating
  <2>5. enabled'
    BY <2>1 DEF AddMessageHandlerName
  <2>6. PICK k \in DOMAIN list : list[k].method = "evaluateShim" /\ list[k].arg = n
    BY <2>2, <2>3 DEF EndsOn
  <2>7. Before(list, k, "Page.enable", "", on)
    BY <2>2, <2>3, <2>4, <2>6, ShimNeedsPage
  <2> QED BY <2>2, <2>3, <2>4, <2>5, <2>6, <2>7
<1> QED BY <1>1, <1>2, <1>3, <1>4, SameCreating, SendingEnabled

\* The calls that add nothing.
LEMMA PlainEnabled ==
    ASSUME TInv, EnabledInv, NEW list \in Seq(Requests), Sends(list),
           UNCHANGED <<browser, agentVars, queue, enabled>>,
           handlers' \subseteq handlers, scripts' # <<>> => scripts' = scripts
    PROVE  EnabledInv'
<1>1. PICK on \in BOOLEAN : on = (enabled /\ ~Creating)
  OBVIOUS
<1>2. Creating' <=> Creating
  BY SameCreating
<1>3. ASSUME browser = "attached", ~Creating'
      PROVE  /\ handlers' # {} \/ scripts' # <<>> => enabled'
             /\ enabled' => Before(list, Len(list) + 1, "Page.enable", "", on)
             /\ \A n \in handlers' : ~Creating /\ n \in handlers
  <2>1. handlers' # {} \/ scripts' # <<>> => enabled'
    BY <1>2, <1>3 DEF EnabledInv
  <2>2. enabled' => on
    BY <1>1, <1>2, <1>3
  <2>3. on => Before(list, Len(list) + 1, "Page.enable", "", on)
    BY DEF Before
  <2> QED BY <1>2, <1>3, <2>1, <2>2, <2>3
<1> QED BY <1>1, <1>3, SendingEnabled

LEMMA PlainCallsEnabled ==
    ASSUME TInv, EnabledInv,
           \/ RemoveAllUserScripts \/ (\E n \in Names : RemoveMessageHandlerName(n))
           \/ (\E p \in Programs : EvaluateJavaScript(p))
    PROVE  EnabledInv'
<1>1. PICK list \in Seq(Requests) : Sends(list)
  BY RemoveAllSends, RemoveHandlerSends, EvaluateSends
<1>2. UNCHANGED <<browser, agentVars, queue, enabled>> /\ handlers' \subseteq handlers
  BY DEF RemoveAllUserScripts, RemoveMessageHandlerName, EvaluateJavaScript
<1>3. scripts' # <<>> => scripts' = scripts
  BY DEF RemoveAllUserScripts, RemoveMessageHandlerName, EvaluateJavaScript
<1> QED BY <1>1, <1>2, <1>3, PlainEnabled

\* Without handlers and scripts the creation installs nothing.
LEMMA NothingInstalled ==
    ASSUME TInv, Installs = <<>> PROVE handlers = {} /\ scripts = <<>>
<1>1. ASSUME NEW n \in handlers PROVE FALSE
  <2>1. EndsOn(Installs, "addBinding", "removeBinding", n, FALSE)
    BY <1>1, InstallsFacts DEF TInv
  <2>2. PICK j \in DOMAIN Installs : TRUE
    BY <2>1 DEF EndsOn
  <2> QED BY <2>2
<1>2. scripts = <<>>
  <2>1. PICK base \in Nat : Len(Installs) = base + Len(scripts)
    BY InstallsFacts DEF TInv
  <2>2. scripts \in Seq(Sources) /\ Len(scripts) \in Nat /\ Len(Installs) = 0
    BY TypeFacts
  <2>3. Len(scripts) = 0
    BY <2>1, <2>2
  <2> QED BY <2>2, <2>3
<1> QED BY <1>1, <1>2

LEMMA DidCreateEnabled == ASSUME TInv, EnabledInv, BrowserDidCreate PROVE EnabledInv'
<1>1. PICK list \in Seq(Requests) :
          /\ Sends(list)
          /\ IF HasBrowser /\ Installs # <<>>
             THEN list = EnableDomains(FALSE) \o Installs ELSE list = <<>>
  BY DidCreateSends
<1>2. UNCHANGED <<browser, agentVars, handlers, scripts>>
  BY DEF BrowserDidCreate
<1>3. CASE HasBrowser /\ Installs # <<>>
  <2>1. PICK l \in Seq(Requests) :
            /\ l = EnableDomains(FALSE) \o Installs /\ Ordered(l, FALSE, FALSE, {})
            /\ Before(l, Len(l) + 1, "Page.enable", "", FALSE)
            /\ \A n \in handlers : EndsOn(l, "evaluateShim", "evaluateDelete", n, FALSE)
    BY InstallList DEF TInv
  <2>2. l = list
    BY <1>1, <1>3, <2>1
  <2>3. ASSUME NEW n \in handlers
        PROVE  \E k \in DOMAIN list : /\ list[k].method = "evaluateShim" /\ list[k].arg = n
                                      /\ Before(list, k, "Page.enable", "", FALSE)
    <3>1. PICK k \in DOMAIN list : list[k].method = "evaluateShim" /\ list[k].arg = n
      BY <2>1, <2>2 DEF EndsOn
    <3>2. FALSE \in BOOLEAN
      OBVIOUS
    <3>3. Before(list, k, "Page.enable", "", FALSE)
      BY <2>1, <2>2, <3>1, <3>2, ShimNeedsPage
    <3> QED BY <3>1, <3>3
  <2>4. enabled'
    BY <1>3 DEF BrowserDidCreate
  <2> QED BY <1>1, <1>2, <2>1, <2>2, <2>3, <2>4, SendingEnabled
<1>4. CASE ~HasBrowser
  <2>1. browser' # "attached"
    BY <1>2, <1>4 DEF HasBrowser
  <2> QED BY <2>1 DEF EnabledInv
<1>5. CASE Installs = <<>>
  <2>1. handlers = {} /\ scripts = <<>>
    BY <1>5, NothingInstalled
  <2>2. enabled' = FALSE
    BY <1>5 DEF BrowserDidCreate
  <2> QED BY <1>1, <1>2, <2>1, <2>2, SendingEnabled
<1> QED BY <1>3, <1>4, <1>5

LEMMA AgentExecutesEnabled == ASSUME TInv, AnswerInv, EnabledInv, AgentExecutes PROVE EnabledInv'
<1> DEFINE c == Head(commands)
<1>1. /\ commands # <<>> /\ c \in Commands /\ commands' = Tail(commands)
      /\ agent' = Executed(c) /\ agent' \in Agents /\ UNCHANGED <<browser, viewVars>>
  BY AgentExecutesFacts
<1>2. commands \in Seq(Commands) /\ agent \in Agents
  BY TypeFacts
<1>3. PICK old \in BOOLEAN, new \in BOOLEAN : old = agent.pageDomain /\ new = agent'.pageDomain
  BY <1>1, <1>2, AgentRecord
<1>4. (old => new) /\ (c.method = "Page.enable" => new)
  BY <1>1, <1>2, <1>3, ExecutedFacts
<1>5. Creating => Creating'
  BY StillCreating
<1> SUFFICES ASSUME browser = "attached", ~Creating'
             PROVE  /\ enabled => Before(commands', Len(commands') + 1, "Page.enable", "", new)
                    /\ \A n \in handlers : Coming(commands', n, new)
  BY <1>1, <1>3, <1>5 DEF EnabledInv, viewVars
<1>6. /\ c = commands[1] /\ Len(commands') + 1 \in Nat /\ Len(commands) + 1 = (Len(commands') + 1) + 1
      /\ \A i \in DOMAIN commands : i # 1 => i - 1 \in DOMAIN commands' /\ commands'[i - 1] = commands[i]
  BY <1>1, <1>2, TailFacts
<1>7. ASSUME enabled PROVE Before(commands', Len(commands') + 1, "Page.enable", "", new)
  <2>1. PICK i \in Nat : i = Len(commands') + 1
    BY <1>6
  <2>2. Before(commands, i + 1, "Page.enable", "", old)
    BY <1>3, <1>5, <1>6, <1>7, <2>1 DEF EnabledInv
  <2>3. c.method = "Page.enable" /\ c.arg = "" => new
    BY <1>4
  <2>4. Before(Tail(commands), i, "Page.enable", "", new)
    BY <1>1, <1>2, <1>4, <2>2, <2>3, BeforeTail
  <2> QED BY <1>1, <2>1, <2>4
<1>8. ASSUME NEW n \in handlers, ~new PROVE Coming(commands', n, FALSE)
  <2>1. PICK j \in DOMAIN commands : /\ commands[j].method = "evaluateShim" /\ commands[j].arg = n
                                     /\ Before(commands, j, "Page.enable", "", FALSE)
    BY <1>3, <1>4, <1>5, <1>8 DEF EnabledInv, Coming
  <2>2. PICK i \in DOMAIN commands : i < j /\ commands[i].method = "Page.enable" /\ commands[i].arg = ""
    BY <2>1 DEF Before
  <2>3. i # 1
    BY <1>4, <1>6, <1>8, <2>2
  <2>4. i \in Int /\ j \in Int /\ i >= 1
    BY <1>2
  <2>5. i < j
    BY <2>2, Zenon
  <2>6. j # 1 /\ i - 1 < j - 1
    BY ONLY <2>4, <2>5
  <2>7. /\ i - 1 \in DOMAIN commands' /\ commands'[i - 1] = commands[i]
        /\ j - 1 \in DOMAIN commands' /\ commands'[j - 1] = commands[j]
    BY <1>6, <2>3, <2>6
  <2>8. Before(commands', j - 1, "Page.enable", "", FALSE)
    BY <2>2, <2>6, <2>7 DEF Before
  <2> QED BY <2>1, <2>7, <2>8 DEF Coming
<1>9. \A n \in handlers : Coming(commands', n, new)
  BY <1>8 DEF Coming
<1> QED BY <1>7, <1>9

LEMMA KeptEnabled ==
    ASSUME EnabledInv, UNCHANGED <<browser, handlers, scripts, enabled, commands, agent>>, Creating => Creating'
    PROVE  EnabledInv'
BY DEF EnabledInv

\* A browser that attaches has its block still to run.
LEMMA AttachedCreating ==
    ASSUME TInv, OnAfterCreated, browser' = "attached" PROVE Creating'
<1>1. PICK b \in Blocks : queue' = Append(queue, b) /\ b.kind = "didCreate"
  BY OnAfterCreatedFacts
<1> QED BY <1>1, TypeFacts, AppendFacts, SMTT(30) DEF Creating

LEMMA StepEnabled == ASSUME TInv, AnswerInv, EnabledInv, [Next]_vars PROVE EnabledInv'
<1>1. CASE HostCalls
  BY <1>1, AddUserScriptEnabled, AddHandlerEnabled, PlainCallsEnabled DEF HostCalls
<1>2. CASE OnAfterCreated
  BY <1>2, AttachedCreating DEF EnabledInv
<1>3. CASE OnBeforeClose
  <2>1. browser' = "closed"
    BY <1>3, OnBeforeCloseFacts
  <2> QED BY <2>1 DEF EnabledInv
<1>4. CASE BrowserDidCreate
  BY <1>4, DidCreateEnabled
<1>5. CASE AgentExecutes
  BY <1>5, AgentExecutesEnabled
<1>6. CASE \/ OnDevToolsResult \/ OnDevToolsEvent \/ (\E e \in awaiting : EvaluationSettles(e))
           \/ Navigate \/ (\E n \in Names : PostMessage(n))
  <2>1. UNCHANGED <<browser, handlers, scripts, enabled, commands, agent>>
    BY <1>6 DEF EvaluationSettles, Navigate, PostMessage, OnDevToolsResult, OnDevToolsEvent, viewVars, agentVars
  <2> QED BY <1>6, <2>1, StillCreating, KeptEnabled
<1>7. CASE UNCHANGED vars
  BY <1>7, KeptEnabled, SameCreating DEF vars, viewVars, agentVars
<1> QED BY <1>1, <1>2, <1>3, <1>4, <1>5, <1>6, <1>7 DEF Next

-----------------------------------------------------------------------------
(***************************************************************************)
(* Handlers.                                                               *)
(***************************************************************************)
\* No command of cs switches n off.
Quiet(cs, off, n) == \A k \in DOMAIN cs : ~(cs[k].method = off /\ cs[k].arg = n)

LEMMA InitHandlers == Init => HandlersInv
BY DEF Init, HandlersInv

\* A step that sends list.
LEMMA EndsSent ==
    ASSUME TInv, NEW list \in Seq(Requests), Sends(list), NEW on, NEW off, NEW n
    PROVE  \A now : \/ EndsOn(list, on, off, n, FALSE)
                    \/ EndsOn(commands, on, off, n, now) /\ Quiet(list, off, n)
                    => EndsOn(commands', on, off, n, now)
<1>1. commands \in Seq(Commands) /\ nextId \in Nat
  BY TypeFacts
<1>2. PICK sent \in Seq(Commands) :
          /\ sent = Numbered(list, nextId) /\ DOMAIN sent = DOMAIN list
          /\ \A i \in DOMAIN list : sent[i].method = list[i].method /\ sent[i].arg = list[i].arg
  BY <1>1, NumberedFacts DEF Numbered
<1>3. commands' = commands \o sent
  BY <1>2 DEF Sends
<1>4. EndsOn(list, on, off, n, FALSE) => EndsOn(sent, on, off, n, FALSE)
  BY <1>2, SMTT(30) DEF EndsOn
<1>5. Quiet(list, off, n) => \A k \in DOMAIN sent : ~(sent[k].method = off /\ sent[k].arg = n)
  BY <1>2 DEF Quiet
<1>6. \A now : \/ EndsOn(sent, on, off, n, FALSE)
               \/ /\ EndsOn(commands, on, off, n, now)
                  /\ \A k \in DOMAIN sent : ~(sent[k].method = off /\ sent[k].arg = n)
               => EndsOn(commands \o sent, on, off, n, now)
  BY <1>1, EndsConcat
<1> QED BY <1>3, <1>4, <1>5, <1>6

LEMMA SendingHandlers ==
    ASSUME TInv, HandlersInv, NEW list \in Seq(Requests), Sends(list), UNCHANGED <<browser, agentVars>>,
           browser = "attached" =>
               /\ \A n \in Names \ handlers' :
                     \/ EndsOn(list, "removeBinding", "addBinding", n, FALSE)
                     \/ n \notin handlers /\ Quiet(list, "addBinding", n)
               /\ ~Creating' => \A n \in handlers' :
                     \/ /\ EndsOn(list, "addBinding", "removeBinding", n, FALSE)
                        /\ EndsOn(list, "evaluateShim", "evaluateDelete", n, FALSE)
                     \/ /\ ~Creating /\ n \in handlers
                        /\ Quiet(list, "removeBinding", n) /\ Quiet(list, "evaluateDelete", n)
    PROVE  HandlersInv'
<1> SUFFICES ASSUME browser = "attached"
             PROVE  /\ \A n \in Names \ handlers' : Unbound(n)'
                    /\ ~Creating' => \A n \in handlers' : Bound(n)' /\ Callable(n)'
  BY DEF HandlersInv
<1>1. agent' = agent /\ page' = page
  BY DEF agentVars
<1>2. ASSUME NEW n \in Names \ handlers' PROVE Unbound(n)'
  <2>1. \/ EndsOn(list, "removeBinding", "addBinding", n, FALSE)
        \/ Unbound(n) /\ Quiet(list, "addBinding", n)
    BY <1>2 DEF HandlersInv
  <2>2. EndsOn(commands', "removeBinding", "addBinding", n, n \notin agent.bindings)
    BY <2>1, EndsSent DEF Unbound
  <2> QED BY <1>1, <2>2 DEF Unbound
<1>3. ASSUME ~Creating', NEW n \in handlers' PROVE Bound(n)' /\ Callable(n)'
  <2>1. \/ EndsOn(list, "addBinding", "removeBinding", n, FALSE)
        \/ Bound(n) /\ Quiet(list, "removeBinding", n)
    BY <1>3 DEF HandlersInv
  <2>2. \/ EndsOn(list, "evaluateShim", "evaluateDelete", n, FALSE)
        \/ Callable(n) /\ Quiet(list, "evaluateDelete", n)
    BY <1>3 DEF HandlersInv
  <2>3. EndsOn(commands', "addBinding", "removeBinding", n, n \in agent.bindings)
    BY <2>1, EndsSent DEF Bound
  <2>4. EndsOn(commands', "evaluateShim", "evaluateDelete", n, n \in page)
    BY <2>2, EndsSent DEF Callable
  <2> QED BY <1>1, <2>3, <2>4 DEF Bound, Callable
<1> QED BY <1>2, <1>3

\* The calls that are not about handlers.
LEMMA OtherSends ==
    ASSUME TInv, HandlersInv, NEW list \in Seq(Requests), Sends(list), UNCHANGED <<browser, agentVars, queue, handlers>>,
           \A k \in DOMAIN list : list[k].method \notin {"addBinding", "removeBinding", "evaluateDelete"}
    PROVE  HandlersInv'
<1>1. \A n : Quiet(list, "addBinding", n) /\ Quiet(list, "removeBinding", n) /\ Quiet(list, "evaluateDelete", n)
  BY DEF Quiet
<1> QED BY <1>1, SendingHandlers, SameCreating

LEMMA AddUserScriptHandlers ==
    ASSUME TInv, HandlersInv, NEW s \in Sources, AddUserScriptAtDocumentStart(s) PROVE HandlersInv'
<1>1. PICK list \in Seq(Requests) :
          /\ Sends(list)
          /\ IF HasBrowser THEN list = EnableDomains(enabled) \o OneScript(s) ELSE list = <<>>
  BY AddUserScriptSends
<1>2. \A k \in DOMAIN list : list[k].method \notin {"addBinding", "removeBinding", "evaluateDelete"}
  <2>1. CASE HasBrowser
    <3>1. enabled \in BOOLEAN
      BY TypeFacts
    <3>2. PICK l \in Seq(Requests) :
              /\ l = EnableDomains(enabled) \o OneScript(s)
              /\ \A i \in DOMAIN l : l[i].method \in {"Runtime.enable", "Page.enable", "addScript"}
      BY <3>1, ScriptList
    <3> QED BY <1>1, <2>1, <3>2
  <2>2. CASE ~HasBrowser
    BY <1>1, <2>2
  <2> QED BY <2>1, <2>2
<1>3. UNCHANGED <<browser, agentVars, queue, handlers>>
  BY DEF AddUserScriptAtDocumentStart
<1> QED BY <1>1, <1>2, <1>3, OtherSends

LEMMA RemoveAllHandlers == ASSUME TInv, HandlersInv, RemoveAllUserScripts PROVE HandlersInv'
<1>1. PICK list \in Seq(Requests) : list = <<>> /\ Sends(list)
  BY RemoveAllSends
<1>2. UNCHANGED <<browser, agentVars, queue, handlers>>
  BY DEF RemoveAllUserScripts
<1>3. \A k \in DOMAIN list : list[k].method \notin {"addBinding", "removeBinding", "evaluateDelete"}
  BY <1>1
<1> QED BY <1>1, <1>2, <1>3, OtherSends

LEMMA EvaluateHandlers == ASSUME TInv, HandlersInv, NEW p \in Programs, EvaluateJavaScript(p) PROVE HandlersInv'
<1>1. PICK list \in Seq(Requests) :
          Sends(list) /\ IF HasBrowser THEN list = <<Command("evaluate", p)>> ELSE list = <<>>
  BY EvaluateSends
<1>2. \A k \in DOMAIN list : list[k].method \notin {"addBinding", "removeBinding", "evaluateDelete"}
  <2>1. CASE HasBrowser
    <3>1. PICK r \in Requests : r = Command("evaluate", p) /\ r.method = "evaluate"
      BY OneRequest, CommandFields
    <3>2. list = <<r>>
      BY <1>1, <2>1, <3>1
    <3>3. DOMAIN list = {1} /\ list[1] = r
      BY <3>2, Tuples
    <3> QED BY <3>1, <3>3
  <2>2. CASE ~HasBrowser
    BY <1>1, <2>2
  <2> QED BY <2>1, <2>2
<1>3. UNCHANGED <<browser, agentVars, queue, handlers>>
  BY DEF EvaluateJavaScript
<1> QED BY <1>1, <1>2, <1>3, OtherSends

LEMMA AddHandlerHandlers ==
    ASSUME TInv, HandlersInv, NEW n \in Names, AddMessageHandlerName(n) PROVE HandlersInv'
<1>1. PICK list \in Seq(Requests) :
          /\ Sends(list)
          /\ IF HasBrowser THEN list = EnableDomains(enabled) \o HandlerCommands(n) ELSE list = <<>>
  BY AddHandlerSends
<1>2. handlers' = handlers \cup {n} /\ queue' = queue /\ UNCHANGED <<browser, agentVars>>
  BY DEF AddMessageHandlerName
<1>3. CASE browser = "attached"
  <2>1. enabled \in BOOLEAN
    BY TypeFacts
  <2>2. PICK l \in Seq(Requests) :
            /\ l = EnableDomains(enabled) \o HandlerCommands(n) /\ Ordered(l, FALSE, enabled, {})
            /\ Before(l, Len(l) + 1, "Page.enable", "", enabled)
            /\ EndsOn(l, "addBinding", "removeBinding", n, FALSE)
            /\ EndsOn(l, "evaluateShim", "evaluateDelete", n, FALSE)
            /\ \A i \in DOMAIN l :
                  /\ l[i].method \in {"Runtime.enable", "Page.enable", "addBinding", "addScript", "evaluateShim"}
                  /\ ~IsUser(l[i])
                  /\ l[i].method = "addBinding" => l[i].arg = n
    BY <2>1, HandlerList, ZenonT(60)
  <2>3. l = list
    BY <1>1, <1>3, <2>2 DEF HasBrowser
  <2>4. \A m : /\ m # n => Quiet(list, "addBinding", m)
               /\ Quiet(list, "removeBinding", m) /\ Quiet(list, "evaluateDelete", m)
    BY <2>2, <2>3 DEF Quiet
  <2>5. \A m \in Names \ handlers' : m \notin handlers /\ Quiet(list, "addBinding", m)
    BY <1>2, <2>4
  <2>6. ~Creating' => \A m \in handlers' :
            \/ /\ EndsOn(list, "addBinding", "removeBinding", m, FALSE)
               /\ EndsOn(list, "evaluateShim", "evaluateDelete", m, FALSE)
            \/ /\ ~Creating /\ m \in handlers
               /\ Quiet(list, "removeBinding", m) /\ Quiet(list, "evaluateDelete", m)
    BY <1>2, <2>2, <2>3, <2>4, SameCreating
  <2> QED BY <1>1, <1>2, <2>5, <2>6, SendingHandlers
<1>4. CASE browser # "attached"
  BY <1>2, <1>4 DEF HandlersInv
<1> QED BY <1>3, <1>4

LEMMA RemoveHandlerHandlers ==
    ASSUME TInv, HandlersInv, NEW n \in Names, RemoveMessageHandlerName(n) PROVE HandlersInv'
<1>1. PICK list \in Seq(Requests) :
          Sends(list) /\ IF HasBrowser THEN list = Undo(n) ELSE list = <<>>
  BY RemoveHandlerSends
<1>2. handlers' = handlers \ {n} /\ queue' = queue /\ UNCHANGED <<browser, agentVars>>
  BY DEF RemoveMessageHandlerName
<1>3. CASE browser = "attached"
  <2>1. list = Undo(n)
    BY <1>1, <1>3 DEF HasBrowser
  <2>2. /\ DOMAIN list = {1, 2}
        /\ list[1].method = "removeBinding" /\ list[1].arg = n
        /\ list[2].method = "evaluateDelete" /\ list[2].arg = n
    BY <2>1, UndoFacts
  <2>3. EndsOn(list, "removeBinding", "addBinding", n, FALSE)
    BY <2>1, UndoFacts
  <2>4. \A m : /\ m # n => Quiet(list, "removeBinding", m) /\ Quiet(list, "evaluateDelete", m)
               /\ Quiet(list, "addBinding", m)
    BY <2>2 DEF Quiet
  <2>5. \A m \in Names \ handlers' : \/ EndsOn(list, "removeBinding", "addBinding", m, FALSE)
                                     \/ m \notin handlers /\ Quiet(list, "addBinding", m)
    BY <1>2, <2>3, <2>4
  <2>6. ~Creating' => \A m \in handlers' :
            /\ ~Creating /\ m \in handlers
            /\ Quiet(list, "removeBinding", m) /\ Quiet(list, "evaluateDelete", m)
    BY <1>2, <2>4, SameCreating
  <2> QED BY <1>1, <1>2, <2>5, <2>6, SendingHandlers
<1>4. CASE browser # "attached"
  BY <1>2, <1>4 DEF HandlersInv
<1> QED BY <1>3, <1>4

\* The creation installs every handler.
LEMMA DidCreateHandlers == ASSUME TInv, HandlersInv, BrowserDidCreate PROVE HandlersInv'
<1>1. PICK list \in Seq(Requests) :
          /\ Sends(list)
          /\ IF HasBrowser /\ Installs # <<>>
             THEN list = EnableDomains(FALSE) \o Installs ELSE list = <<>>
  BY DidCreateSends
<1>2. UNCHANGED <<browser, agentVars, handlers>>
  BY DEF BrowserDidCreate
<1>3. CASE browser = "attached" /\ Installs # <<>>
  <2>1. PICK l \in Seq(Requests) :
            /\ l = EnableDomains(FALSE) \o Installs
            /\ \A n \in handlers : /\ EndsOn(l, "addBinding", "removeBinding", n, FALSE)
                                   /\ EndsOn(l, "evaluateShim", "evaluateDelete", n, FALSE)
            /\ \A i \in DOMAIN l : l[i].method = "addBinding" => l[i].arg \in handlers
    BY InstallList DEF TInv
  <2>2. l = list
    BY <1>1, <1>3, <2>1 DEF HasBrowser
  <2>3. \A n \in Names \ handlers : Quiet(list, "addBinding", n)
    BY <2>1, <2>2 DEF Quiet
  <2> QED BY <1>1, <1>2, <2>1, <2>2, <2>3, SendingHandlers
<1>4. CASE browser = "attached" /\ Installs = <<>>
  <2>1. list = <<>>
    BY <1>1, <1>4
  <2>2. \A n \in Names : Quiet(list, "addBinding", n)
    BY <2>1 DEF Quiet
  <2>3. handlers = {}
    BY <1>4, NothingInstalled
  <2> QED BY <1>1, <1>2, <2>2, <2>3, SendingHandlers
<1>5. CASE browser # "attached"
  BY <1>2, <1>5 DEF HandlersInv
<1> QED BY <1>3, <1>4, <1>5

LEMMA AgentExecutesHandlers == ASSUME TInv, AnswerInv, HandlersInv, AgentExecutes PROVE HandlersInv'
<1> DEFINE c == Head(commands)
<1>1. /\ commands # <<>> /\ c \in Commands /\ commands' = Tail(commands)
      /\ agent' = Executed(c) /\ UNCHANGED <<browser, viewVars>>
      /\ \A n : n \in page' <=> \/ c.method = "evaluateShim" /\ c.arg = n
                                \/ n \in page /\ ~(c.method = "evaluateDelete" /\ c.arg = n)
  BY AgentExecutesFacts
<1>2. commands \in Seq(Commands) /\ agent \in Agents
  BY TypeFacts
<1>3. agent'.bindings = IF c.method = "addBinding" THEN agent.bindings \cup {c.arg}
                        ELSE IF c.method = "removeBinding" THEN agent.bindings \ {c.arg}
                        ELSE agent.bindings
  BY <1>1, <1>2, ExecutedFacts
<1>4. Creating => Creating'
  BY StillCreating
<1>5. ASSUME NEW n, Unbound(n) PROVE Unbound(n)'
  <2>1. PICK now \in BOOLEAN, after \in BOOLEAN : now = (n \notin agent.bindings) /\ after = (n \notin agent'.bindings)
    OBVIOUS
  <2>2. /\ c.method = "removeBinding" /\ c.arg = n => after
        /\ now /\ ~(c.method = "addBinding" /\ c.arg = n) => after
    BY <1>3, <2>1
  <2>3. EndsOn(commands, "removeBinding", "addBinding", n, now)
    BY <1>5, <2>1 DEF Unbound
  <2>4. EndsOn(Tail(commands), "removeBinding", "addBinding", n, after)
    BY <1>1, <1>2, <2>2, <2>3, EndsTail
  <2> QED BY <1>1, <2>1, <2>4 DEF Unbound
<1>6. ASSUME NEW n, Bound(n) PROVE Bound(n)'
  <2>0. (n \in agent.bindings) \in BOOLEAN /\ (n \in agent'.bindings) \in BOOLEAN
    OBVIOUS
  <2>1. PICK now \in BOOLEAN, after \in BOOLEAN : now = (n \in agent.bindings) /\ after = (n \in agent'.bindings)
    BY <2>0, Zenon
  <2>2. /\ c.method = "addBinding" /\ c.arg = n => after
        /\ now /\ ~(c.method = "removeBinding" /\ c.arg = n) => after
    BY <1>3, <2>1
  <2>3. EndsOn(commands, "addBinding", "removeBinding", n, now)
    BY <1>6, <2>1 DEF Bound
  <2>4. EndsOn(Tail(commands), "addBinding", "removeBinding", n, after)
    BY <1>1, <1>2, <2>2, <2>3, EndsTail
  <2> QED BY <1>1, <2>1, <2>4 DEF Bound
<1>7. ASSUME NEW n, Callable(n) PROVE Callable(n)'
  <2>0. (n \in page) \in BOOLEAN /\ (n \in page') \in BOOLEAN
    OBVIOUS
  <2>1. PICK now \in BOOLEAN, after \in BOOLEAN : now = (n \in page) /\ after = (n \in page')
    BY <2>0, Zenon
  <2>2. /\ c.method = "evaluateShim" /\ c.arg = n => after
        /\ now /\ ~(c.method = "evaluateDelete" /\ c.arg = n) => after
    BY <1>1, <2>1
  <2>3. EndsOn(commands, "evaluateShim", "evaluateDelete", n, now)
    BY <1>7, <2>1 DEF Callable
  <2>4. EndsOn(Tail(commands), "evaluateShim", "evaluateDelete", n, after)
    BY <1>1, <1>2, <2>2, <2>3, EndsTail
  <2> QED BY <1>1, <2>1, <2>4 DEF Callable
<1>8. browser' = browser /\ handlers' = handlers
  BY <1>1 DEF viewVars
<1> HIDE DEF c
<1> QED BY <1>4, <1>5, <1>6, <1>7, <1>8 DEF HandlersInv

\* The steps that keep the commands.
LEMMA KeptHandlers ==
    ASSUME HandlersInv, UNCHANGED <<browser, handlers, commands, agent>>, page \subseteq page', Creating => Creating'
    PROVE  HandlersInv'
<1>1. ASSUME NEW n PROVE (Unbound(n) => Unbound(n)') /\ (Bound(n) => Bound(n)')
  BY DEF Unbound, Bound
<1>2. ASSUME NEW n PROVE Callable(n) => Callable(n)'
  <2>1. n \in page => n \in page'
    OBVIOUS
  <2>2. commands' = commands
    OBVIOUS
  <2> QED BY <2>1, <2>2 DEF Callable, EndsOn
<1> QED BY <1>1, <1>2 DEF HandlersInv

LEMMA OnAfterCreatedHandlers == ASSUME TInv, OnAfterCreated PROVE HandlersInv'
<1>1. commands' = <<>> /\ agent' = NewAgent
  BY OnAfterCreatedFacts
<1>2. DOMAIN commands' = {} /\ NewAgent.bindings = {}
  BY <1>1 DEF NewAgent
<1>3. \A n : Unbound(n)'
  BY <1>1, <1>2 DEF Unbound, EndsOn
<1> QED BY <1>3, AttachedCreating DEF HandlersInv

LEMMA OnBeforeCloseHandlers == ASSUME OnBeforeClose PROVE HandlersInv'
BY OnBeforeCloseFacts DEF HandlersInv

\* A navigation keeps the shims of the handlers or leaves theirs to come.
LEMMA NavigateHandlers ==
    ASSUME TInv, AnswerInv, DomainsInv, EnabledInv, HandlersInv, Navigate PROVE HandlersInv'
<1>1. Creating => Creating'
  BY StillCreating
<1>2. page' = NewDocumentShims /\ UNCHANGED <<browser, handlers, commands, agent>>
  BY NavigateFacts DEF viewVars
<1>3. CASE agent.pageDomain
  <2>1. page \subseteq page'
    BY <1>2, <1>3 DEF NewDocumentShims, DomainsInv
  <2> QED BY <1>1, <1>2, <2>1, KeptHandlers
<1>4. CASE ~agent.pageDomain
  <2>1. ASSUME NEW n PROVE (Unbound(n) => Unbound(n)') /\ (Bound(n) => Bound(n)')
    BY <1>2 DEF Unbound, Bound
  <2>2. ASSUME browser = "attached", ~Creating, NEW n \in handlers, Callable(n) PROVE Callable(n)'
    <3>1. \E j \in DOMAIN commands : commands[j].method = "evaluateShim" /\ commands[j].arg = n
      BY <1>4, <2>2 DEF EnabledInv, Coming
    <3>2. commands' = commands
      BY <1>2
    <3> QED BY <2>2, <3>1, <3>2 DEF Callable, EndsOn
  <2> QED BY <1>1, <1>2, <2>1, <2>2 DEF HandlersInv
<1> QED BY <1>3, <1>4

LEMMA OtherHandlers ==
    ASSUME TInv, AnswerInv, HandlersInv,
           \/ (\E e \in awaiting : EvaluationSettles(e)) \/ (\E n \in Names : PostMessage(n))
           \/ OnDevToolsResult \/ OnDevToolsEvent
    PROVE  HandlersInv'
<1>1. Creating => Creating'
  BY StillCreating
<1>2. UNCHANGED <<browser, handlers, commands, agent, page>>
  BY DEF EvaluationSettles, PostMessage, OnDevToolsResult, OnDevToolsEvent, viewVars, agentVars
<1> QED BY <1>1, <1>2, KeptHandlers

LEMMA StepHandlers ==
    ASSUME TInv, AnswerInv, DomainsInv, EnabledInv, HandlersInv, [Next]_vars PROVE HandlersInv'
<1>1. CASE HostCalls
  BY <1>1, AddUserScriptHandlers, RemoveAllHandlers, AddHandlerHandlers, RemoveHandlerHandlers, EvaluateHandlers
     DEF HostCalls
<1>2. CASE OnAfterCreated \/ OnBeforeClose
  BY <1>2, OnAfterCreatedHandlers, OnBeforeCloseHandlers
<1>3. CASE BrowserDidCreate
  BY <1>3, DidCreateHandlers
<1>4. CASE AgentExecutes
  BY <1>4, AgentExecutesHandlers
<1>5. CASE \/ OnDevToolsResult \/ OnDevToolsEvent \/ (\E e \in awaiting : EvaluationSettles(e))
           \/ (\E n \in Names : PostMessage(n))
  BY <1>5, OtherHandlers
<1>6. CASE UNCHANGED vars
  BY <1>6, KeptHandlers, SameCreating DEF vars, viewVars, agentVars
<1>7. CASE Navigate
  BY <1>7, NavigateHandlers
<1> QED BY <1>1, <1>2, <1>3, <1>4, <1>5, <1>6, <1>7 DEF Next

-----------------------------------------------------------------------------
(***************************************************************************)
(* User scripts.                                                           *)
(***************************************************************************)
LEMMA InitScripts == Init => ScriptsInv
BY DEF Init, ScriptsInv

\* No script of the host is on its way.
LEMMA NoneArrive == ASSUME NEW cs \in Seq(Commands), NEW own \in Seq([script : Sources, identifier : Nat])
                    PROVE  Arrive(cs, <<>>, own)
<1>1. Rest(<<>>, 0) = {} /\ Len(<<>>) = 0
  BY DEF Rest
<1>2. PICK p \in [Rest(<<>>, 0) -> DOMAIN cs] : TRUE
  <2>1. [k \in Rest(<<>>, 0) |-> 0] \in [Rest(<<>>, 0) -> DOMAIN cs]
    BY <1>1
  <2> QED BY <2>1
<1>3. Underway(cs, <<>>, own, 0, p)
  BY <1>1 DEF Underway
<1> QED BY <1>1, <1>3 DEF Arrive

\* All of them are, one after the other.
LEMMA AllArrive ==
    ASSUME NEW cs \in Seq(Commands), NEW own \in Seq([script : Sources, identifier : Nat]),
           NEW ss \in Seq(Sources), NEW base \in Nat, Len(cs) = base + Len(ss),
           \A k \in DOMAIN ss : cs[base + k].method = "addScript" /\ cs[base + k].arg = UserScript(ss[k])
    PROVE  Arrive(cs, ss, own)
<1>1. Rest(ss, 0) = DOMAIN ss /\ DOMAIN ss = 1..Len(ss) /\ Len(ss) \in Nat /\ DOMAIN cs = 1..(base + Len(ss))
  BY DEF Rest
<1> DEFINE p == [k \in DOMAIN ss |-> base + k]
<1>2. p \in [Rest(ss, 0) -> DOMAIN cs] /\ \A k \in DOMAIN ss : p[k] = base + k
  BY <1>1
<1> HIDE DEF p
<1>3. ASSUME NEW i \in DOMAIN cs
      PROVE  \/ \E k \in Rest(ss, 0) : p[k] = i
             \/ \A k \in Rest(ss, 0) : i < p[k]
  <2>0. i \in Nat /\ i <= base + Len(ss)
    BY <1>1
  <2>1. CASE i <= base
    <3>1. ASSUME NEW k \in Rest(ss, 0) PROVE i < p[k]
      <4>0. k \in DOMAIN ss
        BY <1>1
      <4>1. k \in Nat /\ k > 0 /\ p[k] = base + k
        BY <1>2, <4>0
      <4> QED BY <2>0, <2>1, <4>1
    <3> QED BY <3>1
  <2>2. CASE i > base
    <3>1. i - base \in DOMAIN ss /\ base + (i - base) = i
      BY <1>1, <2>2
    <3> QED BY <1>1, <1>2, <3>1
  <2> QED BY <2>0, <2>1, <2>2
<1>4. Underway(cs, ss, own, 0, p)
  <2>1. 0 <= Len(own) /\ 1..0 = {}
    OBVIOUS
  <2>2. \A k \in Rest(ss, 0) : cs[p[k]].method = "addScript" /\ cs[p[k]].arg = UserScript(ss[k])
    BY <1>1, <1>2
  <2>3. ASSUME NEW k \in Rest(ss, 0), NEW l \in Rest(ss, 0), k < l PROVE p[k] < p[l]
    <3>0. k \in DOMAIN ss /\ l \in DOMAIN ss
      BY <1>1
    <3>1. k \in Nat /\ l \in Nat /\ p[k] = base + k /\ p[l] = base + l
      BY <1>2, <3>0
    <3> QED BY <2>3, <3>1
  <2> QED BY <1>3, <2>1, <2>2, <2>3 DEF Underway
<1> QED BY <1>1, <1>2, <1>4 DEF Arrive

\* Further commands that install no script.
LEMMA StillArrive ==
    ASSUME NEW cs \in Seq(Commands), NEW ds \in Seq(Commands), NEW ss \in Seq(Sources),
           NEW own \in Seq([script : Sources, identifier : Nat]), Arrive(cs, ss, own),
           \A i \in DOMAIN cs : i \in DOMAIN ds /\ ds[i] = cs[i],
           \A i \in DOMAIN ds : i \in DOMAIN cs \/ ~IsUser(ds[i])
    PROVE  Arrive(ds, ss, own)
<1>1. PICK m, p : m \in 0..Len(ss) /\ p \in [Rest(ss, m) -> DOMAIN cs] /\ Underway(cs, ss, own, m, p)
  BY DEF Arrive
<1>2. \A k \in Rest(ss, m) : p[k] \in DOMAIN cs
  BY <1>1
<1>3. p \in [Rest(ss, m) -> DOMAIN ds] /\ \A k \in Rest(ss, m) : ds[p[k]] = cs[p[k]]
  BY <1>1, <1>2
<1>4. Underway(ds, ss, own, m, p)
  <2>1. ASSUME NEW i \in DOMAIN ds, IsUser(ds[i]) PROVE i \in DOMAIN cs /\ IsUser(cs[i])
    BY <2>1
  <2> QED BY <1>1, <1>3, <2>1 DEF Underway
<1> QED BY <1>1, <1>3, <1>4 DEF Arrive

\* Further commands of which the last one installs s.
LEMMA OneMoreArrives ==
    ASSUME NEW cs \in Seq(Commands), NEW ds \in Seq(Commands), NEW ss \in Seq(Sources), NEW s \in Sources,
           NEW own \in Seq([script : Sources, identifier : Nat]), Arrive(cs, ss, own),
           Len(cs) < Len(ds), \A i \in DOMAIN cs : ds[i] = cs[i],
           ds[Len(ds)].method = "addScript", ds[Len(ds)].arg = UserScript(s),
           \A i \in DOMAIN ds : i \in DOMAIN cs \/ i = Len(ds) \/ ~IsUser(ds[i])
    PROVE  Arrive(ds, Append(ss, s), own)
<1>1. PICK m, p : m \in 0..Len(ss) /\ p \in [Rest(ss, m) -> DOMAIN cs] /\ Underway(cs, ss, own, m, p)
  BY DEF Arrive
<1> DEFINE last == Len(ss) + 1
           more == Append(ss, s)
           q == [k \in Rest(more, m) |-> IF k = last THEN Len(ds) ELSE p[k]]
<1>2. /\ Len(ss) \in Nat /\ Len(cs) \in Nat /\ Len(ds) \in Nat /\ m \in Nat
      /\ DOMAIN cs = 1..Len(cs) /\ DOMAIN ds = 1..Len(ds)
      /\ Len(more) = last /\ more[last] = s /\ \A k \in 1..Len(ss) : more[k] = ss[k]
  BY <1>1
<1>3. /\ m \in 0..Len(more) /\ last \in Rest(more, m) /\ last \notin Rest(ss, m)
      /\ \A k \in Rest(ss, m) : k \in Rest(more, m) /\ k \in 1..Len(ss) /\ k < last
      /\ \A k \in Rest(more, m) : k = last \/ k \in Rest(ss, m)
  <2>1. m \in 0..Len(ss) /\ Rest(ss, m) = (m + 1)..Len(ss) /\ Rest(more, m) = (m + 1)..(Len(ss) + 1)
    BY <1>1, <1>2 DEF Rest
  <2> HIDE DEF more
  <2> QED BY <1>2, <2>1
<1>4. \A k \in Rest(ss, m) : p[k] \in 1..Len(cs)
  BY <1>1, <1>2
<1>5. /\ q[last] = Len(ds) /\ \A k \in Rest(ss, m) : q[k] = p[k]
      /\ q \in [Rest(more, m) -> DOMAIN ds]
  <2>1. \A k \in Rest(more, m) : (IF k = last THEN Len(ds) ELSE p[k]) \in DOMAIN ds
    BY <1>2, <1>3, <1>4
  <2> QED BY <1>3, <2>1
<1> HIDE DEF q, more
<1>6. Underway(ds, more, own, m, q)
  <2>1. m <= Len(own) /\ \A k \in 1..m : own[Len(own) - m + k].script = more[k]
    <3>1. 1..m \subseteq 1..Len(ss)
      BY <1>1, <1>2
    <3> QED BY <1>1, <1>2, <3>1 DEF Underway
  <2>2. ASSUME NEW k \in Rest(more, m)
        PROVE  ds[q[k]].method = "addScript" /\ ds[q[k]].arg = UserScript(more[k])
    <3>1. CASE k = last
      BY <1>2, <1>5, <3>1
    <3>2. CASE k \in Rest(ss, m)
      <4>1. q[k] = p[k] /\ ds[p[k]] = cs[p[k]] /\ more[k] = ss[k]
        BY <1>2, <1>3, <1>4, <1>5, <3>2
      <4> QED BY <1>1, <3>2, <4>1 DEF Underway
    <3> QED BY <1>3, <3>1, <3>2
  <2>3. ASSUME NEW k \in Rest(more, m), NEW l \in Rest(more, m), k < l PROVE q[k] < q[l]
    <3>1. k # last /\ k \in Rest(ss, m)
      BY <1>2, <1>3, <2>3 DEF Rest
    <3>2. CASE l = last
      <4>1. q[k] \in 1..Len(cs) /\ q[l] = Len(ds)
        BY <1>4, <1>5, <3>1, <3>2
      <4> QED BY <1>2, <4>1
    <3>3. CASE l \in Rest(ss, m)
      BY <1>1, <1>5, <2>3, <3>1, <3>3 DEF Underway
    <3> QED BY <1>3, <3>2, <3>3
  <2>4. ASSUME NEW i \in DOMAIN ds, IsUser(ds[i])
        PROVE  \/ \E k \in Rest(more, m) : q[k] = i
               \/ m = 0 /\ \A k \in Rest(more, 0) : i < q[k]
    <3>1. CASE i = Len(ds)
      BY <1>3, <1>5, <3>1
    <3>2. ASSUME i \in DOMAIN cs, NEW k \in Rest(ss, m), p[k] = i
          PROVE  \E l \in Rest(more, m) : q[l] = i
      BY <1>3, <1>5, <3>2
    <3>3. ASSUME i \in DOMAIN cs, m = 0, \A k \in Rest(ss, 0) : i < p[k]
          PROVE  \A k \in Rest(more, 0) : i < q[k]
      <4>1. i < Len(ds)
        BY <1>2, <3>3
      <4> QED BY <1>3, <1>5, <3>3, <4>1
    <3>4. CASE i \in DOMAIN cs
      <4>1. IsUser(cs[i])
        BY <2>4, <3>4
      <4>2. \/ \E k \in Rest(ss, m) : p[k] = i
            \/ m = 0 /\ \A k \in Rest(ss, 0) : i < p[k]
        BY <1>1, <3>4, <4>1 DEF Underway
      <4> QED BY <3>2, <3>3, <3>4, <4>2
    <3> QED BY <2>4, <3>1, <3>4
  <2> QED BY <2>1, <2>2, <2>3, <2>4 DEF Underway
<1>7. Arrive(ds, more, own)
  BY <1>3, <1>5, <1>6 DEF Arrive
<1> QED BY <1>7 DEF more

\* The agent has executed the first command: it installed the next script of
\* the host,
LEMMA FirstArrives ==
    ASSUME NEW cs \in Seq(Commands), NEW ss \in Seq(Sources), NEW m \in 0..Len(ss),
           NEW own \in Seq([script : Sources, identifier : Nat]),
           NEW p \in [Rest(ss, m) -> DOMAIN cs], Underway(cs, ss, own, m, p), cs # <<>>,
           NEW r \in [script : Sources, identifier : Nat],
           m + 1 \in Rest(ss, m), p[m + 1] = 1, r.script = ss[m + 1]
    PROVE  Arrive(Tail(cs), ss, Append(own, r))
<1> DEFINE ds == Tail(cs)
           got == Append(own, r)
           q == [k \in Rest(ss, m + 1) |-> p[k] - 1]
<1>1. /\ Len(ss) \in Nat /\ Len(own) \in Nat /\ Len(cs) \in Nat /\ m \in Nat /\ m + 1 \in 0..Len(ss)
      /\ DOMAIN cs = 1..Len(cs) /\ DOMAIN ds = 1..(Len(cs) - 1)
      /\ \A i \in DOMAIN ds : ds[i] = cs[i + 1]
      /\ \A i \in DOMAIN cs : i # 1 => i - 1 \in DOMAIN ds /\ ds[i - 1] = cs[i]
  BY DEF Rest
<1>2. /\ \A k \in Rest(ss, m + 1) : k \in Rest(ss, m) /\ m + 1 < k
      /\ \A k \in Rest(ss, m) : k = m + 1 \/ k \in Rest(ss, m + 1)
  BY <1>1 DEF Rest
<1>3. \A k \in Rest(ss, m + 1) : p[k] \in DOMAIN cs /\ p[k] # 1
  <2>1. ASSUME NEW k \in Rest(ss, m + 1) PROVE p[k] \in DOMAIN cs /\ p[m + 1] < p[k]
    BY <1>2 DEF Underway
  <2> QED BY <2>1
<1>4. \A k \in Rest(ss, m + 1) : p[k] - 1 \in DOMAIN ds /\ ds[p[k] - 1] = cs[p[k]]
  BY <1>1, <1>3
<1>5. q \in [Rest(ss, m + 1) -> DOMAIN ds] /\ \A k \in Rest(ss, m + 1) : q[k] = p[k] - 1 /\ ds[q[k]] = cs[p[k]]
  BY <1>4
<1>6. Len(got) = Len(own) + 1 /\ got[Len(own) + 1] = r /\ \A i \in 1..Len(own) : got[i] = own[i]
  BY <1>1
<1> HIDE DEF q, ds, got
<1>7. m <= Len(own) /\ \A k \in 1..m : own[Len(own) - m + k].script = ss[k]
  BY DEF Underway
<1>8. Underway(ds, ss, got, m + 1, q)
  <2>1. m + 1 <= Len(got)
    BY <1>1, <1>6, <1>7
  <2>2. ASSUME NEW k \in 1..(m + 1) PROVE got[Len(got) - (m + 1) + k].script = ss[k]
    <3>1. Len(got) - (m + 1) + k = Len(own) - m + k
      BY <1>1, <1>6
    <3>2. CASE k = m + 1
      <4>1. Len(own) - m + k = Len(own) + 1
        BY <1>1, <3>2
      <4> QED BY <1>6, <3>1, <3>2, <4>1
    <3>3. CASE k # m + 1
      <4>1. k \in 1..m /\ Len(own) - m + k \in 1..Len(own)
        BY <1>1, <1>7, <3>3
      <4> QED BY <1>6, <1>7, <3>1, <4>1
    <3> QED BY <3>2, <3>3
  <2>3. \A k \in Rest(ss, m + 1) : ds[q[k]].method = "addScript" /\ ds[q[k]].arg = UserScript(ss[k])
    BY <1>2, <1>5 DEF Underway
  <2>4. ASSUME NEW k \in Rest(ss, m + 1), NEW l \in Rest(ss, m + 1), k < l PROVE q[k] < q[l]
    <3>1. p[k] < p[l] /\ p[k] \in Nat /\ p[l] \in Nat
      BY <1>1, <1>2, <1>3, <2>4, SMTT(30) DEF Underway
    <3> QED BY <1>5, <3>1
  <2>5. ASSUME NEW i \in DOMAIN ds, IsUser(ds[i]) PROVE \E k \in Rest(ss, m + 1) : q[k] = i
    <3>1. i + 1 \in DOMAIN cs /\ IsUser(cs[i + 1]) /\ i \in Nat /\ i + 1 # 1
      BY <1>1, <2>5
    <3>2. \/ \E k \in Rest(ss, m) : p[k] = i + 1
          \/ m = 0 /\ \A k \in Rest(ss, 0) : i + 1 < p[k]
      BY <3>1 DEF Underway
    <3>3. ~(m = 0 /\ \A k \in Rest(ss, 0) : i + 1 < p[k])
      BY <3>1
    <3>4. PICK k \in Rest(ss, m) : p[k] = i + 1
      BY <3>2, <3>3
    <3>5. k \in Rest(ss, m + 1)
      BY <1>2, <3>1, <3>4
    <3>6. q[k] = i
      BY <1>5, <3>1, <3>4, <3>5
    <3> QED BY <3>5, <3>6
  <2> QED BY <2>1, <2>2, <2>3, <2>4, <2>5 DEF Underway
<1>9. Arrive(ds, ss, got)
  BY <1>1, <1>5, <1>8 DEF Arrive
<1> QED BY <1>9 DEF ds, got

\* or something else, and what scripts the agent had matters only if some of
\* them are the host's.
LEMMA OthersArrive ==
    ASSUME NEW cs \in Seq(Commands), NEW ss \in Seq(Sources), NEW m \in 0..Len(ss),
           NEW own \in Seq([script : Sources, identifier : Nat]),
           NEW got \in Seq([script : Sources, identifier : Nat]),
           NEW p \in [Rest(ss, m) -> DOMAIN cs], Underway(cs, ss, own, m, p), cs # <<>>,
           \A k \in Rest(ss, m) : p[k] # 1, m # 0 => got = own
    PROVE  Arrive(Tail(cs), ss, got)
<1> DEFINE ds == Tail(cs)
           q == [k \in Rest(ss, m) |-> p[k] - 1]
<1>1. /\ Len(ss) \in Nat /\ Len(got) \in Nat /\ Len(cs) \in Nat /\ m \in Nat
      /\ DOMAIN cs = 1..Len(cs) /\ DOMAIN ds = 1..(Len(cs) - 1)
      /\ \A i \in DOMAIN ds : ds[i] = cs[i + 1]
      /\ \A i \in DOMAIN cs : i # 1 => i - 1 \in DOMAIN ds /\ ds[i - 1] = cs[i]
  OBVIOUS
<1>2. \A k \in Rest(ss, m) : p[k] \in DOMAIN cs /\ p[k] \in Nat /\ p[k] - 1 \in DOMAIN ds /\ ds[p[k] - 1] = cs[p[k]]
  BY <1>1
<1>3. q \in [Rest(ss, m) -> DOMAIN ds] /\ \A k \in Rest(ss, m) : q[k] = p[k] - 1 /\ ds[q[k]] = cs[p[k]]
  BY <1>2
<1> HIDE DEF q, ds
<1>4. Underway(ds, ss, got, m, q)
  <2>1. m <= Len(got) /\ \A k \in 1..m : got[Len(got) - m + k].script = ss[k]
    <3>1. CASE m = 0
      BY <1>1, <3>1
    <3>2. CASE m # 0
      BY <3>2 DEF Underway
    <3> QED BY <3>1, <3>2
  <2>2. \A k \in Rest(ss, m) : ds[q[k]].method = "addScript" /\ ds[q[k]].arg = UserScript(ss[k])
    BY <1>3 DEF Underway
  <2>3. ASSUME NEW k \in Rest(ss, m), NEW l \in Rest(ss, m), k < l PROVE q[k] < q[l]
    <3>1. p[k] < p[l] /\ p[k] \in Nat /\ p[l] \in Nat
      BY <1>2, <2>3 DEF Underway
    <3> QED BY <1>3, <3>1
  <2>4. ASSUME NEW i \in DOMAIN ds, IsUser(ds[i])
        PROVE  \/ \E k \in Rest(ss, m) : q[k] = i
               \/ m = 0 /\ \A k \in Rest(ss, 0) : i < q[k]
    <3>1. i + 1 \in DOMAIN cs /\ IsUser(cs[i + 1]) /\ i \in Nat
      BY <1>1, <2>4
    <3>2. \/ \E k \in Rest(ss, m) : p[k] = i + 1
          \/ m = 0 /\ \A k \in Rest(ss, 0) : i + 1 < p[k]
      BY <3>1 DEF Underway
    <3>3. ASSUME NEW k \in Rest(ss, m), p[k] = i + 1 PROVE q[k] = i
      BY <1>3, <3>1, <3>3
    <3>4. ASSUME m = 0, NEW k \in Rest(ss, 0), i + 1 < p[k] PROVE i < q[k]
      BY <1>2, <1>3, <3>1, <3>4
    <3> QED BY <3>2, <3>3, <3>4
  <2> QED BY <2>1, <2>2, <2>3, <2>4 DEF Underway
<1>5. Arrive(ds, ss, got)
  BY <1>3, <1>4 DEF Arrive
<1> QED BY <1>5 DEF ds

LEMMA AgentExecutesScripts ==
    ASSUME TInv, AnswerInv, ScriptsInv, AgentExecutes PROVE ScriptsInv'
<1> DEFINE c == Head(commands)
<1>1. /\ commands # <<>> /\ c \in Commands /\ commands' = Tail(commands)
      /\ agent' = Executed(c) /\ agent' \in Agents /\ UNCHANGED <<browser, viewVars>>
  BY AgentExecutesFacts
<1>2. commands \in Seq(Commands) /\ agent \in Agents /\ scripts \in Seq(Sources)
  BY TypeFacts
<1>3. c = commands[1] /\ 1 \in DOMAIN commands
  BY <1>1, <1>2, TailFacts
<1>4. PICK own, got \in Seq([script : Sources, identifier : Nat]) :
          own = agent.scripts /\ got = agent'.scripts
  BY <1>1, <1>2, AgentRecord
<1>6. \A s \in Sources : c.method = "addScript" /\ c.arg = UserScript(s) =>
          got = Append(own, [script |-> s, identifier |-> c.id])
  BY <1>1, <1>2, <1>4, ExecutedFacts
<1>7. ~IsUser(c) => got = own
  <2> SUFFICES ASSUME ~IsUser(c) PROVE got = own
    OBVIOUS
  <2>1. ~(c.method = "addScript" /\ \E s \in Sources : c.arg = UserScript(s))
    BY ShimsAndUsers DEF IsUser
  <2> QED BY <1>1, <1>2, <1>4, <2>1, ExecutedFacts
<1>8. Creating => Creating'
  BY StillCreating
<1>9. c.id \in Nat
  BY <1>1, CommandFacts
<1> HIDE DEF c
<1> SUFFICES ASSUME browser = "attached", ~Creating' PROVE Arrive(commands', scripts', agent'.scripts)
  BY <1>1 DEF ScriptsInv
<1>10. Arrive(commands, scripts, own)
  BY <1>4, <1>8 DEF ScriptsInv
<1>11. PICK m, p : /\ m \in 0..Len(scripts) /\ p \in [Rest(scripts, m) -> DOMAIN commands]
                   /\ Underway(commands, scripts, own, m, p)
  BY <1>10 DEF Arrive
<1>12. ASSUME NEW k \in Rest(scripts, m), p[k] = 1 PROVE Arrive(Tail(commands), scripts, got)
  <2>1. k = m + 1
    <3>1. m + 1 \in Rest(scripts, m) /\ (k # m + 1 => m + 1 < k)
      BY <1>2, <1>11 DEF Rest
    <3>2. p[m + 1] \in DOMAIN commands /\ (k # m + 1 => p[m + 1] < p[k])
      BY <1>11, <3>1 DEF Underway
    <3>3. \A i \in DOMAIN commands : ~(i < 1)
      BY <1>2
    <3> QED BY <1>12, <3>2, <3>3
  <2>2. scripts[k] \in Sources
    BY <1>2, <1>11 DEF Rest
  <2>3. c.method = "addScript" /\ c.arg = UserScript(scripts[k])
    BY <1>3, <1>11, <1>12 DEF Underway
  <2>4. PICK r \in [script : Sources, identifier : Nat] : r = [script |-> scripts[k], identifier |-> c.id]
    BY <1>9, <2>2
  <2>5. got = Append(own, r) /\ r.script = scripts[m + 1]
    BY <1>6, <2>1, <2>2, <2>3, <2>4
  <2> QED BY <1>1, <1>2, <1>11, <1>12, <2>1, <2>5, FirstArrives
<1>13. ASSUME \A k \in Rest(scripts, m) : p[k] # 1 PROVE Arrive(Tail(commands), scripts, got)
  <2>1. m # 0 => ~IsUser(c)
    BY <1>3, <1>11, <1>13 DEF Underway
  <2>2. m # 0 => got = own
    BY <1>7, <2>1
  <2> QED BY <1>1, <1>2, <1>11, <1>13, <2>2, OthersArrive
<1>14. Arrive(Tail(commands), scripts, got)
  BY <1>12, <1>13
<1> QED BY <1>1, <1>4, <1>14 DEF viewVars

\* The calls that install no script.
LEMMA PlainScripts ==
    ASSUME TInv, ScriptsInv, NEW list \in Seq(Requests), Sends(list),
           UNCHANGED <<browser, agentVars, queue, scripts>>, \A k \in DOMAIN list : ~IsUser(list[k])
    PROVE  ScriptsInv'
<1> SUFFICES ASSUME browser = "attached", ~Creating' PROVE Arrive(commands', scripts', agent'.scripts)
  BY DEF ScriptsInv
<1>1. PICK cs \in Seq(Commands), ds \in Seq(Commands) : cs = commands /\ ds = commands'
  BY TypeFacts, SentFacts
<1>2. PICK own \in Seq([script : Sources, identifier : Nat]) : own = agent.scripts
  BY AgentTyped
<1>3. PICK ss \in Seq(Sources) : ss = scripts
  BY TypeFacts
<1>4. Arrive(cs, ss, own)
  BY <1>1, <1>2, <1>3, SameCreating DEF ScriptsInv
<1>5. \A i \in DOMAIN cs : i \in DOMAIN ds /\ ds[i] = cs[i]
  BY <1>1, SentFacts
<1>6. ASSUME NEW i \in DOMAIN ds, i \notin DOMAIN cs PROVE ~IsUser(ds[i])
  <2>1. PICK k \in DOMAIN list : i = Len(commands) + k
    BY <1>1, <1>6, SentFacts
  <2>2. ds[i].method = list[k].method /\ ds[i].arg = list[k].arg
    BY <1>1, <2>1, SentFacts
  <2> QED BY <2>2 DEF IsUser
<1>7. Arrive(ds, ss, own)
  BY <1>4, <1>5, <1>6, StillArrive
<1> QED BY <1>1, <1>2, <1>3, <1>7 DEF agentVars

LEMMA AddHandlerScripts == ASSUME TInv, ScriptsInv, NEW n \in Names, AddMessageHandlerName(n) PROVE ScriptsInv'
<1>1. PICK list \in Seq(Requests) :
          /\ Sends(list)
          /\ IF HasBrowser THEN list = EnableDomains(enabled) \o HandlerCommands(n) ELSE list = <<>>
  BY AddHandlerSends
<1>2. \A k \in DOMAIN list : ~IsUser(list[k])
  <2>1. CASE HasBrowser
    <3>1. enabled \in BOOLEAN
      BY TypeFacts
    <3>2. PICK l \in Seq(Requests) :
              /\ l = EnableDomains(enabled) \o HandlerCommands(n) /\ Ordered(l, FALSE, enabled, {})
              /\ Before(l, Len(l) + 1, "Page.enable", "", enabled)
              /\ EndsOn(l, "addBinding", "removeBinding", n, FALSE)
              /\ EndsOn(l, "evaluateShim", "evaluateDelete", n, FALSE)
              /\ \A i \in DOMAIN l :
                    /\ l[i].method \in {"Runtime.enable", "Page.enable", "addBinding", "addScript", "evaluateShim"}
                    /\ ~IsUser(l[i])
                    /\ l[i].method = "addBinding" => l[i].arg = n
      BY <3>1, HandlerList, ZenonT(60)
    <3> QED BY <1>1, <2>1, <3>2
  <2>2. CASE ~HasBrowser
    BY <1>1, <2>2
  <2> QED BY <2>1, <2>2
<1>3. UNCHANGED <<browser, agentVars, queue, scripts>>
  BY DEF AddMessageHandlerName
<1> QED BY <1>1, <1>2, <1>3, PlainScripts

LEMMA RemoveHandlerScripts ==
    ASSUME TInv, ScriptsInv, NEW n \in Names, RemoveMessageHandlerName(n) PROVE ScriptsInv'
<1>1. PICK list \in Seq(Requests) :
          Sends(list) /\ IF HasBrowser THEN list = Undo(n) ELSE list = <<>>
  BY RemoveHandlerSends
<1>2. \A k \in DOMAIN list : ~IsUser(list[k])
  <2>1. CASE HasBrowser
    <3>1. list = Undo(n)
      BY <1>1, <2>1
    <3>2. /\ DOMAIN Undo(n) = {1, 2}
          /\ Undo(n)[1].method = "removeBinding" /\ Undo(n)[2].method = "evaluateDelete"
      BY UndoFacts
    <3> QED BY <3>1, <3>2 DEF IsUser
  <2>2. CASE ~HasBrowser
    BY <1>1, <2>2
  <2> QED BY <2>1, <2>2
<1>3. UNCHANGED <<browser, agentVars, queue, scripts>>
  BY DEF RemoveMessageHandlerName
<1> QED BY <1>1, <1>2, <1>3, PlainScripts

LEMMA EvaluateScripts == ASSUME TInv, ScriptsInv, NEW p \in Programs, EvaluateJavaScript(p) PROVE ScriptsInv'
<1>1. PICK list \in Seq(Requests) :
          Sends(list) /\ IF HasBrowser THEN list = <<Command("evaluate", p)>> ELSE list = <<>>
  BY EvaluateSends
<1>2. \A k \in DOMAIN list : ~IsUser(list[k])
  <2>1. CASE HasBrowser
    <3>1. PICK r \in Requests : r = Command("evaluate", p) /\ r.method = "evaluate"
      BY OneRequest, CommandFields
    <3>2. list = <<r>>
      BY <1>1, <2>1, <3>1
    <3>3. DOMAIN list = {1} /\ list[1] = r
      BY <3>2, Tuples
    <3> QED BY <3>1, <3>3 DEF IsUser
  <2>2. CASE ~HasBrowser
    BY <1>1, <2>2
  <2> QED BY <2>1, <2>2
<1>3. UNCHANGED <<browser, agentVars, queue, scripts>>
  BY DEF EvaluateJavaScript
<1> QED BY <1>1, <1>2, <1>3, PlainScripts

\* The calls that are about scripts, and the creation.
LEMMA AddUserScriptScripts ==
    ASSUME TInv, ScriptsInv, NEW s \in Sources, AddUserScriptAtDocumentStart(s) PROVE ScriptsInv'
<1>1. UNCHANGED <<browser, agentVars, queue>> /\ scripts' = Append(scripts, s)
  BY DEF AddUserScriptAtDocumentStart
<1> SUFFICES ASSUME browser = "attached", ~Creating' PROVE Arrive(commands', scripts', agent'.scripts)
  BY <1>1 DEF ScriptsInv
<1>2. PICK list \in Seq(Requests) : Sends(list) /\ list = EnableDomains(enabled) \o OneScript(s)
  BY AddUserScriptSends DEF HasBrowser
<1>3. /\ \A i \in DOMAIN list :
            /\ i # Len(list) => list[i].method # "addScript"
            /\ i = Len(list) => list[i].method = "addScript" /\ list[i].arg = UserScript(s)
      /\ list # <<>>
  <2>1. enabled \in BOOLEAN
    BY TypeFacts
  <2>2. PICK l \in Seq(Requests) :
            /\ l = EnableDomains(enabled) \o OneScript(s) /\ l # <<>>
            /\ \A i \in DOMAIN l :
                  /\ i # Len(l) => l[i].method # "addScript"
                  /\ i = Len(l) => l[i].method = "addScript" /\ l[i].arg = UserScript(s)
    BY <2>1, ScriptLast
  <2>3. l = list
    BY <1>2, <2>2
  <2> QED BY <2>2, <2>3
<1>4. PICK cs \in Seq(Commands), ds \in Seq(Commands) : cs = commands /\ ds = commands'
  BY <1>2, TypeFacts, SentFacts
<1>5. PICK own \in Seq([script : Sources, identifier : Nat]) : own = agent.scripts
  BY AgentTyped
<1>6. PICK ss \in Seq(Sources) : ss = scripts
  BY TypeFacts
<1>7. Arrive(cs, ss, own)
  BY <1>1, <1>4, <1>5, <1>6, SameCreating DEF ScriptsInv
<1>8. /\ Len(ds) = Len(cs) + Len(list) /\ Len(cs) \in Nat /\ Len(list) \in Nat /\ DOMAIN list = 1..Len(list)
      /\ \A i \in DOMAIN cs : ds[i] = cs[i]
      /\ \A k \in DOMAIN list : ds[Len(cs) + k].method = list[k].method /\ ds[Len(cs) + k].arg = list[k].arg
      /\ \A i \in DOMAIN ds : i \in DOMAIN cs \/ \E k \in DOMAIN list : i = Len(cs) + k
  <2>1. /\ Len(commands') = Len(commands) + Len(list) /\ Len(commands) \in Nat
        /\ Len(list) \in Nat /\ DOMAIN list = 1..Len(list)
        /\ \A i \in DOMAIN commands : commands'[i] = commands[i]
        /\ \A k \in DOMAIN list : /\ commands'[Len(commands) + k].method = list[k].method
                                  /\ commands'[Len(commands) + k].arg = list[k].arg
        /\ \A i \in DOMAIN commands' : i \in DOMAIN commands \/ \E k \in DOMAIN list : i = Len(commands) + k
    BY <1>2, SentFacts
  <2> QED BY <1>4, <2>1
<1>9. Len(list) \in DOMAIN list
  BY <1>3, <1>8
<1>10. Len(cs) < Len(ds) /\ ds[Len(ds)].method = "addScript" /\ ds[Len(ds)].arg = UserScript(s)
  <2>1. PICK k \in DOMAIN list : k = Len(list)
    BY <1>9
  <2>2. list[k].method = "addScript" /\ list[k].arg = UserScript(s)
    BY <1>3, <2>1
  <2>3. Len(ds) = Len(cs) + k /\ k > 0
    BY <1>8, <2>1
  <2>4. ds[Len(ds)].method = list[k].method /\ ds[Len(ds)].arg = list[k].arg
    BY <1>8, <2>3
  <2>5. Len(cs) < Len(ds)
    BY <1>8, <2>1, <2>3
  <2> QED BY <2>2, <2>4, <2>5
<1>11. ASSUME NEW i \in DOMAIN ds, i \notin DOMAIN cs, i # Len(ds) PROVE ~IsUser(ds[i])
  <2>1. PICK k \in DOMAIN list : i = Len(cs) + k
    BY <1>8, <1>11
  <2>2. ds[i].method = list[k].method /\ k # Len(list)
    BY <1>8, <1>11, <2>1
  <2> QED BY <1>3, <2>2 DEF IsUser
<1>12. Arrive(ds, Append(ss, s), own)
  BY <1>7, <1>8, <1>10, <1>11, OneMoreArrives
<1> QED BY <1>1, <1>4, <1>5, <1>6, <1>12 DEF agentVars

LEMMA RemoveAllScripts == ASSUME TInv, RemoveAllUserScripts PROVE ScriptsInv'
<1>1. scripts' = <<>> /\ agent' = agent
  BY DEF RemoveAllUserScripts, agentVars
<1>2. commands' \in Seq(Commands)
  BY RemoveAllSends, SentFacts
<1>3. Arrive(commands', <<>>, agent.scripts)
  BY <1>2, AgentTyped, NoneArrive
<1> QED BY <1>1, <1>3 DEF ScriptsInv

LEMMA DidCreateScripts == ASSUME TInv, BrowserDidCreate PROVE ScriptsInv'
<1>1. UNCHANGED <<browser, agentVars, scripts>>
  BY DEF BrowserDidCreate
<1>2. PICK list \in Seq(Requests) :
          /\ Sends(list)
          /\ IF HasBrowser /\ Installs # <<>>
             THEN list = EnableDomains(FALSE) \o Installs ELSE list = <<>>
  BY DidCreateSends
<1>3. commands' \in Seq(Commands)
  BY <1>2, SentFacts
<1>4. CASE scripts = <<>>
  <2>1. Arrive(commands', <<>>, agent.scripts)
    BY <1>3, AgentTyped, NoneArrive
  <2> QED BY <1>1, <1>4, <2>1 DEF ScriptsInv, agentVars
<1>5. CASE browser = "attached" /\ scripts # <<>>
  <2>1. PICK ss \in Seq(Sources) : ss = scripts
    BY TypeFacts
  <2>2. Len(ss) \in Nat /\ DOMAIN ss = 1..Len(ss) /\ Len(ss) # 0
    BY <1>5, <2>1
  <2>3. Installs # <<>>
    <3>1. PICK base \in Nat : Len(Installs) = base + Len(scripts)
      BY InstallsFacts DEF TInv
    <3>2. Len(Installs) # 0
      BY <2>1, <2>2, <3>1
    <3>3. Len(<<>>) = 0
      OBVIOUS
    <3> QED BY <3>2, <3>3
  <2>4. PICK l \in Seq(Requests) :
            /\ l = EnableDomains(FALSE) \o Installs
            /\ \E base \in Nat :
                  /\ Len(l) = base + Len(scripts)
                  /\ \A i \in 1..base : ~IsUser(l[i])
                  /\ \A k \in DOMAIN scripts : /\ l[base + k].method = "addScript"
                                               /\ l[base + k].arg = UserScript(scripts[k])
    BY InstallList DEF TInv
  <2>5. l = list
    BY <1>2, <1>5, <2>3, <2>4 DEF HasBrowser
  <2>6. PICK base \in Nat :
            /\ Len(list) = base + Len(ss)
            /\ \A k \in DOMAIN ss : list[base + k].method = "addScript" /\ list[base + k].arg = UserScript(ss[k])
    BY <2>1, <2>4, <2>5
  <2>7. PICK ds \in Seq(Commands) : ds = commands'
    BY <1>3
  <2>8. /\ Len(ds) = Len(commands) + Len(list) /\ Len(commands) \in Nat /\ DOMAIN list = 1..Len(list)
        /\ \A k \in DOMAIN list : /\ ds[Len(commands) + k].method = list[k].method
                                  /\ ds[Len(commands) + k].arg = list[k].arg
    BY <1>2, <2>7, SentFacts
  <2>9. PICK from \in Nat : from = Len(commands) + base
    BY <2>8
  <2>10. Len(ds) = from + Len(ss)
    BY <2>2, <2>6, <2>8, <2>9
  <2>11. ASSUME NEW k \in DOMAIN ss
         PROVE  ds[from + k].method = "addScript" /\ ds[from + k].arg = UserScript(ss[k])
    <3>1. base + k \in DOMAIN list /\ from + k = Len(commands) + (base + k)
      BY <2>2, <2>6, <2>8, <2>9
    <3> QED BY <2>6, <2>8, <3>1
  <2>12. Arrive(ds, ss, agent.scripts)
    BY <2>10, <2>11, AgentTyped, AllArrive
  <2> QED BY <1>1, <2>1, <2>7, <2>12 DEF ScriptsInv, agentVars
<1>6. CASE browser # "attached"
  BY <1>1, <1>6 DEF ScriptsInv
<1> QED BY <1>4, <1>5, <1>6

LEMMA OtherScripts ==
    ASSUME ScriptsInv, UNCHANGED <<browser, scripts, commands, agent>>, Creating => Creating'
    PROVE  ScriptsInv'
BY DEF ScriptsInv

LEMMA OnAfterCreatedScripts == ASSUME TInv, OnAfterCreated PROVE ScriptsInv'
BY AttachedCreating DEF ScriptsInv

LEMMA StepScripts == ASSUME TInv, AnswerInv, ScriptsInv, [Next]_vars PROVE ScriptsInv'
<1>1. CASE HostCalls
  BY <1>1, AddUserScriptScripts, RemoveAllScripts, AddHandlerScripts, RemoveHandlerScripts, EvaluateScripts
     DEF HostCalls
<1>2. CASE OnAfterCreated
  BY <1>2, OnAfterCreatedScripts
<1>3. CASE OnBeforeClose
  BY <1>3, OnBeforeCloseFacts DEF ScriptsInv
<1>4. CASE BrowserDidCreate
  BY <1>4, DidCreateScripts
<1>5. CASE AgentExecutes
  BY <1>5, AgentExecutesScripts
<1>6. CASE \/ OnDevToolsResult \/ OnDevToolsEvent \/ (\E e \in awaiting : EvaluationSettles(e))
           \/ Navigate \/ (\E n \in Names : PostMessage(n))
  <2>1. Creating => Creating'
    BY <1>6, StillCreating
  <2>2. UNCHANGED <<browser, scripts, commands, agent>>
    BY <1>6 DEF EvaluationSettles, Navigate, PostMessage, OnDevToolsResult, OnDevToolsEvent, viewVars, agentVars
  <2> QED BY <2>1, <2>2, OtherScripts
<1>7. CASE UNCHANGED vars
  BY <1>7, OtherScripts, SameCreating DEF vars, viewVars, agentVars
<1> QED BY <1>1, <1>2, <1>3, <1>4, <1>5, <1>6, <1>7 DEF Next

-----------------------------------------------------------------------------
(***************************************************************************)
(* Messages.                                                               *)
(***************************************************************************)
LEMMA InitPosts == Init => PostsInv
<1> SUFFICES ASSUME Init PROVE PostsInv
  OBVIOUS
<1>1. DOMAIN posts = {}
  BY DEF Init
<1> QED BY <1>1 DEF PostsInv, MessagesReachHandlers

LEMMA RemoveHandlerPosts ==
    ASSUME TInv, PostsInv, NEW n \in Names, RemoveMessageHandlerName(n) PROVE PostsInv'
<1>1. handlers' = handlers \ {n} /\ posts' = Orphaned(n)
  BY DEF RemoveMessageHandlerName
<1>2. /\ DOMAIN Orphaned(n) = DOMAIN posts
      /\ \A i \in DOMAIN posts :
            /\ Orphaned(n)[i].name = posts[i].name
            /\ Orphaned(n)[i].outcome = posts[i].outcome
            /\ Orphaned(n)[i].removed = (posts[i].removed \/ posts[i].name = n)
  BY TypeFacts, OrphanedFacts
<1> QED BY <1>1, <1>2 DEF PostsInv, MessagesReachHandlers

LEMMA PostMessagePosts == ASSUME TInv, PostsInv, NEW n \in Names, PostMessage(n) PROVE PostsInv'
<1>1. /\ posts'[Len(posts) + 1].name = n /\ posts'[Len(posts) + 1].outcome = "posted"
      /\ posts'[Len(posts) + 1].removed = (n \notin handlers)
      /\ \A i \in DOMAIN posts : i \in DOMAIN posts' /\ posts'[i] = posts[i]
      /\ \A i \in DOMAIN posts' : i \in DOMAIN posts \/ i = Len(posts) + 1
      /\ UNCHANGED viewVars
  BY PostMessageFacts
<1> QED BY <1>1 DEF PostsInv, MessagesReachHandlers, viewVars

LEMMA EventPosts == ASSUME TInv, PostsInv, OnDevToolsEvent PROVE PostsInv'
<1>1. PICK i \in DOMAIN posts :
          /\ DOMAIN posts' = DOMAIN posts
          /\ posts'[i].name = posts[i].name /\ posts'[i].removed = posts[i].removed
          /\ posts'[i].outcome = "ignored" => posts[i].name \notin handlers
          /\ \A j \in DOMAIN posts : j # i => posts'[j] = posts[j]
          /\ UNCHANGED viewVars
  BY EventFacts
<1> QED BY <1>1 DEF PostsInv, MessagesReachHandlers, viewVars

LEMMA OtherPosts == ASSUME PostsInv, posts' = posts, handlers \subseteq handlers' PROVE PostsInv'
BY DEF PostsInv, MessagesReachHandlers

LEMMA StepPosts == ASSUME TInv, PostsInv, [Next]_vars PROVE PostsInv'
<1>1. CASE HostCalls
  BY <1>1, RemoveHandlerPosts, OtherPosts
     DEF HostCalls, AddUserScriptAtDocumentStart, RemoveAllUserScripts, AddMessageHandlerName, EvaluateJavaScript
<1>2. CASE OnDevToolsEvent \/ \E n \in Names : PostMessage(n)
  BY <1>2, EventPosts, PostMessagePosts
<1>3. CASE OnAfterCreated \/ OnBeforeClose \/ BrowserDidCreate \/ OnDevToolsResult
  BY <1>3, OtherPosts DEF OnAfterCreated, OnBeforeClose, BrowserDidCreate, OnDevToolsResult, viewVars
<1>4. CASE AgentExecutes \/ (\E e \in awaiting : EvaluationSettles(e)) \/ Navigate
  BY <1>4, OtherPosts DEF AgentExecutes, EvaluationSettles, Navigate, viewVars
<1>5. CASE UNCHANGED vars
  BY <1>5, OtherPosts DEF vars, viewVars
<1> QED BY <1>1, <1>2, <1>3, <1>4, <1>5 DEF Next

-----------------------------------------------------------------------------
(***************************************************************************)
(* Calls that are lost.                                                    *)
(***************************************************************************)
\* Only the browsers' coming and going, and a call to an unowned one, lose calls.
LEMMA LostStays ==
    ASSUME \/ \E s \in Sources : AddUserScriptAtDocumentStart(s)
           \/ RemoveAllUserScripts
           \/ \E n \in Names : AddMessageHandlerName(n) \/ RemoveMessageHandlerName(n) \/ PostMessage(n)
           \/ BrowserDidCreate \/ OnDevToolsResult \/ OnDevToolsEvent
           \/ AgentExecutes \/ (\E e \in awaiting : EvaluationSettles(e)) \/ Navigate
    PROVE  UNCHANGED <<live, lost>>
BY DEF AddUserScriptAtDocumentStart, RemoveAllUserScripts, AddMessageHandlerName,
       RemoveMessageHandlerName, PostMessage, BrowserDidCreate, OnDevToolsResult, OnDevToolsEvent,
       AgentExecutes, EvaluationSettles, Navigate

LEMMA BrowserLoses ==
    ASSUME OnAfterCreated \/ OnBeforeClose
    PROVE  lost' = lost \cup Unanswered /\ UNCHANGED <<viewVars, evals>>
BY DEF OnAfterCreated, OnBeforeClose, Unregister

\* evaluateJavaScript makes one call, which an unowned browser loses.
LEMMA EvaluateLoses ==
    ASSUME NEW p \in Programs, EvaluateJavaScript(p)
    PROVE  /\ live' = live /\ lost \subseteq lost' /\ lost' \subseteq lost \cup {Len(evals) + 1}
           /\ browser = "unowned" => Len(evals) + 1 \in lost'
BY DEF EvaluateJavaScript, HasBrowser

LEMMA InitLost == Init => LostInv
BY DEF Init, LostInv

LEMMA StepLost == ASSUME TInv, ResultsAnswer, LostInv, [Next]_vars PROVE LostInv'
<1>1. ASSUME NEW p \in Programs, EvaluateJavaScript(p) PROVE LostInv'
  <2>1. DOMAIN evals' = DOMAIN evals \cup {Len(evals) + 1}
    BY <1>1, EvaluateFacts
  <2> QED BY <1>1, <2>1, EvaluateLoses DEF LostInv
<1>2. CASE OnAfterCreated \/ OnBeforeClose
  <2>1. Unanswered \subseteq DOMAIN evals
    BY TypeFacts DEF Unanswered
  <2>2. live' \in Nat
    BY <1>2 DEF OnAfterCreated, OnBeforeClose, LostInv
  <2> QED BY <1>2, <2>1, <2>2, BrowserLoses DEF LostInv
<1>3. ASSUME UNCHANGED <<live, lost>>, DOMAIN evals \subseteq DOMAIN evals' PROVE LostInv'
  BY <1>3 DEF LostInv
<1>4. CASE OnDevToolsResult
  BY <1>3, <1>4, LostStays, ResultFacts
<1>5. CASE \/ \E s \in Sources : AddUserScriptAtDocumentStart(s)
           \/ RemoveAllUserScripts
           \/ \E n \in Names : AddMessageHandlerName(n) \/ RemoveMessageHandlerName(n) \/ PostMessage(n)
           \/ BrowserDidCreate \/ OnDevToolsEvent
           \/ AgentExecutes \/ (\E e \in awaiting : EvaluationSettles(e)) \/ Navigate
  <2>1. evals' = evals
    BY <1>5 DEF AddUserScriptAtDocumentStart, RemoveAllUserScripts, AddMessageHandlerName,
                RemoveMessageHandlerName, PostMessage, BrowserDidCreate, OnDevToolsEvent,
                AgentExecutes, EvaluationSettles, Navigate
  <2> QED BY <1>3, <1>5, <2>1, LostStays
<1>6. CASE UNCHANGED vars
  BY <1>3, <1>6 DEF vars
<1> QED BY <1>1, <1>2, <1>4, <1>5, <1>6 DEF Next, HostCalls

-----------------------------------------------------------------------------
(***************************************************************************)
(* The theorems.                                                           *)
(***************************************************************************)
\* The inductive invariant of every DevTools bridge.
THEOREM Invariance == Spec => []IInv
<1>1. Init => IInv
  BY InitTypes, InitAnswers, InitDomains, InitEnabled, InitHandlers, InitScripts, InitPosts, InitLost
     DEF IInv
<1>2. IInv /\ [Next]_vars => IInv'
  <2> SUFFICES ASSUME IInv, [Next]_vars PROVE IInv'
    OBVIOUS
  <2>1. /\ TInv /\ AnswerInv /\ ResultsAnswer /\ DomainsInv /\ EnabledInv /\ HandlersInv
        /\ ScriptsInv /\ PostsInv /\ LostInv
    BY DEF IInv, AnswerInv
  <2>2. TInv' /\ AnswerInv' /\ DomainsInv' /\ EnabledInv'
    BY <2>1, StepTypes, StepAnswers, StepDomains, StepEnabled
  <2>3. HandlersInv' /\ ScriptsInv' /\ PostsInv' /\ LostInv'
    BY <2>1, StepHandlers, StepScripts, StepPosts, StepLost
  <2> QED BY <2>2, <2>3 DEF IInv
<1> QED BY <1>1, <1>2, PTL DEF Spec

\* Every variable has its type: a callback waits for an id that was given out,
\* and leads to a call that was made.
THEOREM TypeCorrect == Spec => []TypeOK
<1>1. IInv => TypeOK
  <2> SUFFICES ASSUME IInv PROVE TypeOK
    OBVIOUS
  <2>1. TInv
    BY DEF IInv
  <2>2. Range(scripts) \subseteq Sources
    <3>1. \A i \in DOMAIN scripts : scripts[i] \in Sources
      BY <2>1, TypeFacts
    <3> QED BY <3>1 DEF Range
  <2>3. \A i \in DOMAIN commands : commands[i].id \in 1..nextId
    <3>1. ASSUME NEW i \in DOMAIN commands PROVE commands[i].id \in 1..nextId
      <4>1. commands[i] \in Commands /\ commands[i].id <= nextId /\ nextId \in Nat
        BY <2>1, TypeFacts
      <4> QED BY <4>1, CommandFacts
    <3> QED BY <3>1
  <2>4. \A i \in DOMAIN evals : evals[i] \in EvalRecord
    BY <2>1, TypeFacts
  <2>5. \A i \in DOMAIN posts : posts[i] \in PostRecord
    BY <2>1, TypeFacts
  <2>6. live \in Nat /\ lost \subseteq DOMAIN evals
    BY DEF IInv, LostInv
  <2> QED BY <2>1, <2>2, <2>3, <2>4, <2>5, <2>6, TypeFacts, AgentTyped DEF TypeOK, PostRecord, EvalRecord
<1> QED BY <1>1, Invariance, PTL

\* A completion gets the answer to its own script, or an error: however many
\* calls wait at once, in whatever order their promises settle, and across
\* navigations and the close of the browser.
THEOREM OwnAnswers == Spec => []EvalGetsOwnAnswer
<1>1. IInv => EvalGetsOwnAnswer
  <2> SUFFICES ASSUME IInv, NEW i \in DOMAIN evals
               PROVE  evals[i].outcome \in
                          {"pending", "error"} \cup
                          (CASE evals[i].program = "value" -> {"value"}
                             [] evals[i].program = "undefined" -> {"nil"}
                             [] OTHER -> {})
    BY DEF EvalGetsOwnAnswer
  <2>1. evals[i].outcome = "pending" \/ evals[i].outcome \in Fitting(evals[i].program)
    BY DEF IInv, AnswerInv, OutcomesFit
  <2> QED BY <2>1 DEF Fitting
<1> QED BY <1>1, Invariance, PTL

\* A message posted to a registered handler is handled: only removing the
\* handler loses it.
THEOREM Messages == Spec => []MessagesReachHandlers
<1>1. IInv => MessagesReachHandlers
  BY DEF IInv, PostsInv
<1> QED BY <1>1, Invariance, PTL

\* When the agent is idle its bindings are the registered handlers, each of them
\* callable from the current document and from every later one.
THEOREM Handlers == Spec => []HandlersAreBindings
<1>1. IInv => HandlersAreBindings
  <2> SUFFICES ASSUME IInv, Settled
               PROVE  /\ agent.bindings = handlers
                      /\ \A n \in handlers : agent.runtime /\ n \in page /\ n \in NewDocumentShims
    BY DEF HandlersAreBindings
  <2>1. TInv /\ DomainsInv /\ EnabledInv /\ HandlersInv /\ browser = "attached" /\ commands = <<>> /\ ~Creating
    BY DEF IInv, Settled, Creating
  <2>2. DOMAIN commands = {}
    BY <2>1
  <2>3. handlers \subseteq Names /\ agent.bindings \subseteq Names
    BY <2>1, TypeFacts, AgentTyped
  <2>4. ASSUME NEW n \in Names \ handlers PROVE n \notin agent.bindings
    BY <2>1, <2>2, <2>4 DEF HandlersInv, Unbound, EndsOn
  <2>5. ASSUME NEW n \in handlers PROVE n \in agent.bindings /\ n \in page
    BY <2>1, <2>2, <2>5 DEF HandlersInv, Bound, Callable, EndsOn
  <2>6. ASSUME NEW n \in handlers PROVE n \in NewDocumentShims /\ agent.runtime
    <3>1. agent.pageDomain
      BY <2>1, <2>2, <2>6 DEF EnabledInv, Before
    <3>2. n \in agent.shims /\ agent.runtime
      BY <2>1, <2>5, <2>6, <3>1 DEF DomainsInv
    <3> QED BY <3>1, <3>2 DEF NewDocumentShims
  <2> QED BY <2>3, <2>4, <2>5, <2>6
<1> QED BY <1>1, Invariance, PTL

LEMMA FunctionIsSequence ==
    ASSUME NEW S, NEW n \in Nat, NEW f \in [1..n -> S]
    PROVE  f \in Seq(S) /\ Len(f) = n
OBVIOUS

LEMMA Element ==
    ASSUME NEW S, NEW s \in Seq(S), NEW i \in 1..Len(s)
    PROVE  s[i] \in S
OBVIOUS

LEMMA SuffixFacts ==
    ASSUME NEW S, NEW s \in Seq(S), NEW t \in Seq(S), Len(s) <= Len(t),
           \A k \in 1..Len(s) : t[Len(t) - Len(s) + k] = s[k]
    PROVE  IsSuffix(s, t)
<1>1. Len(s) \in Nat /\ Len(t) \in Nat
  OBVIOUS
<1>2. Reverse(s) \in [1..Len(s) -> S] /\ Reverse(t) \in [1..Len(t) -> S]
  BY <1>1 DEF Reverse
<1>3. PICK a \in Seq(S), b \in Seq(S) : /\ a = Reverse(s) /\ b = Reverse(t)
                                       /\ Len(a) = Len(s) /\ Len(b) = Len(t)
  <2>1. Reverse(s) \in Seq(S) /\ Len(Reverse(s)) = Len(s)
    BY ONLY <1>1, <1>2, FunctionIsSequence
  <2>2. Reverse(t) \in Seq(S) /\ Len(Reverse(t)) = Len(t)
    BY ONLY <1>1, <1>2, FunctionIsSequence
  <2> QED BY <2>1, <2>2
<1>4. ASSUME NEW i \in 1..Len(s) PROVE a[i] = b[i]
  <2>1. a[i] = s[Len(s) - i + 1] /\ b[i] = t[Len(t) - i + 1]
    BY <1>1, <1>3, SMTT(30) DEF Reverse
  <2>2. PICK k \in 1..Len(s) : k = Len(s) - i + 1
    <3>1. i \in Nat /\ i >= 1 /\ i <= Len(s)
      BY <1>1
    <3>2. Len(s) - i + 1 \in 1..Len(s)
      BY <1>1, <3>1
    <3> QED BY <3>2
  <2>3. Len(t) - Len(s) + k = Len(t) - i + 1
    BY <1>1, <2>2
  <2> QED BY <2>1, <2>2, <2>3
<1>5. SubSeq(a, 1, Len(a)) = SubSeq(b, 1, Len(a))
  BY <1>1, <1>3, <1>4
<1> QED BY <1>3, <1>5 DEF IsSuffix, IsPrefix

\* When the agent is idle, new documents run the host's user scripts in the order
\* they were added, as the last ones they run.
THEOREM Scripts == Spec => []ScriptsInstalled
<1>1. IInv => ScriptsInstalled
  <2> SUFFICES ASSUME IInv, Settled PROVE IsSuffix(scripts, UserScripts)
    BY DEF ScriptsInstalled
  <2>1. TInv /\ commands = <<>> /\ Arrive(commands, scripts, agent.scripts)
    BY DEF IInv, Settled, Creating, ScriptsInv
  <2>2. DOMAIN commands = {}
    BY <2>1
  <2>3. PICK own \in Seq([script : Sources, identifier : Nat]), ss \in Seq(Sources) :
            own = agent.scripts /\ ss = scripts
    BY <2>1, TypeFacts, AgentTyped
  <2>4. PICK m, p : m \in 0..Len(ss) /\ p \in [Rest(ss, m) -> {}] /\ Underway(commands, ss, own, m, p)
    BY <2>1, <2>2, <2>3 DEF Arrive
  <2>5. m = Len(ss)
    <3>1. Rest(ss, m) = {}
      BY <2>4
    <3>2. Len(ss) \in Nat
      OBVIOUS
    <3>3. m \in Nat /\ m <= Len(ss)
      BY <2>4, <3>2
    <3>4. (m + 1)..Len(ss) = {}
      BY <3>1 DEF Rest
    <3>5. CASE m < Len(ss)
      <4>1. m + 1 \in (m + 1)..Len(ss)
        BY <3>2, <3>3, <3>5
      <4> QED BY <3>4, <4>1
    <3> QED BY <3>2, <3>3, <3>5
  <2>6. Len(ss) <= Len(own) /\ \A k \in 1..Len(ss) : own[Len(own) - Len(ss) + k].script = ss[k]
    BY <2>4, <2>5 DEF Underway
  <2>7. PICK t \in Seq(Sources) : /\ t = [i \in DOMAIN own |-> own[i].script] /\ Len(t) = Len(own)
                                  /\ \A i \in 1..Len(own) : t[i] = own[i].script
    <3>1. Len(own) \in Nat /\ DOMAIN own = 1..Len(own)
      OBVIOUS
    <3>2. \A i \in 1..Len(own) : own[i].script \in Sources
      <4>1. ASSUME NEW i \in 1..Len(own) PROVE own[i].script \in Sources
        <5>1. own[i] \in [script : Sources, identifier : Nat]
          BY <2>3, Element
        <5> QED BY <5>1
      <4> QED BY <4>1
    <3>3. PICK f \in [1..Len(own) -> Sources] : f = [i \in 1..Len(own) |-> own[i].script]
      BY <3>2
    <3>4. f \in Seq(Sources) /\ Len(f) = Len(own)
      BY ONLY <3>1, FunctionIsSequence
    <3>5. \A i \in 1..Len(own) : f[i] = own[i].script
      BY <3>3
    <3> QED BY <3>1, <3>3, <3>4, <3>5
  <2>8. ASSUME NEW k \in 1..Len(ss) PROVE t[Len(t) - Len(ss) + k] = ss[k]
    <3>1. Len(own) - Len(ss) + k \in 1..Len(own)
      BY <2>6
    <3> QED BY <2>6, <2>7, <3>1
  <2>9. IsSuffix(ss, t)
    BY <2>6, <2>7, <2>8, SuffixFacts
  <2>10. CASE agent.pageDomain
    BY <2>3, <2>7, <2>9, <2>10 DEF UserScripts
  <2>11. CASE ~agent.pageDomain
    <3>1. scripts = <<>>
      BY <2>2, <2>11 DEF IInv, EnabledInv, Settled, Creating, Before
    <3>2. IsSuffix(<<>>, <<>>)
      <4>1. <<>> \in Seq(Sources) /\ Len(<<>>) = 0
        OBVIOUS
      <4>2. Len(<<>>) <= Len(<<>>)
        BY <4>1
      <4>3. \A k \in 1..Len(<<>>) : <<>>[Len(<<>>) - Len(<<>>) + k] = <<>>[k]
        BY <4>1
      <4> QED BY ONLY <4>1, <4>2, <4>3, SuffixFacts, Zenon
    <3> QED BY <2>11, <3>1, <3>2 DEF UserScripts
  <2> QED BY <2>10, <2>11
<1> QED BY <1>1, Invariance, PTL

-----------------------------------------------------------------------------
(***************************************************************************)
(* Completions.  A call of evaluateJavaScript that is not over has one     *)
(* callback, and its answer is on its way or it is lost.                   *)
(***************************************************************************)
\* The command, the open promise or the result that will answer id.
OnItsWay(id) ==
    \/ browser = "attached" /\ \E i \in DOMAIN commands : commands[i].id = id
    \/ \E e \in awaiting : e.id = id
    \/ \E i \in DOMAIN queue : queue[i].kind = "result" /\ queue[i].id = id

OneCallback ==
    /\ \A id \in DOMAIN evalCallbacks : evals[evalCallbacks[id]].outcome = "pending"
    /\ \A id, jd \in DOMAIN evalCallbacks : evalCallbacks[id] = evalCallbacks[jd] => id = jd
    /\ \A i \in DOMAIN evals : evals[i].outcome = "pending" =>
          \E id \in DOMAIN evalCallbacks : evalCallbacks[id] = i

CallsInv ==
    /\ OneCallback
    /\ \A id \in DOMAIN evalCallbacks : OnItsWay(id) \/ evalCallbacks[id] \in lost
    /\ rawCallbacks \cap DOMAIN evalCallbacks = {}

\* A completion that was called stays as it is.
CalledOnce ==
    \A i \in DOMAIN evals :
        i \in DOMAIN evals' /\ (evals[i].outcome # "pending" => evals'[i] = evals[i])

\* A step that calls no completion and makes no call.
LEMMA SameCalls ==
    ASSUME TInv, CallsInv, UNCHANGED <<evalCallbacks, evals>>,
           \A id \in DOMAIN evalCallbacks : OnItsWay(id)' \/ evalCallbacks[id] \in lost',
           \A id \in rawCallbacks' : id \in rawCallbacks \/ id \notin 1..nextId
    PROVE  CallsInv' /\ CalledOnce
<1>1. OneCallback'
  BY DEF CallsInv, OneCallback
<1>2. (rawCallbacks \cap DOMAIN evalCallbacks = {})'
  <2>1. \A id \in DOMAIN evalCallbacks : id \in 1..nextId /\ id \notin rawCallbacks
    BY TypeFacts DEF CallsInv
  <2> QED BY <2>1
<1>3. (\A id \in DOMAIN evalCallbacks : OnItsWay(id) \/ evalCallbacks[id] \in lost)'
  <2> SUFFICES ASSUME NEW id \in DOMAIN evalCallbacks'
               PROVE  OnItsWay(id)' \/ evalCallbacks'[id] \in lost'
    OBVIOUS
  <2>1. id \in DOMAIN evalCallbacks
    OBVIOUS
  <2> QED BY <2>1
<1>4. CalledOnce
  BY DEF CalledOnce
<1> QED BY <1>1, <1>2, <1>3, <1>4 DEF CallsInv

\* No result is taken from the queue.
KeepsResults ==
    \A i \in DOMAIN queue : queue[i].kind = "result" =>
        \E j \in DOMAIN queue' : queue'[j] = queue[i]

LEMMA AppendKeeps == ASSUME TInv, NEW b \in Blocks, queue' = Append(queue, b) PROVE KeepsResults
BY TypeFacts, AppendFacts DEF KeepsResults

LEMMA ConcatKeeps == ASSUME TInv, NEW bs \in Seq(Blocks), queue' = queue \o bs PROVE KeepsResults
BY TypeFacts, ConcatFacts DEF KeepsResults

LEMMA TailKeeps ==
    ASSUME TInv, queue # <<>>, queue' = Tail(queue), Head(queue).kind # "result"
    PROVE  KeepsResults
<1>1. /\ Head(queue) = queue[1]
      /\ \A i \in DOMAIN queue : i # 1 => i - 1 \in DOMAIN Tail(queue) /\ Tail(queue)[i - 1] = queue[i]
  BY TypeFacts, TailFacts
<1> QED BY <1>1 DEF KeepsResults

LEMMA SentStays ==
    ASSUME TInv, NEW list \in Seq(Requests), Sends(list), UNCHANGED <<browser, awaiting>>, KeepsResults,
           NEW id, OnItsWay(id)
    PROVE  OnItsWay(id)'
<1>1. \A i \in DOMAIN commands : i \in DOMAIN commands' /\ commands'[i] = commands[i]
  BY SentFacts
<1> QED BY <1>1 DEF OnItsWay, KeepsResults

\* A step that sends list, but no evaluation.
LEMMA SendingCalls ==
    ASSUME TInv, CallsInv, NEW list \in Seq(Requests), Sends(list), KeepsResults,
           UNCHANGED <<browser, lost, awaiting, evalCallbacks, evals>>
    PROVE  CallsInv' /\ CalledOnce
<1>1. \A id \in DOMAIN evalCallbacks : OnItsWay(id)' \/ evalCallbacks[id] \in lost'
  BY SentStays DEF CallsInv
<1>2. \A id \in rawCallbacks' : id \in rawCallbacks \/ id \notin 1..nextId
  <2>1. \A k \in DOMAIN list : k \in Nat /\ k > 0
    OBVIOUS
  <2>2. nextId \in Nat
    BY TypeFacts
  <2> QED BY <2>1, <2>2 DEF Sends
<1> QED BY <1>1, <1>2, SameCalls

LEMMA SameKeeps == ASSUME queue' = queue PROVE KeepsResults
BY DEF KeepsResults

LEMMA HostSends ==
    ASSUME TInv, CallsInv,
           \/ \E s \in Sources : AddUserScriptAtDocumentStart(s)
           \/ RemoveAllUserScripts
           \/ \E n \in Names : AddMessageHandlerName(n) \/ RemoveMessageHandlerName(n)
    PROVE  CallsInv' /\ CalledOnce
<1>1. \E list \in Seq(Requests) : Sends(list)
  BY AddUserScriptSends, RemoveAllSends, AddHandlerSends, RemoveHandlerSends
<1>2. UNCHANGED <<browser, lost, awaiting, evalCallbacks, evals>> /\ queue' = queue
  BY DEF AddUserScriptAtDocumentStart, RemoveAllUserScripts, AddMessageHandlerName,
         RemoveMessageHandlerName, agentVars
<1> QED BY <1>1, <1>2, SameKeeps, SendingCalls

LEMMA DidCreateCalls == ASSUME TInv, CallsInv, BrowserDidCreate PROVE CallsInv' /\ CalledOnce
<1>1. PICK list \in Seq(Requests) : Sends(list)
  BY DidCreateSends
<1>2. /\ UNCHANGED <<browser, lost, awaiting, evalCallbacks, evals>>
      /\ queue # <<>> /\ queue' = Tail(queue) /\ Head(queue).kind # "result"
  BY DEF BrowserDidCreate, agentVars
<1> QED BY <1>1, <1>2, TailKeeps, SendingCalls

LEMMA EvaluateCalls ==
    ASSUME TInv, CallsInv, NEW p \in Programs, EvaluateJavaScript(p)
    PROVE  CallsInv' /\ CalledOnce
<1>1. PICK list \in Seq(Requests) :
          Sends(list) /\ IF HasBrowser THEN list = <<Command("evaluate", p)>> ELSE list = <<>>
  BY EvaluateSends
<1>2. /\ UNCHANGED browser /\ awaiting' = awaiting /\ queue' = queue
      /\ nextId \in Nat /\ Len(evals) \in Nat /\ DOMAIN evals = 1..Len(evals)
      /\ \A id \in DOMAIN evalCallbacks : id \in 1..nextId /\ evalCallbacks[id] \in DOMAIN evals
  BY TypeFacts DEF EvaluateJavaScript, agentVars
<1>3. KeepsResults
  BY <1>2, SameKeeps
<1>4. CalledOnce
  BY EvaluateFacts DEF CalledOnce
<1>5. /\ DOMAIN evals' = DOMAIN evals \cup {Len(evals) + 1}
      /\ evals'[Len(evals) + 1].outcome = IF HasBrowser THEN "pending" ELSE "error"
      /\ \A i \in DOMAIN evals : evals'[i] = evals[i]
  BY EvaluateFacts
<1>6. rawCallbacks' = rawCallbacks
  <2>1. \A k \in DOMAIN list : list[k].method # "addScript"
    <3>1. CASE HasBrowser
      <4>1. list = <<Command("evaluate", p)>> /\ DOMAIN <<Command("evaluate", p)>> = {1}
        BY <1>1, <3>1
      <4> QED BY <4>1, CommandFields
    <3>2. CASE ~HasBrowser
      BY <1>1, <3>2
    <3> QED BY <3>1, <3>2
  <2> QED BY <1>1, <2>1 DEF Sends
<1>7. CASE HasBrowser
  <2>1. /\ DOMAIN evalCallbacks' = DOMAIN evalCallbacks \cup {nextId + 1}
        /\ evalCallbacks'[nextId + 1] = Len(evals) + 1
        /\ \A id \in DOMAIN evalCallbacks : evalCallbacks'[id] = evalCallbacks[id]
    BY <1>7, EvaluateFacts
  <2>2. OneCallback'
    <3>1. \A id \in DOMAIN evalCallbacks' : evals'[evalCallbacks'[id]].outcome = "pending"
      BY <1>2, <1>5, <1>7, <2>1 DEF CallsInv, OneCallback
    <3>2. \A id, jd \in DOMAIN evalCallbacks' : evalCallbacks'[id] = evalCallbacks'[jd] => id = jd
      BY <1>2, <2>1 DEF CallsInv, OneCallback
    <3>3. \A i \in DOMAIN evals' : evals'[i].outcome = "pending" =>
              \E id \in DOMAIN evalCallbacks' : evalCallbacks'[id] = i
      BY <1>2, <1>5, <2>1 DEF CallsInv, OneCallback
    <3> QED BY <3>1, <3>2, <3>3 DEF OneCallback
  <2>3. \A id \in DOMAIN evalCallbacks : OnItsWay(id)' \/ evalCallbacks[id] \in lost'
    BY <1>1, <1>2, <1>3, SentStays, EvaluateLoses DEF CallsInv
  <2>4. PICK new : new = nextId + 1
    OBVIOUS
  <2>5. ASSUME browser = "attached" PROVE OnItsWay(new)'
    <3>1. list = <<Command("evaluate", p)>> /\ 1 \in DOMAIN <<Command("evaluate", p)>>
      BY <1>1, <1>7
    <3>2. Len(commands) + 1 \in DOMAIN commands' /\ commands'[Len(commands) + 1].id = new
      BY <1>1, <2>4, <3>1, SentFacts
    <3>3. browser' = "attached"
      BY <1>2, <2>5
    <3> QED BY <3>2, <3>3 DEF OnItsWay
  <2>6. ASSUME browser = "unowned" PROVE evalCallbacks'[new] \in lost'
    BY <2>1, <2>4, <2>6, EvaluateLoses
  <2>7. OnItsWay(new)' \/ evalCallbacks'[new] \in lost'
    BY <1>7, <2>5, <2>6 DEF HasBrowser
  <2>8. \A id \in DOMAIN evalCallbacks' : OnItsWay(id)' \/ evalCallbacks'[id] \in lost'
    <3>1. \A id \in DOMAIN evalCallbacks' : id \in DOMAIN evalCallbacks \/ id = new
      BY <2>1, <2>4
    <3> QED BY <2>1, <2>3, <2>7, <3>1
  <2>9. rawCallbacks' \cap DOMAIN evalCallbacks' = {}
    BY <1>2, <1>6, <2>1, TypeFacts DEF CallsInv
  <2> QED BY <1>2, <1>4, <1>7, <2>2, <2>8, <2>9 DEF CallsInv
<1>8. CASE ~HasBrowser
  <2>1. evalCallbacks' = evalCallbacks
    BY <1>8, EvaluateFacts
  <2>2. OneCallback'
    BY <1>2, <1>5, <1>8, <2>1 DEF CallsInv, OneCallback
  <2>3. \A id \in DOMAIN evalCallbacks : OnItsWay(id)' \/ evalCallbacks[id] \in lost'
    BY <1>1, <1>2, <1>3, SentStays, EvaluateLoses DEF CallsInv
  <2> QED BY <1>4, <1>6, <2>1, <2>2, <2>3 DEF CallsInv
<1> QED BY <1>7, <1>8

LEMMA BrowserCalls == ASSUME TInv, CallsInv, OnAfterCreated \/ OnBeforeClose PROVE CallsInv' /\ CalledOnce
<1>1. lost' = lost \cup Unanswered /\ UNCHANGED <<viewVars, evals>>
  BY BrowserLoses
<1>2. KeepsResults
  BY OnAfterCreatedFacts, OnBeforeCloseFacts, AppendKeeps, SameKeeps
<1>3. ASSUME NEW id \in DOMAIN evalCallbacks PROVE OnItsWay(id)' \/ evalCallbacks[id] \in lost'
  <2>1. CASE \E i \in DOMAIN queue : queue[i].kind = "result" /\ queue[i].id = id
    BY <1>2, <2>1 DEF OnItsWay, KeepsResults
  <2>2. CASE ~\E i \in DOMAIN queue : queue[i].kind = "result" /\ queue[i].id = id
    BY <1>1, <2>2 DEF Unanswered
  <2> QED BY <2>1, <2>2
<1> QED BY <1>1, <1>3, SameCalls DEF viewVars

\* A step that leaves what is on its way there.
LEMMA StillComing ==
    ASSUME TInv, CallsInv, UNCHANGED <<lost, viewVars, evals>>, \A id : OnItsWay(id) => OnItsWay(id)'
    PROVE  CallsInv' /\ CalledOnce
<1>1. \A id \in DOMAIN evalCallbacks : OnItsWay(id)' \/ evalCallbacks[id] \in lost'
  BY DEF CallsInv
<1> QED BY <1>1, SameCalls DEF viewVars

LEMMA KeptStays ==
    ASSUME KeepsResults, UNCHANGED <<browser, commands, awaiting>> PROVE \A id : OnItsWay(id) => OnItsWay(id)'
BY DEF OnItsWay, KeepsResults

LEMMA MessageCalls ==
    ASSUME TInv, CallsInv, OnDevToolsEvent \/ \E n \in Names : PostMessage(n)
    PROVE  CallsInv' /\ CalledOnce
<1>1. CASE OnDevToolsEvent
  <2>1. /\ queue # <<>> /\ queue' = Tail(queue) /\ Head(queue).kind # "result"
        /\ UNCHANGED <<browser, viewVars, commands, agentVars, evals>>
    BY <1>1, EventFacts
  <2> QED BY <1>1, <2>1, TailKeeps, KeptStays, LostStays, StillComing DEF agentVars
<1>2. ASSUME NEW n \in Names, PostMessage(n) PROVE CallsInv' /\ CalledOnce
  <2>1. (\E b \in Blocks : queue' = Append(queue, b)) /\ UNCHANGED <<browser, viewVars, commands, agentVars, evals>>
    BY <1>2, PostMessageFacts
  <2> QED BY <1>2, <2>1, AppendKeeps, KeptStays, LostStays, StillComing DEF agentVars
<1> QED BY <1>1, <1>2

LEMMA AgentExecutesCalls == ASSUME TInv, CallsInv, AgentExecutes PROVE CallsInv' /\ CalledOnce
<1> DEFINE c == Head(commands)
<1>1. /\ commands # <<>> /\ commands' = Tail(commands) /\ UNCHANGED <<browser, viewVars, evals>>
      /\ browser = "attached"
      /\ c.method = "evaluate" =>
            queue' = queue /\ awaiting' = awaiting \cup {[id |-> c.id, program |-> c.arg]}
      /\ c.method # "evaluate" =>
            /\ awaiting' = awaiting
            /\ \E b \in Blocks : queue' = Append(queue, b) /\ b.kind = "result" /\ b.id = c.id
  BY AgentExecutesFacts
<1>2. /\ c = commands[1]
      /\ \A i \in DOMAIN commands : i # 1 => i - 1 \in DOMAIN commands' /\ commands'[i - 1] = commands[i]
  BY <1>1, TypeFacts, TailFacts
<1> HIDE DEF c
<1>3. ASSUME NEW id, OnItsWay(id) PROVE OnItsWay(id)'
  <2>1. ASSUME NEW i \in DOMAIN commands, commands[i].id = id, i # 1 PROVE OnItsWay(id)'
    BY <1>1, <1>2, <2>1 DEF OnItsWay
  <2>2. CASE c.method = "evaluate"
    <3>1. CASE id = c.id
      <4>1. [id |-> c.id, program |-> c.arg].id = id
        BY <3>1
      <4> QED BY <1>1, <2>2, <4>1 DEF OnItsWay
    <3>2. CASE id # c.id
      <4>1. queue' = queue /\ awaiting \subseteq awaiting'
        BY <1>1, <2>2
      <4> QED BY <1>2, <1>3, <2>1, <3>2, <4>1 DEF OnItsWay
    <3> QED BY <3>1, <3>2
  <2>3. CASE c.method # "evaluate"
    <3>1. PICK b \in Blocks : queue' = Append(queue, b) /\ b.kind = "result" /\ b.id = c.id
      BY <1>1, <2>3
    <3>2. /\ Len(queue) + 1 \in DOMAIN queue' /\ queue'[Len(queue) + 1] = b
          /\ \A i \in DOMAIN queue : i \in DOMAIN queue' /\ queue'[i] = queue[i]
      BY <3>1, TypeFacts, AppendFacts
    <3>3. CASE id = c.id
      BY <3>1, <3>2, <3>3 DEF OnItsWay
    <3>4. CASE id # c.id
      BY <1>1, <1>2, <1>3, <2>1, <2>3, <3>2, <3>4 DEF OnItsWay
    <3> QED BY <3>3, <3>4
  <2> QED BY <2>2, <2>3
<1> QED BY <1>1, <1>3, LostStays, StillComing

LEMMA SettlesCalls ==
    ASSUME TInv, CallsInv, NEW e \in awaiting, EvaluationSettles(e) PROVE CallsInv' /\ CalledOnce
<1>1. PICK b \in Blocks : queue' = Append(queue, b) /\ b.kind = "result" /\ b.id = e.id
  BY SettlesFacts
<1>2. awaiting' = awaiting \ {e} /\ UNCHANGED <<browser, viewVars, commands, evals>>
  BY SettlesFacts
<1>3. /\ Len(queue) + 1 \in DOMAIN queue' /\ queue'[Len(queue) + 1] = b
      /\ \A i \in DOMAIN queue : i \in DOMAIN queue' /\ queue'[i] = queue[i]
  BY <1>1, TypeFacts, AppendFacts
<1>4. ASSUME NEW id, OnItsWay(id) PROVE OnItsWay(id)'
  <2>1. CASE id = e.id
    BY <1>1, <1>3, <2>1 DEF OnItsWay
  <2>2. CASE id # e.id
    BY <1>2, <1>3, <1>4, <2>2 DEF OnItsWay
  <2> QED BY <2>1, <2>2
<1> QED BY <1>2, <1>4, LostStays, StillComing

LEMMA NavigateCalls == ASSUME TInv, CallsInv, Navigate PROVE CallsInv' /\ CalledOnce
<1>1. PICK failed \in Seq(Blocks) :
          /\ queue' = queue \o failed
          /\ \A i \in DOMAIN failed : failed[i].kind = "result"
          /\ \A e \in awaiting : \E i \in DOMAIN failed : failed[i].id = e.id
  BY NavigateFacts
<1>2. UNCHANGED <<browser, viewVars, commands, evals>>
  BY NavigateFacts
<1>3. /\ \A i \in DOMAIN failed : Len(queue) + i \in DOMAIN queue' /\ queue'[Len(queue) + i] = failed[i]
      /\ \A i \in DOMAIN queue : i \in DOMAIN queue' /\ queue'[i] = queue[i]
  <2>1. queue \in Seq(Blocks) /\ queue' = queue \o failed
    BY <1>1, TypeFacts
  <2> QED BY <2>1, ConcatFacts
<1>4. ASSUME NEW id, OnItsWay(id) PROVE OnItsWay(id)'
  <2>1. ASSUME NEW e \in awaiting, e.id = id PROVE OnItsWay(id)'
    <3>1. PICK i \in DOMAIN failed : failed[i].id = id /\ failed[i].kind = "result"
      BY <1>1, <2>1
    <3> QED BY <1>3, <3>1 DEF OnItsWay
  <2> QED BY <1>2, <1>3, <1>4, <2>1 DEF OnItsWay
<1> QED BY <1>2, <1>4, LostStays, StillComing

\* A result is for a raw callback, for nobody, or for one completion.
LEMMA ResultCalls ==
    ASSUME TInv, ResultsAnswer, CallsInv, OnDevToolsResult PROVE CallsInv' /\ CalledOnce
<1> DEFINE b == Head(queue)
<1>1. /\ queue # <<>> /\ b.kind = "result" /\ queue' = Tail(queue)
      /\ UNCHANGED <<browser, lost, nextId, commands, awaiting>>
      /\ RawResult(b) \/ EvalResult(b)
  BY DEF OnDevToolsResult, agentVars
<1>2. /\ b = queue[1] /\ 1 \in DOMAIN queue
      /\ \A i \in DOMAIN queue : i # 1 => i - 1 \in DOMAIN queue' /\ queue'[i - 1] = queue[i]
  BY <1>1, TypeFacts, TailFacts
<1>3. rawCallbacks' \subseteq rawCallbacks
  BY ResultFacts
<1> HIDE DEF b
<1>4. ASSUME NEW id, OnItsWay(id), id # b.id PROVE OnItsWay(id)'
  BY <1>1, <1>2, <1>4 DEF OnItsWay
<1>5. CASE b.id \notin DOMAIN evalCallbacks
  <2>1. UNCHANGED <<evalCallbacks, evals>>
    BY <1>1, <1>5 DEF RawResult, EvalResult
  <2>2. \A id \in DOMAIN evalCallbacks : OnItsWay(id)' \/ evalCallbacks[id] \in lost'
    BY <1>1, <1>4, <1>5 DEF CallsInv
  <2> QED BY <1>1, <1>3, <2>1, <2>2, SameCalls
<1>6. CASE b.id \in DOMAIN evalCallbacks
  <2>1. b.id \notin rawCallbacks
    BY <1>6 DEF CallsInv
  <2>2. PICK k \in DOMAIN evals : k = evalCallbacks[b.id]
    BY <1>6, TypeFacts
  <2>3. evals' = [evals EXCEPT ![k].outcome = Completion(b.reply)] /\ evalCallbacks' = Forget(b.id)
    BY <1>1, <1>6, <2>1, <2>2 DEF RawResult, EvalResult
  <2>4. /\ DOMAIN evalCallbacks' = DOMAIN evalCallbacks \ {b.id}
        /\ \A id \in DOMAIN evalCallbacks' : evalCallbacks'[id] = evalCallbacks[id]
    BY <2>3 DEF Forget
  <2>5. DOMAIN evals' = DOMAIN evals /\ \A i \in DOMAIN evals : i # k => evals'[i] = evals[i]
    BY <2>3
  <2>6. evals[k].outcome = "pending"
    BY <1>6, <2>2 DEF CallsInv, OneCallback
  <2>7. evals'[k].outcome # "pending"
    <3>1. evals[k] \in EvalRecord
      BY TypeFacts
    <3>2. evals'[k] = [evals[k] EXCEPT !.outcome = Completion(b.reply)]
      BY <2>3
    <3>3. evals'[k].outcome = Completion(b.reply)
      BY <3>1, <3>2 DEF EvalRecord
    <3>4. b.reply = <<>> \/ b.reply = Answer(Awaited(b.id))
      BY <1>1, <1>2, <1>6 DEF ResultsAnswer
    <3>5. Awaited(b.id) \in Programs
      BY <2>2, <3>1 DEF Awaited, EvalRecord
    <3>6. Completion(b.reply) # "pending"
      BY <3>4, <3>5, CompletionOfAnswer
    <3> QED BY <3>3, <3>6
  <2>8. OneCallback'
    <3>1. \A id \in DOMAIN evalCallbacks' : evals'[evalCallbacks'[id]].outcome = "pending"
      <4>1. \A id \in DOMAIN evalCallbacks' : evalCallbacks[id] # k /\ evalCallbacks[id] \in DOMAIN evals
        BY <1>6, <2>2, <2>4, TypeFacts DEF CallsInv, OneCallback
      <4> QED BY <2>4, <2>5, <4>1 DEF CallsInv, OneCallback
    <3>2. \A id, jd \in DOMAIN evalCallbacks' : evalCallbacks'[id] = evalCallbacks'[jd] => id = jd
      BY <2>4 DEF CallsInv, OneCallback
    <3>3. \A i \in DOMAIN evals' : evals'[i].outcome = "pending" =>
              \E id \in DOMAIN evalCallbacks' : evalCallbacks'[id] = i
      BY <2>2, <2>4, <2>5, <2>7 DEF CallsInv, OneCallback
    <3> QED BY <3>1, <3>2, <3>3 DEF OneCallback
  <2>9. CalledOnce
    BY <2>5, <2>6 DEF CalledOnce
  <2>10. \A id \in DOMAIN evalCallbacks' : OnItsWay(id)' \/ evalCallbacks'[id] \in lost'
    BY <1>1, <1>4, <2>4 DEF CallsInv
  <2>11. rawCallbacks' \cap DOMAIN evalCallbacks' = {}
    BY <1>3, <2>4 DEF CallsInv
  <2> QED BY <2>8, <2>9, <2>10, <2>11 DEF CallsInv
<1> QED BY <1>5, <1>6

LEMMA InitCalls == Init => CallsInv
<1> SUFFICES ASSUME Init PROVE CallsInv
  OBVIOUS
<1>1. DOMAIN evals = {} /\ DOMAIN evalCallbacks = {} /\ browser = "none"
  BY DEF Init
<1> QED BY <1>1 DEF CallsInv, OneCallback

LEMMA StutterCalls == ASSUME CallsInv, UNCHANGED vars PROVE CallsInv' /\ CalledOnce
BY DEF CallsInv, OneCallback, CalledOnce, OnItsWay, vars, viewVars, agentVars

LEMMA StepCalls ==
    ASSUME TInv, ResultsAnswer, CallsInv, [Next]_vars PROVE CallsInv' /\ CalledOnce
<1>1. CASE HostCalls
  BY <1>1, HostSends, EvaluateCalls DEF HostCalls
<1>2. CASE OnAfterCreated \/ OnBeforeClose
  BY <1>2, BrowserCalls
<1>3. CASE BrowserDidCreate \/ OnDevToolsResult \/ OnDevToolsEvent
  BY <1>3, DidCreateCalls, ResultCalls, MessageCalls
<1>4. CASE AgentExecutes \/ \E e \in awaiting : EvaluationSettles(e)
  BY <1>4, AgentExecutesCalls, SettlesCalls
<1>5. CASE Navigate \/ \E n \in Names : PostMessage(n)
  BY <1>5, NavigateCalls, MessageCalls
<1>6. CASE UNCHANGED vars
  BY <1>6, StutterCalls
<1> QED BY <1>1, <1>2, <1>3, <1>4, <1>5, <1>6 DEF Next

THEOREM CallsInvariance == Spec => []CallsInv
<1>1. Init => CallsInv
  BY InitCalls
<1>2. IInv /\ CallsInv /\ [Next]_vars => CallsInv'
  BY StepCalls DEF IInv, AnswerInv
<1> QED BY <1>1, <1>2, Invariance, PTL DEF Spec

\* _onDevToolsResult takes the callback out before it calls it: whatever else is
\* answered, executed, navigated to or closed, a completion is called once at
\* most, and what it was told stays.
THEOREM CompletionsCalledOnce == Spec => [][CalledOnce]_vars
<1>1. IInv /\ CallsInv /\ [Next]_vars => [CalledOnce]_vars
  BY StepCalls DEF IInv, AnswerInv
<1> QED BY <1>1, Invariance, CallsInvariance, PTL DEF Spec

\* The safety half of EvalCompletesWhileOpen: a call of evaluateJavaScript that is
\* not over and whose browser's observer did not go before its answer has an answer
\* to come, also across navigations, which fail the promises that are open.
THEOREM AnswersAreComing ==
    Spec => [](\A i \in Waiting : \E id \in DOMAIN evalCallbacks : evalCallbacks[id] = i /\ OnItsWay(id))
<1>1. CallsInv => \A i \in Waiting : \E id \in DOMAIN evalCallbacks : evalCallbacks[id] = i /\ OnItsWay(id)
  BY DEF CallsInv, OneCallback, Waiting
<1> QED BY <1>1, CallsInvariance, PTL

-----------------------------------------------------------------------------
(***************************************************************************)
(* Deliveries.  The messages that are not over are the events on the       *)
(* queue, in the order in which the page posted them.                      *)
(***************************************************************************)
EventsInv ==
    /\ \A i, j \in DOMAIN queue : i < j /\ queue[i].kind = "event" /\ queue[j].kind = "event" =>
          queue[i].id < queue[j].id
    /\ \A i \in DOMAIN queue : queue[i].kind = "event" => posts[queue[i].id].outcome = "posted"
    /\ \A k \in DOMAIN posts : posts[k].outcome = "posted" =>
          \E i \in DOMAIN queue : queue[i].kind = "event" /\ queue[i].id = k
    /\ \A k, l \in DOMAIN posts : k < l /\ posts[l].outcome # "posted" => posts[k].outcome # "posted"

\* A message that was handled or ignored stays so.
HandledOnce ==
    \A k \in DOMAIN posts :
        k \in DOMAIN posts' /\ (posts[k].outcome # "posted" => posts'[k].outcome = posts[k].outcome)

\* The events of the queue stay, d places further ahead, and none is added.
Shifted(d) ==
    /\ \A i \in DOMAIN queue' : queue'[i].kind = "event" =>
          i + d \in DOMAIN queue /\ queue'[i] = queue[i + d]
    /\ \A i \in DOMAIN queue : queue[i].kind = "event" =>
          i - d \in DOMAIN queue' /\ queue'[i - d] = queue[i]

LEMMA SameEvents ==
    ASSUME TInv, EventsInv, NEW d \in {0, 1}, Shifted(d), TInv',
           DOMAIN posts' = DOMAIN posts, \A k \in DOMAIN posts : posts'[k].outcome = posts[k].outcome
    PROVE  EventsInv' /\ HandledOnce
<1>1. /\ DOMAIN queue = 1..Len(queue) /\ Len(queue) \in Nat
      /\ DOMAIN queue' = 1..Len(queue') /\ Len(queue') \in Nat
      /\ \A i \in DOMAIN queue : queue[i].kind = "event" => queue[i].id \in DOMAIN posts
  <2>1. queue \in Seq(Blocks) /\ queue' \in Seq(Blocks)
    BY TypeFacts DEF TInv, RecordTypes
  <2> QED BY <2>1, TypeFacts
<1>2. \A i, j \in DOMAIN queue' : i < j /\ queue'[i].kind = "event" /\ queue'[j].kind = "event" =>
          queue'[i].id < queue'[j].id
  <2> SUFFICES ASSUME NEW i \in DOMAIN queue', NEW j \in DOMAIN queue', i < j,
                      queue'[i].kind = "event", queue'[j].kind = "event"
               PROVE  queue'[i].id < queue'[j].id
    OBVIOUS
  <2>1. i + d \in DOMAIN queue /\ queue'[i] = queue[i + d]
    BY DEF Shifted
  <2>2. j + d \in DOMAIN queue /\ queue'[j] = queue[j + d]
    BY DEF Shifted
  <2>3. i \in Nat /\ j \in Nat /\ d \in Nat
    BY <1>1
  <2>4. i + d < j + d
    BY <2>3
  <2> QED BY <2>1, <2>2, <2>4 DEF EventsInv
<1>3. \A i \in DOMAIN queue' : queue'[i].kind = "event" => posts'[queue'[i].id].outcome = "posted"
  BY <1>1 DEF EventsInv, Shifted
<1>4. \A k \in DOMAIN posts' : posts'[k].outcome = "posted" =>
          \E i \in DOMAIN queue' : queue'[i].kind = "event" /\ queue'[i].id = k
  <2> SUFFICES ASSUME NEW k \in DOMAIN posts, posts[k].outcome = "posted"
               PROVE  \E i \in DOMAIN queue' : queue'[i].kind = "event" /\ queue'[i].id = k
    OBVIOUS
  <2>1. PICK i \in DOMAIN queue : queue[i].kind = "event" /\ queue[i].id = k
    BY DEF EventsInv
  <2> QED BY <2>1 DEF Shifted
<1>5. \A k, l \in DOMAIN posts' : k < l /\ posts'[l].outcome # "posted" => posts'[k].outcome # "posted"
  BY DEF EventsInv
<1>6. HandledOnce
  BY DEF HandledOnce
<1> QED BY <1>2, <1>3, <1>4, <1>5, <1>6 DEF EventsInv

LEMMA AppendShifts ==
    ASSUME TInv, NEW b \in Blocks, b.kind # "event", queue' = Append(queue, b) PROVE Shifted(0)
<1>1. \A i \in DOMAIN queue : i \in DOMAIN queue' /\ queue'[i] = queue[i] /\ i \in Int
  BY TypeFacts, AppendFacts
<1>2. \A i \in DOMAIN queue' : i \in DOMAIN queue \/ queue'[i] = b
  BY TypeFacts, AppendFacts
<1> QED BY <1>1, <1>2 DEF Shifted

LEMMA ConcatShifts ==
    ASSUME TInv, NEW bs \in Seq(Blocks), \A i \in DOMAIN bs : bs[i].kind # "event", queue' = queue \o bs
    PROVE  Shifted(0)
<1>0. queue \in Seq(Blocks)
  BY TypeFacts
<1>1. \A i \in DOMAIN queue : i \in DOMAIN queue' /\ queue'[i] = queue[i] /\ i \in Int
  BY <1>0, ConcatFacts
<1>2. \A i \in DOMAIN queue' : i \in DOMAIN queue \/ \E k \in DOMAIN bs : queue'[i] = bs[k]
  BY <1>0, ConcatFacts
<1> QED BY <1>1, <1>2 DEF Shifted

LEMMA TailShifts ==
    ASSUME TInv, queue # <<>>, Head(queue).kind # "event", queue' = Tail(queue) PROVE Shifted(1)
<1>1. /\ Head(queue) = queue[1]
      /\ \A i \in DOMAIN Tail(queue) : i + 1 \in DOMAIN queue /\ Tail(queue)[i] = queue[i + 1]
      /\ \A i \in DOMAIN queue : i # 1 => i - 1 \in DOMAIN Tail(queue) /\ Tail(queue)[i - 1] = queue[i]
  BY TypeFacts, TailFacts
<1> QED BY <1>1 DEF Shifted

LEMMA SameShifts == ASSUME TInv, queue' = queue PROVE Shifted(0)
<1>1. \A i \in DOMAIN queue : i \in Int
  BY TypeFacts
<1> QED BY <1>1 DEF Shifted

LEMMA HostEvents == ASSUME TInv, TInv', EventsInv, HostCalls PROVE EventsInv' /\ HandledOnce
<1>1. queue' = queue
  BY DEF HostCalls, AddUserScriptAtDocumentStart, RemoveAllUserScripts, AddMessageHandlerName,
         RemoveMessageHandlerName, EvaluateJavaScript
<1>2. DOMAIN posts' = DOMAIN posts /\ \A k \in DOMAIN posts : posts'[k].outcome = posts[k].outcome
  <2>1. CASE posts' = posts
    BY <2>1
  <2>2. ASSUME NEW n \in Names, RemoveMessageHandlerName(n)
        PROVE  DOMAIN posts' = DOMAIN posts /\ \A k \in DOMAIN posts : posts'[k].outcome = posts[k].outcome
    <3>1. posts' = Orphaned(n)
      BY <2>2 DEF RemoveMessageHandlerName
    <3>2. posts \in Seq(PostRecord)
      BY TypeFacts
    <3> QED BY <3>1, <3>2, OrphanedFacts
  <2> QED BY <2>1, <2>2 DEF HostCalls, AddUserScriptAtDocumentStart, RemoveAllUserScripts,
                            AddMessageHandlerName, EvaluateJavaScript
<1> QED BY <1>1, <1>2, SameShifts, SameEvents

\* A step that appends a block of another kind.
LEMMA OtherEvents ==
    ASSUME TInv, TInv', EventsInv,
           \/ OnAfterCreated \/ OnBeforeClose \/ BrowserDidCreate \/ OnDevToolsResult
           \/ AgentExecutes \/ (\E e \in awaiting : EvaluationSettles(e)) \/ Navigate
    PROVE  EventsInv' /\ HandledOnce
<1>1. posts' = posts
  BY DEF OnAfterCreated, OnBeforeClose, BrowserDidCreate, OnDevToolsResult, AgentExecutes,
         EvaluationSettles, Navigate
<1>2. CASE OnAfterCreated
  <2>1. queue' = queue \/ \E b \in Blocks : queue' = Append(queue, b) /\ b.kind = "didCreate"
    BY <1>2, OnAfterCreatedFacts
  <2>2. Shifted(0)
    BY <2>1, SameShifts, AppendShifts
  <2> QED BY <1>1, <2>2, SameEvents
<1>3. CASE OnBeforeClose
  <2>1. queue' = queue
    BY <1>3, OnBeforeCloseFacts
  <2> QED BY <1>1, <2>1, SameShifts, SameEvents
<1>4. CASE BrowserDidCreate \/ OnDevToolsResult
  <2>1. queue # <<>> /\ Head(queue).kind # "event" /\ queue' = Tail(queue)
    BY <1>4 DEF BrowserDidCreate, OnDevToolsResult
  <2> QED BY <1>1, <2>1, TailShifts, SameEvents
<1>5. CASE AgentExecutes
  <2>1. queue' = queue \/ \E b \in Blocks : queue' = Append(queue, b) /\ b.kind = "result"
    BY <1>5, AgentExecutesFacts
  <2>2. Shifted(0)
    BY <2>1, SameShifts, AppendShifts
  <2> QED BY <1>1, <2>2, SameEvents
<1>6. CASE \E e \in awaiting : EvaluationSettles(e)
  <2>1. \E b \in Blocks : queue' = Append(queue, b) /\ b.kind = "result"
    BY <1>6, SettlesFacts
  <2> QED BY <1>1, <2>1, AppendShifts, SameEvents
<1>7. CASE Navigate
  <2>1. PICK failed \in Seq(Blocks) :
            queue' = queue \o failed /\ \A i \in DOMAIN failed : failed[i].kind = "result"
    BY <1>7, NavigateFacts
  <2>2. Shifted(0)
    BY <2>1, ConcatShifts
  <2> QED BY <1>1, <2>2, SameEvents
<1> QED BY <1>2, <1>3, <1>4, <1>5, <1>6, <1>7

LEMMA PostMessageEvents ==
    ASSUME TInv, EventsInv, NEW n \in Names, PostMessage(n) PROVE EventsInv' /\ HandledOnce
<1>1. /\ posts'[Len(posts) + 1].outcome = "posted"
      /\ \A k \in DOMAIN posts : k \in DOMAIN posts' /\ posts'[k] = posts[k]
      /\ \A k \in DOMAIN posts' : k \in DOMAIN posts \/ k = Len(posts) + 1
  BY PostMessageFacts
<1>2. PICK b \in Blocks : queue' = Append(queue, b) /\ b.kind = "event" /\ b.id = Len(posts) + 1
  BY PostMessageFacts
<1>3. /\ Len(queue) + 1 \in DOMAIN queue' /\ queue'[Len(queue) + 1] = b
      /\ \A i \in DOMAIN queue : i \in DOMAIN queue' /\ queue'[i] = queue[i]
      /\ \A i \in DOMAIN queue' : i \in DOMAIN queue \/ i = Len(queue) + 1
      /\ DOMAIN queue = 1..Len(queue) /\ Len(queue) \in Nat
      /\ DOMAIN posts = 1..Len(posts) /\ Len(posts) \in Nat
  BY <1>2, TypeFacts, AppendFacts
<1>4. \A i \in DOMAIN queue : queue[i].kind = "event" => queue[i].id \in 1..Len(posts)
  BY <1>3, TypeFacts
<1>5. \A i, j \in DOMAIN queue' : i < j /\ queue'[i].kind = "event" /\ queue'[j].kind = "event" =>
          queue'[i].id < queue'[j].id
  <2> SUFFICES ASSUME NEW i \in DOMAIN queue', NEW j \in DOMAIN queue', i < j,
                      queue'[i].kind = "event", queue'[j].kind = "event"
               PROVE  queue'[i].id < queue'[j].id
    OBVIOUS
  <2>1. i \in DOMAIN queue /\ queue'[i] = queue[i]
    BY <1>3
  <2>2. CASE j \in DOMAIN queue
    BY <1>3, <2>1, <2>2 DEF EventsInv
  <2>3. CASE j = Len(queue) + 1
    BY <1>2, <1>3, <1>4, <2>1, <2>3
  <2> QED BY <1>3, <2>2, <2>3
<1>6. \A i \in DOMAIN queue' : queue'[i].kind = "event" => posts'[queue'[i].id].outcome = "posted"
  BY <1>1, <1>2, <1>3, <1>4 DEF EventsInv
<1>7. \A k \in DOMAIN posts' : posts'[k].outcome = "posted" =>
          \E i \in DOMAIN queue' : queue'[i].kind = "event" /\ queue'[i].id = k
  <2> SUFFICES ASSUME NEW k \in DOMAIN posts', posts'[k].outcome = "posted"
               PROVE  \E i \in DOMAIN queue' : queue'[i].kind = "event" /\ queue'[i].id = k
    OBVIOUS
  <2>1. CASE k \in DOMAIN posts
    <3>1. PICK i \in DOMAIN queue : queue[i].kind = "event" /\ queue[i].id = k
      BY <1>1, <2>1 DEF EventsInv
    <3> QED BY <1>3, <3>1
  <2>2. CASE k = Len(posts) + 1
    BY <1>2, <1>3, <2>2
  <2> QED BY <1>1, <2>1, <2>2
<1>8. \A k, l \in DOMAIN posts' : k < l /\ posts'[l].outcome # "posted" => posts'[k].outcome # "posted"
  BY <1>1, <1>3 DEF EventsInv
<1>9. HandledOnce
  BY <1>1 DEF HandledOnce
<1> QED BY <1>5, <1>6, <1>7, <1>8, <1>9 DEF EventsInv

LEMMA EventEvents == ASSUME TInv, EventsInv, OnDevToolsEvent PROVE EventsInv' /\ HandledOnce
<1>1. PICK h \in DOMAIN posts :
          /\ queue # <<>> /\ queue' = Tail(queue) /\ Head(queue).kind = "event"
          /\ h = Head(queue).id /\ posts'[h].outcome \in {"ignored", "handled"}
          /\ DOMAIN posts' = DOMAIN posts
          /\ \A k \in DOMAIN posts : k # h => posts'[k] = posts[k]
  BY EventFacts
<1>2. /\ Head(queue) = queue[1] /\ 1 \in DOMAIN queue
      /\ \A i \in DOMAIN queue' : i + 1 \in DOMAIN queue /\ queue'[i] = queue[i + 1]
      /\ \A i \in DOMAIN queue : i # 1 => i - 1 \in DOMAIN queue' /\ queue'[i - 1] = queue[i]
  BY <1>1, TypeFacts, TailFacts
<1>3. /\ DOMAIN queue = 1..Len(queue) /\ Len(queue) \in Nat
      /\ DOMAIN posts = 1..Len(posts) /\ Len(posts) \in Nat
      /\ \A i \in DOMAIN queue' : i \in Nat /\ i > 0
      /\ \A i \in DOMAIN queue : queue[i].kind = "event" => queue[i].id \in 1..Len(posts)
  <2>1. queue' \in Seq(Blocks)
    BY <1>1, TypeFacts, TailFacts
  <2> QED BY <2>1, TypeFacts
<1>4. \A i \in DOMAIN queue : i # 1 /\ queue[i].kind = "event" => queue[i].id > h
  BY <1>1, <1>2, <1>3 DEF EventsInv
<1>5. \A i, j \in DOMAIN queue' : i < j /\ queue'[i].kind = "event" /\ queue'[j].kind = "event" =>
          queue'[i].id < queue'[j].id
  <2> SUFFICES ASSUME NEW i \in DOMAIN queue', NEW j \in DOMAIN queue', i < j,
                      queue'[i].kind = "event", queue'[j].kind = "event"
               PROVE  queue'[i].id < queue'[j].id
    OBVIOUS
  <2>1. /\ i + 1 \in DOMAIN queue /\ queue'[i] = queue[i + 1]
        /\ j + 1 \in DOMAIN queue /\ queue'[j] = queue[j + 1] /\ i + 1 < j + 1
    BY <1>2, <1>3
  <2> QED BY <2>1 DEF EventsInv
<1>6. \A i \in DOMAIN queue' : queue'[i].kind = "event" => posts'[queue'[i].id].outcome = "posted"
  <2> SUFFICES ASSUME NEW i \in DOMAIN queue', queue'[i].kind = "event"
               PROVE  posts'[queue'[i].id].outcome = "posted"
    OBVIOUS
  <2>1. i + 1 \in DOMAIN queue /\ i + 1 # 1 /\ queue'[i] = queue[i + 1]
    BY <1>2, <1>3
  <2>2. queue'[i].id > h /\ queue'[i].id \in DOMAIN posts
    BY <1>3, <1>4, <2>1
  <2>3. queue'[i].id # h
    BY <1>3, <2>2
  <2> QED BY <1>1, <2>1, <2>2, <2>3 DEF EventsInv
<1>7. \A k \in DOMAIN posts : posts'[k].outcome = "posted" => k # h /\ posts[k].outcome = "posted"
  BY <1>1
<1>8. \A k \in DOMAIN posts' : posts'[k].outcome = "posted" =>
          \E i \in DOMAIN queue' : queue'[i].kind = "event" /\ queue'[i].id = k
  <2> SUFFICES ASSUME NEW k \in DOMAIN posts, posts[k].outcome = "posted", k # h
               PROVE  \E i \in DOMAIN queue' : queue'[i].kind = "event" /\ queue'[i].id = k
    BY <1>1, <1>7
  <2>1. PICK i \in DOMAIN queue : queue[i].kind = "event" /\ queue[i].id = k
    BY DEF EventsInv
  <2>2. i # 1
    BY <1>1, <1>2, <2>1
  <2> QED BY <1>2, <2>1, <2>2
<1>9. \A k \in DOMAIN posts : posts[k].outcome = "posted" => k >= h
  <2> SUFFICES ASSUME NEW k \in DOMAIN posts, posts[k].outcome = "posted" PROVE k >= h
    OBVIOUS
  <2>1. PICK i \in DOMAIN queue : queue[i].kind = "event" /\ queue[i].id = k
    BY DEF EventsInv
  <2>2. CASE i = 1
    BY <1>1, <1>2, <1>3, <2>1, <2>2
  <2>3. CASE i # 1
    BY <1>3, <1>4, <2>1, <2>3
  <2> QED BY <2>2, <2>3
<1>10. \A k, l \in DOMAIN posts' : k < l /\ posts'[l].outcome # "posted" => posts'[k].outcome # "posted"
  <2> SUFFICES ASSUME NEW k \in DOMAIN posts, NEW l \in DOMAIN posts, k < l,
                      posts'[l].outcome # "posted", posts'[k].outcome = "posted"
               PROVE  FALSE
    BY <1>1
  <2>1. k # h /\ posts[k].outcome = "posted"
    BY <1>7
  <2>2. CASE l = h
    BY <1>3, <1>9, <2>1, <2>2
  <2>3. CASE l # h
    BY <1>1, <2>1, <2>3 DEF EventsInv
  <2> QED BY <2>2, <2>3
<1>11. HandledOnce
  <2>1. posts[h].outcome = "posted"
    BY <1>1, <1>2 DEF EventsInv
  <2> QED BY <1>1, <2>1 DEF HandledOnce
<1> QED BY <1>5, <1>6, <1>8, <1>10, <1>11 DEF EventsInv

LEMMA InitEvents == Init => EventsInv
<1> SUFFICES ASSUME Init PROVE EventsInv
  OBVIOUS
<1>1. DOMAIN queue = {} /\ DOMAIN posts = {}
  BY DEF Init
<1> QED BY <1>1 DEF EventsInv

LEMMA StepEvents == ASSUME TInv, TInv', EventsInv, [Next]_vars PROVE EventsInv' /\ HandledOnce
<1>1. CASE HostCalls
  BY <1>1, HostEvents
<1>2. CASE \E n \in Names : PostMessage(n)
  BY <1>2, PostMessageEvents
<1>3. CASE OnDevToolsEvent
  BY <1>3, EventEvents
<1>4. CASE \/ OnAfterCreated \/ OnBeforeClose \/ BrowserDidCreate \/ OnDevToolsResult
           \/ AgentExecutes \/ (\E e \in awaiting : EvaluationSettles(e)) \/ Navigate
  BY <1>4, OtherEvents
<1>5. CASE UNCHANGED vars
  BY <1>5, SameShifts, SameEvents DEF vars
<1> QED BY <1>1, <1>2, <1>3, <1>4, <1>5 DEF Next

THEOREM EventsInvariance == Spec => []EventsInv
<1>1. Init => EventsInv
  BY InitEvents
<1>2. IInv /\ IInv' /\ EventsInv /\ [Next]_vars => EventsInv'
  BY StepEvents DEF IInv
<1> QED BY <1>1, <1>2, Invariance, PTL DEF Spec

\* A message the page posted is given to a handler, or ignored because there is
\* none, once; however handlers were added and removed since.
THEOREM MessagesHandledOnce == Spec => [][HandledOnce]_vars
<1>1. IInv /\ IInv' /\ EventsInv /\ [Next]_vars => [HandledOnce]_vars
  BY StepEvents DEF IInv
<1> QED BY <1>1, Invariance, EventsInvariance, PTL DEF Spec

\* Messages are handled in the order in which the page posted them, and one that
\* is not handled yet is still on the queue.
THEOREM MessagesInOrder ==
    Spec => [](/\ \A k, l \in DOMAIN posts :
                     k < l /\ posts[l].outcome # "posted" => posts[k].outcome # "posted"
               /\ \A k \in DOMAIN posts : posts[k].outcome = "posted" =>
                     \E i \in DOMAIN queue : queue[i].kind = "event" /\ queue[i].id = k)
<1>1. EventsInv => /\ \A k, l \in DOMAIN posts :
                         k < l /\ posts[l].outcome # "posted" => posts[k].outcome # "posted"
                   /\ \A k \in DOMAIN posts : posts[k].outcome = "posted" =>
                         \E i \in DOMAIN queue : queue[i].kind = "event" /\ queue[i].id = k
  BY DEF EventsInv
<1> QED BY <1>1, EventsInvariance, PTL

=============================================================================
