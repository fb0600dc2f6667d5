--------------------------- MODULE DevToolsBridge ---------------------------
(***************************************************************************)
(* How one ChromiumView talks to its page over the DevTools protocol:      *)
(* evaluateJavaScript, JS-to-native message handlers and document-start    *)
(* user scripts (ChromiumView.mm 269-298, 1015-1024, 1134-1390).           *)
(*                                                                         *)
(* The host calls the view on the main thread.  The view numbers each      *)
(* command and sends it; the DevTools agent (external, FIFO) executes it   *)
(* and its result comes back as a block of the main queue.  An             *)
(* evaluation awaits its promise, so its result may come after those of    *)
(* later commands.                                                         *)
(*                                                                         *)
(* cef_devtools_message_observer.h:85-86: what OnDevToolsMethodResult gets *)
(* IS the "result" dictionary.  A reply is therefore modelled as that      *)
(* dictionary, and the code's lookups in it as they are written.           *)
(***************************************************************************)
EXTENDS Integers, SequencesExt

CONSTANTS
    Sources,   \* document-start scripts the host may add
    Names,     \* message-handler names
    Programs,  \* what an evaluated script does: a subset of {"value", "undefined", "throws"}
    Api,       \* the API calls this host makes
    MaxCalls   \* bound on the number of API calls and of messages the page posts

ASSUME ProgramsAssumption == Programs \subseteq {"value", "undefined", "throws"}
ASSUME MaxCallsAssumption == MaxCalls \in Nat

VARIABLES
    browser,        \* the client's browser_: "none" before the first one, "attached",
                    \* "unowned" when it came after a close, which lost the client's
                    \* owner_, or "closed", null again
    live,           \* how many browsers of this client there are
    nextId,         \* _nextEvalId
    evalCallbacks,  \* _evalCallbacks: message id -> index of the call in evals
    rawCallbacks,   \* _rawResultCallbacks: the message ids
    handlers,       \* _messageHandlers: the registered names
    enabled,        \* _runtimeDomainsEnabled
    scripts,        \* _documentStartScripts
    identifiers,    \* _documentStartScriptIdentifiers
    queue,          \* the main dispatch queue
    commands,       \* commands on their way to the agent
    agent,          \* the agent's domains, bindings, and the shims and user scripts of
                    \* every new document
    awaiting,       \* evaluations whose promise is still open
    page,           \* handler names whose shim the current document has
    evals,          \* every evaluateJavaScript call and its completion
    lost,           \* ghost: the calls whose browser's observer went before their answer
    posts,          \* every message the page posted and what became of it
    calls           \* number of API calls and messages so far

viewVars == <<nextId, evalCallbacks, rawCallbacks, handlers, enabled, scripts, identifiers>>
agentVars == <<agent, awaiting, page>>
vars == <<browser, live, viewVars, queue, commands, agentVars, evals, lost, posts, calls>>

Shim(n) == [kind |-> "shim", of |-> n]
UserScript(s) == [kind |-> "user", of |-> s]
Command(method, arg) == [method |-> method, arg |-> arg]
Block(kind, id, reply) == [kind |-> kind, id |-> id, reply |-> reply]

Outcomes == {"pending", "value", "nil", "error"}

TypeOK ==
    /\ browser \in {"none", "attached", "unowned", "closed"} /\ live \in Nat
    /\ nextId \in Nat /\ calls \in 0..MaxCalls
    /\ \A id \in DOMAIN evalCallbacks : id \in 1..nextId /\ evalCallbacks[id] \in DOMAIN evals
    /\ rawCallbacks \subseteq 1..nextId /\ awaiting \subseteq [id : 1..nextId, program : Programs]
    /\ handlers \subseteq Names /\ page \subseteq Names
    /\ agent.bindings \subseteq Names /\ agent.shims \subseteq Names
    /\ enabled \in BOOLEAN
    /\ Range(scripts) \subseteq Sources
    /\ \A i \in DOMAIN commands : commands[i].id \in 1..nextId
    /\ \A i \in DOMAIN evals : evals[i] \in [program : Programs, outcome : Outcomes]
    /\ lost \subseteq DOMAIN evals
    /\ \A i \in DOMAIN posts : posts[i] \in
          [name : Names, removed : BOOLEAN, outcome : {"posted", "handled", "ignored"}]

NewAgent ==
    [runtime |-> FALSE, pageDomain |-> FALSE, bindings |-> {}, shims |-> {}, scripts |-> <<>>]

Init ==
    /\ browser = "none" /\ live = 0 /\ nextId = 1
    /\ evalCallbacks = <<>> /\ rawCallbacks = {}
    /\ handlers = {} /\ enabled = FALSE
    /\ scripts = <<>> /\ identifiers = <<>>
    /\ queue = <<>> /\ commands = <<>>
    /\ agent = NewAgent /\ awaiting = {} /\ page = {}
    /\ evals = <<>> /\ lost = {} /\ posts = <<>> /\ calls = 0

-----------------------------------------------------------------------------
(***************************************************************************)
(* Sending.                                                                *)
(***************************************************************************)
\* Mutant: _nextEvalId is not incremented.
SendSameId(list) ==
    /\ nextId' = nextId
    /\ commands' = commands \o [i \in DOMAIN list |->
                      [id |-> nextId + i, method |-> list[i].method, arg |-> list[i].arg]]
    /\ UNCHANGED rawCallbacks

\* _sendDevToolsMethod: each command takes the next message id; a user script
\* leaves a raw result callback.
Send(list) ==
    LET sent == [i \in DOMAIN list |->
                    [id |-> nextId + i, method |-> list[i].method, arg |-> list[i].arg]]
    IN  /\ nextId' = nextId + Len(list)
        /\ commands' = commands \o sent
        /\ rawCallbacks' = rawCallbacks \cup
              {sent[i].id : i \in {j \in DOMAIN sent :
                    sent[j].method = "addScript" /\ sent[j].arg.kind = "user"}}

SendNothing == UNCHANGED <<nextId, commands, rawCallbacks>>

\* Mutant: only the Runtime domain.
EnableRuntime(alreadyEnabled) ==
    IF alreadyEnabled THEN <<>> ELSE <<Command("Runtime.enable", "")>>

\* _ensureDevToolsDomainsEnabled
EnableDomains(alreadyEnabled) ==
    IF alreadyEnabled THEN <<>>
    ELSE <<Command("Runtime.enable", ""), Command("Page.enable", "")>>

\* Mutant: the shim only for future documents.
HandlerCommandsLater(n) ==
    <<Command("addBinding", n), Command("addScript", Shim(n)), Command("addBinding", n)>>

\* _installMessageHandler, without the domains
HandlerCommands(n) ==
    <<Command("addBinding", n), Command("addScript", Shim(n)), Command("evaluateShim", n)>>

\* _installUserScript, without the domains
ScriptCommand(s) == Command("addScript", UserScript(s))

-----------------------------------------------------------------------------
(***************************************************************************)
(* The API, called by the host on the main thread.                         *)
(***************************************************************************)
\* [self _browser] is not null.
HasBrowser == browser \in {"attached", "unowned"}

ApiCall(name) == name \in Api /\ calls < MaxCalls /\ calls' = calls + 1

AddUserScriptAtDocumentStart(s) ==
    /\ ApiCall("addUserScript")
    /\ scripts' = Append(scripts, s)
    /\ IF HasBrowser
       THEN /\ Send(EnableDomains(enabled) \o <<ScriptCommand(s)>>)
            /\ enabled' = TRUE
       ELSE SendNothing /\ UNCHANGED enabled
    /\ UNCHANGED <<browser, live, lost, evalCallbacks, handlers, identifiers, queue, agentVars, evals, posts>>

RemoveAllUserScripts ==
    /\ ApiCall("removeAllUserScripts")
    /\ scripts' = <<>>
    /\ IF HasBrowser
       THEN Send([i \in DOMAIN identifiers |-> Command("removeScript", identifiers[i])])
       ELSE SendNothing
    /\ identifiers' = <<>>
    /\ UNCHANGED <<browser, live, lost, evalCallbacks, handlers, enabled, queue, agentVars, evals, posts>>

AddMessageHandlerName(n) ==
    /\ ApiCall("addMessageHandler")
    /\ handlers' = handlers \cup {n}
    /\ IF HasBrowser
       THEN /\ Send(EnableDomains(enabled) \o HandlerCommands(n))
            /\ enabled' = TRUE
       ELSE SendNothing /\ UNCHANGED enabled
    /\ UNCHANGED <<browser, live, lost, evalCallbacks, scripts, identifiers, queue, agentVars, evals, posts>>

\* The messages on their way to a handler that is being removed.
Orphaned(n) ==
    [i \in DOMAIN posts |-> IF posts[i].name = n THEN [posts[i] EXCEPT !.removed = TRUE]
                                                 ELSE posts[i]]

RemoveMessageHandlerName(n) ==
    /\ ApiCall("removeMessageHandler")
    /\ handlers' = handlers \ {n}
    /\ IF HasBrowser
       THEN Send(<<Command("removeBinding", n), Command("evaluateDelete", n)>>)
       ELSE SendNothing
    /\ posts' = Orphaned(n)
    /\ UNCHANGED <<browser, live, lost, evalCallbacks, enabled, scripts, identifiers, queue, agentVars, evals>>

\* Mutant: one slot for the completion that is waiting.
RememberLast(id, call) == [i \in {id} |-> call]

\* _evalCallbacks[id] = the completion of a call
Remember(id, call) ==
    [i \in DOMAIN evalCallbacks \cup {id} |-> IF i = id THEN call ELSE evalCallbacks[i]]

\* evaluateJavaScript with a completion: without a browser it fails at once.
EvaluateJavaScript(program) ==
    /\ ApiCall("evaluateJavaScript")
    /\ IF HasBrowser
       THEN /\ Send(<<Command("evaluate", program)>>)
            /\ evalCallbacks' = Remember(nextId + 1, Len(evals) + 1)
            /\ evals' = Append(evals, [program |-> program, outcome |-> "pending"])
            /\ lost' = IF browser = "unowned" THEN lost \cup {Len(evals) + 1} ELSE lost
       ELSE /\ SendNothing /\ UNCHANGED <<evalCallbacks, lost>>
            /\ evals' = Append(evals, [program |-> program, outcome |-> "error"])
    /\ UNCHANGED <<browser, live, handlers, enabled, scripts, identifiers, queue, agentVars, posts>>

-----------------------------------------------------------------------------
(***************************************************************************)
(* The browser and its blocks of the main queue.                           *)
(***************************************************************************)
\* The calls that wait for an answer which is not in the queue.
Unanswered ==
    {evalCallbacks[id] : id \in {k \in DOMAIN evalCallbacks :
        \A i \in DOMAIN queue : ~(queue[i].kind = "result" /\ queue[i].id = k)}}

\* The registration of the browser's observer goes, and with it every result
\* that is still to come.
Unregister ==
    /\ commands' = <<>> /\ awaiting' = {}
    /\ lost' = lost \cup Unanswered

\* OnAfterCreated, of the view's browser or of a popup that CEF opened with its
\* opener's client: it takes browser_ and the observer over at once and leaves the
\* rest to the main queue, if the client still has an owner.
OnAfterCreated ==
    /\ \/ browser = "none" /\ UNCHANGED calls
       \/ live > 0 /\ calls < MaxCalls /\ calls' = calls + 1
    /\ live' = live + 1
    /\ IF browser \in {"none", "attached"}
       THEN browser' = "attached" /\ queue' = Append(queue, Block("didCreate", 0, <<>>))
       ELSE browser' = "unowned" /\ UNCHANGED queue
    /\ agent' = NewAgent /\ page' = {}
    /\ Unregister
    /\ UNCHANGED <<viewVars, evals, posts>>

\* OnBeforeClose of any browser of the client.
OnBeforeClose ==
    /\ live > 0 /\ live' = live - 1
    /\ browser' = "closed"
    /\ Unregister
    /\ UNCHANGED <<viewVars, queue, agent, page, evals, posts, calls>>

\* _installMessageHandlerShims, which visits the names in any order, and then
\* _reinstallUserScripts, without the domains.
Installs ==
    LET names == SetToSeq(handlers)
    IN  [i \in 1..3 * Len(names) |-> HandlerCommands(names[(i + 2) \div 3])[((i + 2) % 3) + 1]]
        \o [i \in DOMAIN scripts |-> ScriptCommand(scripts[i])]

\* _browserDidCreate
BrowserDidCreate ==
    /\ queue # <<>> /\ Head(queue).kind = "didCreate"
    /\ queue' = Tail(queue)
    /\ IF HasBrowser /\ Installs # <<>>
       THEN /\ Send(EnableDomains(FALSE) \o Installs)
            /\ enabled' = TRUE
       ELSE SendNothing /\ enabled' = FALSE
    /\ identifiers' = IF HasBrowser /\ scripts # <<>> THEN <<>> ELSE identifiers
    /\ UNCHANGED <<browser, live, lost, evalCallbacks, handlers, scripts, agentVars, evals, posts, calls>>

\* Mutant: a script that throws counts as one that returns undefined.
CompletionNoExceptions(reply) ==
    IF "success" \notin DOMAIN reply THEN "error"
    ELSE IF reply.result = "undefined" THEN "nil" ELSE reply.result

\* The completion a Runtime.evaluate result leads to (1176-1204).
Completion(reply) ==
    IF "success" \notin DOMAIN reply \/ "exceptionDetails" \in DOMAIN reply THEN "error"
    ELSE IF reply.result = "undefined" THEN "nil" ELSE reply.result

\* _onDevToolsResult for a raw callback: it hands result["result"] on, and a
\* user script's callback keeps the identifier found in that.
RawResult(block) ==
    /\ block.id \in rawCallbacks
    /\ rawCallbacks' = rawCallbacks \ {block.id}
    /\ identifiers' =
          IF "result" \in DOMAIN block.reply /\ "identifier" \in DOMAIN block.reply.result
          THEN Append(identifiers, block.reply.result.identifier)
          ELSE identifiers
    /\ UNCHANGED <<evalCallbacks, evals>>

\* [_evalCallbacks removeObjectForKey:]
Forget(id) == [i \in DOMAIN evalCallbacks \ {id} |-> evalCallbacks[i]]

\* _onDevToolsResult for an evaluation, or for nobody.
EvalResult(block) ==
    /\ block.id \notin rawCallbacks
    /\ IF block.id \in DOMAIN evalCallbacks
       THEN /\ evals' = [evals EXCEPT ![evalCallbacks[block.id]].outcome = Completion(block.reply)]
            /\ evalCallbacks' = Forget(block.id)
       ELSE UNCHANGED <<evals, evalCallbacks>>
    /\ UNCHANGED <<rawCallbacks, identifiers>>

OnDevToolsResult ==
    /\ queue # <<>> /\ Head(queue).kind = "result"
    /\ queue' = Tail(queue)
    /\ RawResult(Head(queue)) \/ EvalResult(Head(queue))
    /\ UNCHANGED <<browser, live, lost, nextId, handlers, enabled, scripts, commands, agentVars, posts, calls>>

\* Mutant: the binding's prefix is left on the name.
HandlerForPrefixed(n) == handlers \cap {<<"prefix", n>>}

\* _messageHandlers[name], looked up when the event arrives
HandlerFor(n) == handlers \cap {n}

\* _onDevToolsEventMethod for Runtime.bindingCalled
OnDevToolsEvent ==
    /\ queue # <<>> /\ Head(queue).kind = "event"
    /\ queue' = Tail(queue)
    /\ LET i == Head(queue).id
       IN  posts' = [posts EXCEPT ![i].outcome =
                        IF HandlerFor(posts[i].name) = {} THEN "ignored" ELSE "handled"]
    /\ UNCHANGED <<browser, live, lost, viewVars, commands, agentVars, evals, calls>>

-----------------------------------------------------------------------------
(***************************************************************************)
(* The agent and the page (external).                                      *)
(***************************************************************************)
Reply(id, dictionary) == queue' = Append(queue, Block("result", id, dictionary))
Succeeded == [success |-> TRUE]
Identified(id) == [success |-> TRUE, identifier |-> id]
Answer(program) ==
    IF program = "throws"
    THEN [success |-> TRUE, result |-> "undefined", exceptionDetails |-> "text"]
    ELSE [success |-> TRUE, result |-> program]

\* The agent's domains, bindings and new-document scripts after a command.
Executed(c) ==
    CASE c.method = "Runtime.enable" -> [agent EXCEPT !.runtime = TRUE]
      [] c.method = "Page.enable" -> [agent EXCEPT !.pageDomain = TRUE]
      [] c.method = "addBinding" -> [agent EXCEPT !.bindings = @ \cup {c.arg}]
      [] c.method = "removeBinding" -> [agent EXCEPT !.bindings = @ \ {c.arg}]
      [] c.method = "addScript" ->
            IF c.arg.kind = "shim"
            THEN [agent EXCEPT !.shims = @ \cup {c.arg.of}]
            ELSE [agent EXCEPT !.scripts = Append(@, [script |-> c.arg.of, identifier |-> c.id])]
      [] c.method = "removeScript" ->
            [agent EXCEPT !.scripts = SelectSeq(@, LAMBDA r : r.identifier # c.arg)]
      [] OTHER -> agent

\* The agent of an unowned browser reaches nobody: its commands stay where they are.
AgentExecutes ==
    /\ browser = "attached" /\ commands # <<>>
    /\ LET c == Head(commands)
       IN  /\ agent' = Executed(c)
           /\ page' = CASE c.method = "evaluateShim" -> page \cup {c.arg}
                        [] c.method = "evaluateDelete" -> page \ {c.arg}
                        [] OTHER -> page
           /\ IF c.method = "evaluate"
              THEN /\ awaiting' = awaiting \cup {[id |-> c.id, program |-> c.arg]}
                   /\ UNCHANGED queue
              ELSE /\ Reply(c.id, IF c.method = "addScript" THEN Identified(c.id) ELSE Succeeded)
                   /\ UNCHANGED awaiting
    /\ commands' = Tail(commands)
    /\ UNCHANGED <<browser, live, lost, viewVars, evals, posts, calls>>

\* The promise of an evaluation settles.
EvaluationSettles(e) ==
    /\ awaiting' = awaiting \ {e}
    /\ Reply(e.id, Answer(e.program))
    /\ UNCHANGED <<browser, live, lost, viewVars, commands, agent, page, evals, posts, calls>>

\* A new document's shims: new-document scripts need the Page domain.
NewDocumentShims == IF agent.pageDomain THEN agent.shims ELSE {}

\* The page navigates: the new-document scripts run, open evaluations fail.
Navigate ==
    /\ browser = "attached"
    /\ page' = NewDocumentShims
    /\ queue' = queue \o SetToSeq({Block("result", e.id, <<>>) : e \in awaiting})
    /\ awaiting' = {}
    /\ UNCHANGED <<browser, live, lost, viewVars, commands, agent, evals, posts, calls>>

\* The page calls webkit.messageHandlers.n.postMessage: the shim calls the
\* binding, which makes an event of it, or throws when it is gone.
PostMessage(n) ==
    /\ browser = "attached" /\ calls < MaxCalls
    /\ n \in page /\ n \in agent.bindings /\ agent.runtime
    /\ calls' = calls + 1
    /\ posts' = Append(posts, [name |-> n, removed |-> n \notin handlers, outcome |-> "posted"])
    /\ queue' = Append(queue, Block("event", Len(posts) + 1, <<>>))
    /\ UNCHANGED <<browser, live, lost, viewVars, commands, agentVars, evals>>

HostCalls ==
    \/ \E s \in Sources : AddUserScriptAtDocumentStart(s)
    \/ RemoveAllUserScripts
    \/ \E n \in Names : AddMessageHandlerName(n)
    \/ \E n \in Names : RemoveMessageHandlerName(n)
    \/ \E p \in Programs : EvaluateJavaScript(p)

Next ==
    \/ HostCalls
    \/ OnAfterCreated \/ OnBeforeClose
    \/ BrowserDidCreate \/ OnDevToolsResult \/ OnDevToolsEvent
    \/ AgentExecutes
    \/ \E e \in awaiting : EvaluationSettles(e)
    \/ Navigate
    \/ \E n \in Names : PostMessage(n)

\* The main queue drains, the agent answers and promises settle; nobody has to
\* call the API, to create, to navigate or to close.
Fairness ==
    /\ WF_vars(BrowserDidCreate \/ OnDevToolsResult \/ OnDevToolsEvent)
    /\ WF_vars(AgentExecutes)
    /\ WF_vars(\E e \in awaiting : EvaluationSettles(e))

Spec == Init /\ [][Next]_vars /\ Fairness

-----------------------------------------------------------------------------
(***************************************************************************)
(* Properties.                                                             *)
(***************************************************************************)
\* The browser is there, its creation block has run and the agent is idle.
Settled ==
    /\ browser = "attached" /\ commands = <<>>
    /\ \A i \in DOMAIN queue : queue[i].kind # "didCreate"

\* The user scripts a new document will run, in order.
UserScripts ==
    IF agent.pageDomain THEN [i \in DOMAIN agent.scripts |-> agent.scripts[i].script] ELSE <<>>

\* Whenever the scripts were added, before, during or after the browser's
\* creation: new documents end up running all of them in the order they were
\* added (the header's "in the order the scripts were added").  Something else
\* may run before them: a script added between OnAfterCreated and the queued
\* _browserDidCreate is installed twice, and a removed one is never removed.
ScriptsInstalled == Settled => IsSuffix(scripts, UserScripts)

\* The agent's bindings are the registered handlers, in whatever order they were
\* added, removed and installed by the browser's creation: a registered one can
\* be called from the current document, across navigations at any moment, and
\* from every later one, and a removed one cannot.  (Its shim for new documents
\* is never removed; without the binding it throws.)
HandlersAreBindings ==
    Settled =>
        /\ agent.bindings = handlers
        /\ \A n \in handlers : agent.runtime /\ n \in page /\ n \in NewDocumentShims

\* A message posted to a registered handler is handled, across the creation's
\* re-installation and navigations; only removing the handler loses it.
MessagesReachHandlers ==
    \A i \in DOMAIN posts : posts[i].outcome = "ignored" => posts[i].removed

\* A completion gets the answer to its own script, or an error.
EvalGetsOwnAnswer ==
    \A i \in DOMAIN evals : evals[i].outcome \in
        {"pending", "error"} \cup
        (CASE evals[i].program = "value" -> {"value"}
           [] evals[i].program = "undefined" -> {"nil"}
           [] OTHER -> {})

\* The calls whose completion is still to be called.  One that is lost never is.
Waiting == {i \in DOMAIN evals : evals[i].outcome = "pending"} \ lost

\* Every completion is called, unless the observer of the browser it was sent to
\* went before the answer: that browser or another one of the client was closed,
\* or a popup took the client over.  (A call never starts to wait again and there
\* are finitely many, so none waits for ever.)
EvalCompletesWhileOpen == Waiting # {} ~> Waiting = {}

\* ChromiumViewObjC.h:471-473: remove every document-start user script "so
\* future documents no longer receive them".  When new documents run exactly the
\* host's scripts and every identifier has been reported, the removal must ask for
\* each of them.
RemovedScriptsGone ==
    [][RemoveAllUserScripts /\ Settled /\ rawCallbacks = {} /\ UserScripts = scripts =>
          \A i \in DOMAIN agent.scripts : \E k \in DOMAIN commands' :
              /\ commands'[k].method = "removeScript"
              /\ commands'[k].arg = agent.scripts[i].identifier]_vars

=============================================================================
