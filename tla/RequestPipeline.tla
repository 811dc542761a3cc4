--------------------------- MODULE RequestPipeline ---------------------------
(***************************************************************************)
(* What stands before the handler of a request: the gateway (packages/     *)
(* gateway), and fault injection and the resilience middleware (packages/  *)
(* resilience).  Each is a function of the request, the reply and next(),  *)
(* which is the rest of the chain and comes from outside; what a plugin or *)
(* handler does is up to it, and routes, plugins and faults change while   *)
(* requests are on their way.                                              *)
(***************************************************************************)
EXTENDS Integers, Sequences, FiniteSets

CONSTANTS
  Requests,
  Plugins, Faults,  \* names of plugins, ids of faults
  Types, Times,     \* of faults: kinds tried, limits (zero is no limit)
  Places,           \* maxConcurrent of the bulkhead
  QueueLength,      \* its maxQueued
  MaxChanges        \* a bound of changes of the tables, and requests that come

VARIABLES
  chain,    \* "gateway", "faults" (the fault middleware alone) or "stack" (all of resilience)
  routes,   \* the routes, in order: each the set of requests it matches
  plugins,  \* the Map: the names in the order of insertion; which are enabled
  enabled,
  faults,   \* the Map of faults in order
  history,  \* ids of the faults injected
  changes,
  phase,    \* of each request
  at,       \* the plugin it is at
  seen,     \* hooks that were called for it
  loyal,    \* the plugins that have been enabled since it came
  fault,    \* type of the fault it got
  answers,  \* how often it was answered
  passed,   \* how often it was handed on to next()
  running,  \* of the bulkhead: how many run, as it counts them
  waiting,  \* its queue
  forfeited,  \* history: waits that ended unserved
  expired   \* of the stack: requests that came with no time left

tableVars == <<routes, plugins, enabled, faults, history>>
bulkheadVars == <<running, waiting, forfeited>>
requestVars == <<phase, at, seen, loyal, fault, answers, passed, bulkheadVars, expired>>
pipelineVars == <<chain, tableVars, changes, requestVars>>

NoFault == "none"
AllTypes == {"latency", "error", "timeout", "drop", "corrupt"}  \* reject and partial-response answer as error does

OptionsOK ==
  /\ \A n \in Times \cup {Places, QueueLength, MaxChanges} : n \in Nat
  /\ Types \subseteq AllTypes

Init ==
  /\ chain \in {"gateway", "faults", "stack"}
  /\ routes = <<>> /\ plugins = <<>> /\ enabled = {} /\ faults = <<>> /\ history = <<>> /\ changes = 0
  /\ phase = [r \in Requests |-> "none"] /\ at = [r \in Requests |-> 0]
  /\ seen = [r \in Requests |-> <<>>] /\ loyal = [r \in Requests |-> {}]
  /\ fault = [r \in Requests |-> NoFault]
  /\ answers = [r \in Requests |-> 0] /\ passed = [r \in Requests |-> 0] /\ expired = {}
  /\ running = 0 /\ waiting = <<>> /\ forfeited = 0

Change == changes < MaxChanges /\ changes' = changes + 1
InMap(map, id) == \E i \in DOMAIN map : map[i].id = id

-----------------------------------------------------------------------------
(* The gateway. *)

addRoute(matches) ==
  /\ chain = "gateway" /\ Change /\ routes' = Append(routes, matches)
  /\ UNCHANGED <<chain, plugins, enabled, faults, history, requestVars>>

Without(list, i) == SubSeq(list, 1, i - 1) \o SubSeq(list, i + 1, Len(list))

removeRoute(i) ==
  /\ chain = "gateway" /\ Change
  /\ routes' = Without(routes, i)
  /\ UNCHANGED <<chain, plugins, enabled, faults, history, requestVars>>

\* A plugin of the same name keeps its place.  One may come disabled, or be disabled by
\* who has registered it, which is the same.
registerPlugin(p, on) ==
  /\ chain = "gateway" /\ Change
  /\ plugins' = IF \E i \in DOMAIN plugins : plugins[i] = p THEN plugins ELSE Append(plugins, p)
  /\ IF on THEN enabled' = enabled \cup {p} /\ loyal' = loyal
     ELSE enabled' = enabled \ {p} /\ loyal' = [r \in Requests |-> loyal[r] \ {p}]
  /\ UNCHANGED <<chain, routes, faults, history, phase, at, seen, fault, answers, passed, bulkheadVars, expired>>

Go(r, next) == phase' = [phase EXCEPT ![r] = next]

matchRoute(r) ==
  /\ chain = "gateway" /\ phase[r] = "none" /\ Change
  /\ IF \E i \in DOMAIN routes : r \in routes[i]
     THEN Go(r, "onRequest") /\ loyal' = [loyal EXCEPT ![r] = enabled] /\ passed' = passed
     ELSE Go(r, "over") /\ loyal' = loyal /\ passed' = [passed EXCEPT ![r] = @ + 1]
  /\ UNCHANGED <<chain, tableVars, at, seen, fault, answers, bulkheadVars, expired>>

Ahead(r) == {i \in DOMAIN plugins : i > at[r] /\ plugins[i] \in enabled}

\* executePlugins() goes on to the next plugin when the hook of the last one is done,
\* over the Map as it is by then.
Hook(r) ==
  /\ phase[r] \in {"onRequest", "onRoute"}
  /\ \E i \in Ahead(r) :
       /\ \A j \in Ahead(r) : i <= j
       /\ at' = [at EXCEPT ![r] = i]
       /\ seen' = [seen EXCEPT ![r] = Append(@, <<phase[r], plugins[i]>>)]
  /\ UNCHANGED <<chain, tableVars, changes, phase, loyal, fault, answers, passed, bulkheadVars, expired>>

\* The transformed request is not used: only what it shares with the old one changes.
HooksDone(r) ==
  /\ phase[r] \in {"onRequest", "onRoute"} /\ Ahead(r) = {}
  /\ at' = [at EXCEPT ![r] = 0]
  /\ IF phase[r] = "onRequest" THEN Go(r, "onRoute") /\ passed' = passed
     ELSE Go(r, "over") /\ passed' = [passed EXCEPT ![r] = @ + 1]
  /\ UNCHANGED <<chain, tableVars, changes, seen, loyal, fault, answers, bulkheadVars, expired>>

HookFails(r) ==  \* a hook or a transform throws
  /\ phase[r] \in {"onRequest", "onRoute"} /\ Go(r, "threw")
  /\ UNCHANGED <<chain, tableVars, changes, at, seen, loyal, fault, answers, passed, bulkheadVars, expired>>

-----------------------------------------------------------------------------
(* Faults. *)

WithFaults == chain \in {"faults", "stack"}
SetFaults(new) == faults' = new /\ UNCHANGED <<chain, routes, plugins, enabled, requestVars>>

\* Registered again, a fault keeps its place and starts to count anew.
register(id, type, times) ==
  /\ WithFaults /\ Change /\ history' = history
  /\ LET new == [id |-> id, type |-> type, times |-> times, enabled |-> TRUE, count |-> 0, earlier |-> Len(history)]
     IN  SetFaults(IF InMap(faults, id)
                   THEN [i \in DOMAIN faults |-> IF faults[i].id = id THEN new ELSE faults[i]]
                   ELSE Append(faults, new))

unregister(i) ==
  /\ Change /\ history' = history /\ SetFaults(Without(faults, i))

setEnabled(i) ==
  /\ Change /\ history' = history /\ SetFaults([faults EXCEPT ![i].enabled = ~@])

clear ==
  /\ faults # <<>> /\ Change /\ history' = <<>> /\ SetFaults(<<>>)

Eligible(f) == f.enabled /\ (f.times = 0 \/ f.count < f.times)

\* shouldInject() returns the first fault that is enabled and not used up, but for
\* those whose condition or percentage passes this request over.
Injectable(skipped) == {i \in DOMAIN faults \ skipped : Eligible(faults[i])}

Finish(r, answered, handed) ==
  /\ Go(r, "over")
  /\ answers' = [answers EXCEPT ![r] = @ + answered] /\ passed' = [passed EXCEPT ![r] = @ + handed]

\* In the stack a fault is applied with a next() that does nothing, and the middleware
\* returns.
AfterLatency(r) == IF chain = "faults" THEN Finish(r, 0, 1) ELSE Finish(r, 0, 0)

Inject(r, i) ==
  /\ faults' = [faults EXCEPT ![i].count = @ + 1]
  /\ history' = Append(history, faults[i].id)
  /\ fault' = [fault EXCEPT ![r] = faults[i].type]
  /\ CASE faults[i].type \in {"latency", "timeout"} -> Go(r, "delayed") /\ UNCHANGED <<answers, passed>>
       [] faults[i].type = "error"                  -> Finish(r, 1, 0)
       [] OTHER                                     -> Finish(r, 0, 0)

NotInjected(r) ==
  /\ UNCHANGED <<faults, history, fault, passed>> /\ Go(r, "next")

\* In the stack the timeout budget comes first.  It answers with 504 when no time is
\* left, but its next() does nothing either: the stack goes on all the same.
Budget(r) ==
  \/ answers' = answers /\ expired' = expired
  \/ /\ chain = "stack"
     /\ answers' = [answers EXCEPT ![r] = @ + 1] /\ expired' = expired \cup {r}

arrive(r) ==
  /\ WithFaults /\ phase[r] = "none" /\ Change /\ Budget(r) /\ Go(r, "faults")
  /\ UNCHANGED <<chain, tableVars, at, seen, loyal, fault, passed, bulkheadVars>>

shouldInject(r) ==
  /\ phase[r] = "faults"
  /\ \E skipped \in SUBSET DOMAIN faults :
       IF Injectable(skipped) = {} THEN NotInjected(r) /\ answers' = answers
       ELSE \E i \in Injectable(skipped) : (\A j \in Injectable(skipped) : i <= j) /\ Inject(r, i)
  /\ UNCHANGED <<chain, routes, plugins, enabled, changes, at, seen, loyal, bulkheadVars, expired>>

Delayed(r) ==
  /\ phase[r] = "delayed"
  /\ IF fault[r] = "latency" THEN AfterLatency(r) ELSE Finish(r, 0, 0)
  /\ UNCHANGED <<chain, tableVars, changes, at, seen, loyal, fault, bulkheadVars, expired>>

-----------------------------------------------------------------------------
(* The bulkhead of the stack: execute() of a call that ends with next().     *)

HandOn(r, next) == Go(r, next) /\ passed' = [passed EXCEPT ![r] = @ + 1]

\* The middleware alone hands the request on.  The bulkhead does so at once if it
\* counts a free place, or lets it wait, or rejects.
PassOn(r) ==
  /\ phase[r] = "next"
  /\ CASE chain = "faults" -> HandOn(r, "over") /\ UNCHANGED bulkheadVars
       [] chain = "stack" /\ running < Places ->
            HandOn(r, "handler") /\ running' = running + 1 /\ UNCHANGED <<waiting, forfeited>>
       [] chain = "stack" /\ running >= Places /\ Len(waiting) < QueueLength ->
            /\ Go(r, "waiting") /\ waiting' = Append(waiting, r)
            /\ UNCHANGED <<passed, running, forfeited>>
       [] OTHER -> Go(r, "threw") /\ UNCHANGED <<passed, bulkheadVars>>
  /\ UNCHANGED <<chain, tableVars, changes, at, seen, loyal, fault, answers, expired>>

\* release(): the place goes to who waits longest in the queue that is left.
Release(r, next, queue) ==
  IF queue # <<>> /\ running - 1 < Places
  THEN /\ running' = running /\ waiting' = Tail(queue)
       /\ phase' = [phase EXCEPT ![r] = next, ![Head(queue)] = "handler"]
       /\ passed' = [passed EXCEPT ![Head(queue)] = @ + 1]
  ELSE running' = running - 1 /\ waiting' = queue /\ Go(r, next) /\ passed' = passed

\* The handler ends, well or not, or the bulkhead waits for it no longer.
HandlerEnds(r) ==
  /\ phase[r] = "handler" /\ forfeited' = forfeited
  /\ \/ Release(r, "over", waiting) /\ answers' = [answers EXCEPT ![r] = @ + 1]
     \/ Release(r, "threw", waiting) /\ answers' = answers
  /\ UNCHANGED <<chain, tableVars, changes, at, seen, loyal, fault, expired>>

\* The queue timer rejects, and the finally block releases a place that was never taken.
QueueTimeout(r) ==
  /\ \E i \in DOMAIN waiting : waiting[i] = r /\ Release(r, "threw", Without(waiting, i))
  /\ forfeited' = forfeited + 1
  /\ UNCHANGED <<chain, tableVars, changes, at, seen, loyal, fault, answers, expired>>

Next ==
  \/ \E matches \in SUBSET Requests \ {{}} : addRoute(matches)
  \/ \E i \in DOMAIN routes : removeRoute(i)
  \/ \E p \in Plugins, on \in BOOLEAN : registerPlugin(p, on)
  \/ \E id \in Faults, type \in Types, times \in Times : register(id, type, times)
  \/ \E i \in DOMAIN faults : unregister(i) \/ setEnabled(i)
  \/ clear
  \/ \E r \in Requests :
       \/ matchRoute(r) \/ Hook(r) \/ HooksDone(r) \/ HookFails(r)
       \/ arrive(r) \/ shouldInject(r) \/ Delayed(r) \/ PassOn(r) \/ HandlerEnds(r) \/ QueueTimeout(r)

Spec == Init /\ [][Next]_pipelineVars
-----------------------------------------------------------------------------
Phases == {"none", "onRequest", "onRoute", "faults", "delayed", "next", "waiting", "handler", "over",
           "threw"}

TypeOK ==
  /\ enabled \subseteq Plugins /\ changes \in 0 .. MaxChanges
  /\ \A i \in DOMAIN faults : faults[i].count >= 0 /\ faults[i].type \in AllTypes
  /\ \A r \in Requests : phase[r] \in Phases /\ answers[r] \in 0 .. 2 /\ passed[r] \in 0 .. 1
  /\ running \in Int /\ Len(waiting) <= QueueLength /\ forfeited \in Nat

Handled == {r \in Requests : phase[r] = "handler"}
HookCalls(r, hook, p) == Cardinality({i \in DOMAIN seen[r] : seen[r][i] = <<hook, p>>})

\* A plugin that has been enabled since the request came was asked once before and
\* once after the route was set, and nobody was asked twice, although plugins come and
\* go while hooks are waited for.
EveryPluginAsked ==
  \A r \in Requests, p \in Plugins, hook \in {"onRequest", "onRoute"} :
    /\ HookCalls(r, hook, p) <= 1
    /\ phase[r] = "over" /\ p \in loyal[r] => HookCalls(r, hook, p) = 1

\* A fault is injected no more often than its times since it was registered, whoever
\* asks at the same time.  The handlers that the bulkhead waits for exceed its places
\* by no more than the waits that ended unserved, and nobody waits beside a free one.
WithinLimits ==
  /\ \A i \in DOMAIN faults : faults[i].times > 0 =>
       Cardinality({n \in faults[i].earlier + 1 .. Len(history) : history[n] = faults[i].id}) <= faults[i].times
  /\ Cardinality(Handled) <= Places + forfeited
  /\ waiting # <<>> => Cardinality(Handled) = Places + forfeited

\* A request that is over was answered or handed on, and not both; the faults that
\* leave it to the client are the exceptions, with latency in the stack, which drops
\* the request, and a request without time left, which the stack handles after its
\* answer.
EveryRequestSettled ==
  \A r \in Requests : phase[r] = "over" /\ chain # "gateway" =>
    /\ chain = "faults" =>
         answers[r] + passed[r] = IF fault[r] \in {"timeout", "drop", "corrupt"} THEN 0 ELSE 1
    /\ chain = "stack" /\ r \notin expired =>
         answers[r] = IF fault[r] \in {"latency", "timeout", "drop", "corrupt"} THEN 0 ELSE 1
    /\ passed[r] = 1 => fault[r] = NoFault \/ chain = "faults"
===============================================================================
