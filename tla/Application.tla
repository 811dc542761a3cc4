------------------------------ MODULE Application ------------------------------
(***************************************************************************)
(* How an application comes up and goes down: HttpApplication (packages/   *)
(* http) with runApplication(), and bootstrap() and shutdown() of          *)
(* packages/core with the LifecycleManager.  Both sort the modules by      *)
(* their imports and wait for one hook at a time.                          *)
(***************************************************************************)
EXTENDS Naturals, Sequences, SequencesExt, FiniteSets, FiniteSetsExt, Functions, Relation

CONSTANTS
  ImportGraphs,  \* imports that are tried: from a module to those it imports, in order
  RootModules,   \* the modules the application is given, in order
  Wirings,       \* what the modules provide and the controllers need, see WiringsOK
  Closers        \* calls of close() or shutdown(), most of them by a signal

VARIABLES
  style,    \* "http" or "manager"
  imports,
  wiring,
  order,    \* the modules Map
  phase,    \* "new", "init", "wire", "ready", "bootstrap", "up" or "failed"
  at,       \* the module whose hook is waited for, or the controller being made
  provided,  \* of each token, what the service container answers with
  made,     \* the tokens whose factories have run, once for each time
  served,   \* of each controller, the providers behind its tokens
  guards,   \* the classes of one sort that the server got, in order
  inited,   \* modules whose onModuleInit has ended
  started,
  closer,   \* of each closing call, the step of its program it is at
  ended,    \* the closing hooks that have ended
  exited    \* "no", "clean" by process.exit(0), or "crash" by an unhandled rejection

wiringVars == <<provided, made, served, guards>>
appVars == <<style, imports, wiring, order, phase, at, wiringVars, inited, started, closer, ended,
             exited>>

Modules == UNION {DOMAIN graph : graph \in ImportGraphs}

\* A provider: a value, which needs nothing, or a factory or a class, which may be a
\* guard and may say that it is no singleton.
WiringsOK(wires) ==
  /\ \A m \in Modules : \A p \in Range(wires.providers[m]) :
       /\ p.needs # <<>> => p.sort # "value"
       /\ p.sort \in {"class", "factory", "value"} /\ p.guard \in BOOLEAN
       /\ p.scope # "singleton" => p.sort = "class" /\ p.scope \in {"request", "transient"}
  /\ DOMAIN wires.controllers = Modules

OptionsOK ==
  /\ \A graph \in ImportGraphs : Range(RootModules) \subseteq DOMAIN graph
  /\ \A wires \in Wirings : WiringsOK(wires)

NotCalled == 0

SortBefore(graph) == RootModules  \* faulty: the order they are given in

\* visit() marks a module before it looks at the imports, so that a circle ends.
Sorted(graph) ==
  LET RECURSIVE Visit(_, _), VisitAll(_, _)
      Visit(m, acc) ==
        IF m \in acc.visited THEN acc
        ELSE LET below == VisitAll(graph[m], [acc EXCEPT !.visited = @ \cup {m}])
             IN  [below EXCEPT !.sorted = Append(@, m)]
      VisitAll(list, acc) ==
        IF list = <<>> THEN acc ELSE VisitAll(Tail(list), Visit(Head(list), acc))
  IN  VisitAll(RootModules, [visited |-> {}, sorted |-> <<>>]).sorted

Init ==
  /\ style \in {"http", "manager"} /\ imports \in ImportGraphs
  /\ wiring \in IF style = "http" THEN Wirings ELSE {CHOOSE wires \in Wirings : TRUE}
  /\ provided = <<>> /\ made = <<>> /\ served = <<>> /\ guards = <<>>
  /\ order = <<>> /\ phase = "new" /\ at = 1 /\ inited = {} /\ started = FALSE
  /\ closer = [c \in Closers |-> NotCalled] /\ ended = {} /\ exited = "no"

Running == exited = "no"

initialize ==
  /\ phase = "new" /\ phase' = "init" /\ at' = 1 /\ order' = Sorted(imports)
  /\ UNCHANGED <<style, imports, wiring, wiringVars, inited, started, closer, ended, exited>>

\* onModuleInit of a module is through, or throws: the rest is left undone.  bootstrap()
\* goes on by itself, and says that it has started before the hooks that follow.
InitHook ==
  /\ Running /\ phase = "init"
  /\ \/ /\ inited' = inited \cup {order[at]}
        /\ IF at < Len(order) THEN at' = at + 1 /\ UNCHANGED <<phase, started>>
           ELSE /\ at' = 1 /\ phase' = IF style = "http" THEN "wire" ELSE "bootstrap"
                /\ started' = (style = "manager")
     \/ phase' = "failed" /\ UNCHANGED <<at, inited, started>>
  /\ UNCHANGED <<style, imports, wiring, wiringVars, order, closer, ended, exited>>

\* The lists of a module after the other, in the order of the modules.
InOrder(lists) == FlattenSeq([i \in DOMAIN order |-> lists[order[i]]])

Providers == InOrder(wiring.providers)
Controllers == InOrder(wiring.controllers)
Tokens == {p.token : p \in Range(Providers)}

\* A value is answered with at once and whatever else goes by its token; of the others
\* the one registered last counts.  register() and registerSingleton() keep a factory in
\* the same way, so that the scope does not matter.
registerProviders ==
  /\ Running /\ phase = "wire" /\ provided = <<>> /\ Providers # <<>>
  /\ LET Of(token) == {i \in DOMAIN Providers : Providers[i].token = token}
          AreValues(token) == {i \in Of(token) : Providers[i].sort = "value"}
      IN  provided' = [token \in Tokens |->
            Max(IF AreValues(token) # {} THEN AreValues(token) ELSE Of(token))]
  /\ UNCHANGED <<style, imports, wiring, order, phase, at, made, served, guards, inited, started,
                 closer, ended, exited>>

\* What is resolved for it: `new provider()` gives a class nothing of what it needs.
Injected(p) == IF p.sort = "factory" THEN p.needs ELSE <<>>

\* get() for several tokens at once.  Every factory that is needed starts, with those it
\* needs, before one of them ends: a service that two of them need, and that was not made
\* before, is found being made and taken for a circle.
Resolution(tokens) ==
  LET Ready(token) == token \in Range(made) \/ Providers[provided[token]].sort = "value"
      RECURSIVE Get(_, _)
      Get(list, acc) ==
        IF list = <<>> THEN acc
        ELSE LET token == Head(list)
             IN  Get(Tail(list),
                   IF token \notin DOMAIN provided \/ token \in Range(acc.making)
                   THEN [acc EXCEPT !.refused = TRUE]
                   ELSE IF Ready(token) THEN acc
                   ELSE Get(Injected(Providers[provided[token]]),
                            [acc EXCEPT !.making = Append(@, token)]))
  IN  Get(tokens, [making |-> <<>>, refused |-> FALSE])

\* A factory may also throw.
registerController ==
  /\ Running /\ phase = "wire" /\ at \in DOMAIN Controllers
  /\ provided # <<>> \/ Providers = <<>>
  /\ LET got == Resolution(Controllers[at]) IN
     /\ made' = made \o got.making
     /\ \/ /\ ~got.refused /\ at' = at + 1 /\ phase' = phase
           /\ served' = Append(served, [i \in DOMAIN Controllers[at] |->
                                           provided[Controllers[at][i]]])
        \/ (got.refused \/ got.making # <<>>) /\ phase' = "failed" /\ UNCHANGED <<at, served>>
  /\ UNCHANGED <<style, imports, wiring, order, provided, guards, inited, started, closer, ended,
                 exited>>

\* The providers that are guards, each made once more and without what it needs; the same
\* for middlewares, interceptors, pipes and filters.
registerGuards ==
  /\ Running /\ phase = "wire" /\ at = Len(Controllers) + 1
  /\ provided # <<>> \/ Providers = <<>>
  /\ guards' = SelectSeq(Providers, LAMBDA p : p.guard) /\ phase' = "ready" /\ at' = 1
  /\ UNCHANGED <<style, imports, wiring, order, provided, made, served, inited, started, closer,
                 ended, exited>>

listen ==
  /\ Running /\ phase = "ready"
  /\ \/ phase' = "bootstrap" /\ started' = TRUE
     \/ phase' = "failed" /\ started' = started  \* the port is taken
  /\ UNCHANGED <<style, imports, wiring, wiringVars, order, at, inited, closer, ended, exited>>

BootstrapHook ==
  /\ Running /\ phase = "bootstrap"
  /\ \/ /\ IF at < Len(order) THEN at' = at + 1 /\ phase' = phase ELSE at' = at /\ phase' = "up"
     \/ phase' = "failed" /\ at' = at
  /\ UNCHANGED <<style, imports, wiring, wiringVars, order, inited, started, closer, ended, exited>>

\* The hooks that a closing call waits for, in order: by module, or by hook.
Program ==
  LET n == Len(order)
      Step(hook, i) == <<hook, order[i]>>
  IN  IF style = "http"
      THEN [k \in 1 .. 2 * n |-> Step(IF k % 2 = 1 THEN "shutdown" ELSE "destroy", (k + 1) \div 2)]
      ELSE [k \in 1 .. 3 * n |-> IF k <= n THEN Step("before", k)
                                 ELSE IF k <= 2 * n THEN Step("shutdown", k - n)
                                 ELSE Step("destroy", k - 2 * n)]

\* A signal, whose handler is there when listen() is through.  It waits for close(),
\* which has nothing to do if the application is not started, and exits.  close()
\* waits for the server first; whether it is waiting is the same to all else here.
Close(c) ==
  /\ Running /\ closer[c] = NotCalled /\ phase = "up"
  /\ IF style = "http" /\ ~started THEN exited' = "clean" /\ UNCHANGED closer
     ELSE closer' = [closer EXCEPT ![c] = 1] /\ UNCHANGED exited
  /\ UNCHANGED <<style, imports, wiring, wiringVars, order, phase, at, inited, started, ended>>

\* A hook is through, or throws and leaves the rest undone.  Nobody handles the rejection
\* of the handler of a signal, and node ends the process; that of shutdown() goes to its
\* caller.
CloserHook(c) ==
  /\ Running /\ closer[c] \in DOMAIN Program
  /\ \/ /\ closer' = [closer EXCEPT ![c] = @ + 1] /\ ended' = ended \cup {Program[closer[c]]}
        /\ exited' = exited
     \/ /\ closer' = [closer EXCEPT ![c] = Len(Program) + 2] /\ ended' = ended
        /\ exited' = IF style = "http" THEN "crash" ELSE exited
  /\ UNCHANGED <<style, imports, wiring, wiringVars, order, phase, at, inited, started>>

CloserDone(c) ==
  /\ Running /\ closer[c] = Len(Program) + 1
  /\ closer' = [closer EXCEPT ![c] = Len(Program) + 2]
  /\ IF style = "http" THEN started' = FALSE /\ exited' = "clean" ELSE UNCHANGED <<started, exited>>
  /\ UNCHANGED <<style, imports, wiring, wiringVars, order, phase, at, inited, ended>>

Next ==
  \/ initialize \/ InitHook \/ registerProviders \/ registerController \/ registerGuards
  \/ listen \/ BootstrapHook
  \/ \E c \in Closers : Close(c) \/ CloserHook(c) \/ CloserDone(c)

Spec == Init /\ [][Next]_appVars
-----------------------------------------------------------------------------
TypeOK ==
  /\ style \in {"http", "manager"} /\ imports \in ImportGraphs /\ started \in BOOLEAN
  /\ exited \in {"no", "clean", "crash"}
  /\ phase \in {"new", "init", "wire", "ready", "bootstrap", "up", "failed"}
  /\ inited \subseteq Modules /\ at \in Nat \ {0} /\ wiring \in Wirings
  /\ DOMAIN provided \subseteq Tokens /\ Range(guards) \subseteq Range(Providers)
  /\ \A c \in Closers : closer[c] \in 0 .. Len(Program) + 2

\* Which modules a module leads to.
LeadsTo ==
  TransitiveClosure([m, i \in DOMAIN imports |-> i \in Range(imports[m])], DOMAIN imports)

\* Each module that is reached has one instance, and a module is initialised after
\* those it imports, unless they import it in turn.
ImportsFirst ==
  /\ \A i, j \in DOMAIN order : order[i] = order[j] => i = j
  /\ \A m \in inited : \A i \in Range(imports[m]) :
       i \in inited \/ LeadsTo[i, m]

IsSingleton(token) == Providers[provided[token]].scope = "singleton"

\* No singleton is made twice, however many controllers and factories need it, unless the
\* application fails; all that a controller or a factory needs was made, or is a value,
\* before the application listens, and the controllers that need a singleton get the same.
Wired ==
  /\ phase # "failed" =>
       \A i, j \in DOMAIN made : made[i] = made[j] /\ IsSingleton(made[i]) => i = j
  /\ \A c, d \in DOMAIN served : \A i \in DOMAIN served[c], j \in DOMAIN served[d] :
       Controllers[c][i] = Controllers[d][j] /\ IsSingleton(Controllers[c][i])
       => served[c][i] = served[d][j]
  /\ phase \in {"ready", "bootstrap", "up"} /\ style = "http" =>
       /\ Len(served) = Len(Controllers)
       /\ LET Factories == {p \in Range(Providers) : p.sort = "factory" /\ p.token \in Range(made)}
              Current == {p \in Factories : p = Providers[provided[p.token]]}
          IN  \A token \in UNION {Range(Controllers[c]) : c \in DOMAIN served}
                             \cup UNION {Range(p.needs) : p \in Current} :
                token \in Range(made) \/ Providers[provided[token]].sort = "value"

\* The guards of an imported module run before those of the modules that import it.
GuardsInOrder ==
  \A i, j \in DOMAIN guards : i < j =>
    \A m, n \in inited : LET own == Range(wiring.providers[m])
                             others == Range(wiring.providers[n])
                         IN  (guards[i] \in own \ others /\ guards[j] \in others \ own
                              /\ n \in Range(imports[m])) => LeadsTo[n, m]

\* The exit code is 0 only when every module was shut down and destroyed, however many
\* signals came meanwhile.  It is another one when a hook throws: then those before it
\* in the order of the modules have ended.
ExitIsClean ==
  /\ exited = "clean" => \A m \in inited : {<<"shutdown", m>>, <<"destroy", m>>} \subseteq ended
  /\ exited = "crash" =>
       \A m, n \in inited : (n \in Range(imports[m]) /\ ~LeadsTo[n, m] /\ <<"destroy", m>> \in ended)
                             => <<"destroy", n>> \in ended

\* No module is destroyed before it was shut down; nor, when the manager shuts down,
\* before all were told that it would happen.
DestroyedLast ==
  \A m \in Modules : <<"destroy", m>> \in ended =>
    /\ <<"shutdown", m>> \in ended
    /\ style = "manager" => \A other \in inited : <<"before", other>> \in ended
===============================================================================
