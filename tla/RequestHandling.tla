-------------------------- MODULE RequestHandling ---------------------------
(***************************************************************************)
(* What a request passes before its handler: the plugins, the faults and   *)
(* the places of RequestPipeline, and the hooks of Middleware.  Toolkit    *)
(* checks both with other classes; their invariants are proved here.       *)
(***************************************************************************)
EXTENDS Naturals, FifoLemmas

CONSTANTS Requests, Plugins, Faults, Types, Times, Places, QueueLength, MaxChanges,
          Arrivals, Chains, Urls, Routes, CacheTtl, MaxTicks

VARIABLES chain, routes, plugins, enabled, faults, history, changes, phase, at, seen, loyal, fault,
          answers, passed, running, waiting, forfeited, expired,
          middlewares, ticks, store, reqs

Rp == INSTANCE RequestPipeline
Mw == INSTANCE Middleware WITH Requests <- Arrivals, Ttl <- CacheTtl, MaxNow <- MaxTicks,
        chain <- middlewares, now <- ticks

ASSUME PipelineAssumption == Rp!OptionsOK
ASSUME MiddlewareAssumption == Mw!OptionsOK

pipelineVars == <<chain, routes, plugins, enabled, faults, history, changes, phase, at, seen, loyal,
                  fault, answers, passed, running, waiting, forfeited, expired>>
middlewareVars == <<middlewares, ticks, store, reqs>>
-----------------------------------------------------------------------------
(* RequestPipeline: a request's answers follow from where it is; of each   *)
(* fault the history has as many as it counts; and up to the plugin that   *)
(* a request is at, those that have been enabled were asked.               *)

Rules ==
  [id : Faults, type : Rp!AllTypes, times : Nat, enabled : BOOLEAN, count : Nat, earlier : Nat]

PipelineTypes ==
  /\ chain \in {"gateway", "faults", "stack"} /\ changes \in 0 .. MaxChanges
  /\ plugins \in Seq(Plugins) /\ enabled \subseteq Plugins
  /\ faults \in Seq(Rules) /\ history \in Seq(Faults)
  /\ phase \in [Requests -> Rp!Phases] /\ at \in [Requests -> Nat]
  /\ seen \in [Requests -> Seq({"onRequest", "onRoute"} \X Plugins)]
  /\ loyal \in [Requests -> SUBSET Plugins]
  /\ fault \in [Requests -> Rp!AllTypes \cup {Rp!NoFault}]
  /\ answers \in [Requests -> Nat] /\ passed \in [Requests -> Nat]
  /\ running \in Int /\ waiting \in Seq(Requests) /\ forfeited \in Nat /\ expired \subseteq Requests

\* The 504 of a deadline that had passed.
Before(r) == IF r \in expired THEN 1 ELSE 0

\* A fault of the stack that answers, or none: then the handler does.
Answering(r) == fault[r] \in {"error", Rp!NoFault}

RequestSettled(r) ==
  /\ chain = "gateway" =>
       /\ phase[r] \in {"none", "onRequest", "onRoute", "over", "threw"} /\ answers[r] = 0
       /\ passed[r] = IF phase[r] = "over" THEN 1 ELSE 0
  /\ chain # "gateway" =>
       /\ phase[r] \in {"none", "faults", "delayed", "next", "waiting", "handler", "over", "threw"}
       /\ phase[r] \in {"none", "faults", "next", "waiting", "handler"} => fault[r] = Rp!NoFault
       /\ phase[r] = "delayed" => fault[r] \in {"latency", "timeout"}
       /\ phase[r] \in {"none", "faults", "delayed", "next", "waiting"} => passed[r] = 0
       /\ passed[r] <= 1 /\ (passed[r] = 1 => fault[r] = Rp!NoFault \/ chain = "faults")
       /\ phase[r] # "over" => answers[r] = Before(r)
       /\ phase[r] = "none" => r \notin expired
       /\ r \in expired => chain = "stack"
       /\ phase[r] \in {"waiting", "handler"} => chain = "stack"
       /\ phase[r] = "over" /\ chain = "stack" => answers[r] = Before(r) + IF Answering(r) THEN 1 ELSE 0
       /\ phase[r] = "over" /\ chain = "faults" =>
            answers[r] + passed[r] = IF fault[r] \in {"timeout", "drop", "corrupt"} THEN 0 ELSE 1

InQueue == {r \in Requests : phase[r] = "waiting"}

PlacesTaken ==
  /\ IsFiniteSet(Rp!Handled) /\ Cardinality(Rp!Handled) = running + forfeited
  /\ IsInjective(waiting) /\ Range(waiting) = InQueue /\ Len(waiting) <= QueueLength
  /\ running <= Places /\ (waiting # <<>> => running = Places)

\* The injections of a fault since it was registered.
Injections(f) == {n \in f.earlier + 1 .. Len(history) : history[n] = f.id}

Counted(f) == IsFiniteSet(Injections(f)) /\ Cardinality(Injections(f)) <= f.count

FaultsCount ==
  /\ \A i, j \in DOMAIN faults : faults[i].id = faults[j].id => i = j
  /\ \A i \in DOMAIN faults :
       Counted(faults[i]) /\ (faults[i].times > 0 => faults[i].count <= faults[i].times)

HasSeen(r, hook, p) == <<hook, p>> \in Range(seen[r])

\* The hook of the i-th plugin is behind a request.
IsPast(r, hook, i) ==
  \/ phase[r] = "over"
  \/ phase[r] = "onRoute" /\ hook = "onRequest"
  \/ phase[r] = hook /\ i <= at[r]

PluginsAsked ==
  /\ IsInjective(plugins) /\ enabled \subseteq Range(plugins)
  /\ \A r \in Requests :
       /\ loyal[r] \subseteq enabled /\ at[r] <= Len(plugins) /\ IsInjective(seen[r])
       /\ \A hook \in {"onRequest", "onRoute"}, p \in Plugins :
            HasSeen(r, hook, p) => p \in Range(plugins)
       /\ phase[r] = "none" => at[r] = 0 /\ seen[r] = <<>>
       /\ phase[r] \notin {"onRequest", "onRoute", "over", "threw"} => loyal[r] = {}
       /\ phase[r] \in {"onRequest", "onRoute"} =>
            \A i \in at[r] + 1 .. Len(plugins) : ~HasSeen(r, phase[r], plugins[i])
       /\ phase[r] = "onRequest" => \A p \in Plugins : ~HasSeen(r, "onRoute", p)
       /\ \A hook \in {"onRequest", "onRoute"} : \A i \in DOMAIN plugins :
            IsPast(r, hook, i) /\ plugins[i] \in loyal[r] => HasSeen(r, hook, plugins[i])

PipelineInv ==
  PipelineTypes /\ (\A r \in Requests : RequestSettled(r)) /\ PlacesTaken /\ FaultsCount /\ PluginsAsked


LEMMA PipelineConstants ==
  /\ Times \subseteq Nat /\ Places \in Nat /\ QueueLength \in Nat /\ MaxChanges \in Nat /\ Types \subseteq Rp!AllTypes
  /\ Rp!AllTypes = {"latency", "error", "timeout", "drop", "corrupt"} /\ Rp!NoFault = "none"
BY PipelineAssumption DEF Rp!OptionsOK, Rp!AllTypes, Rp!NoFault

LEMMA PipelineLibrary == \A S : Rp!Cardinality(S) = Cardinality(S)
BY DEF Rp!Cardinality, Cardinality

LEMMA PipelineInit == Rp!Init => PipelineInv
<1> SUFFICES ASSUME Rp!Init PROVE PipelineInv
  OBVIOUS
<1> USE PipelineConstants DEF Rp!Init
<1>1. PipelineTypes
  BY DEF PipelineTypes, Rp!Phases
<1>2. \A r \in Requests : RequestSettled(r)
  BY DEF RequestSettled, Before, Answering
<1>3. PlacesTaken
  <2>1. Rp!Handled = {} /\ InQueue = {}
    BY DEF Rp!Handled, InQueue
  <2>2. IsFiniteSet({}) /\ Cardinality({}) = 0
    BY FS_EmptySet
  <2>3. IsInjective(<<>>) /\ Range(<<>>) = {} /\ Len(<<>>) = 0
    BY DEF IsInjective, Range
  <2> QED
    BY <2>1, <2>2, <2>3 DEF PlacesTaken
<1>4. FaultsCount
  BY DEF FaultsCount
<1>5. PluginsAsked
  <2>1. IsInjective(<<>>) /\ Range(<<>>) = {}
    BY DEF IsInjective, Range
  <2> QED
    BY <2>1 DEF PluginsAsked, HasSeen, IsPast
<1> QED
  BY <1>1, <1>2, <1>3, <1>4, <1>5 DEF PipelineInv

\* Requests that stay where they are.
LEMMA OthersSettled ==
  ASSUME NEW s \in Requests, RequestSettled(s), chain' = chain, phase'[s] = phase[s], answers'[s] = answers[s],
         passed'[s] = passed[s], fault'[s] = fault[s], s \in expired' <=> s \in expired
  PROVE  RequestSettled(s)'
BY DEF RequestSettled, Before, Answering

LEMMA PlacesSame ==
  ASSUME PlacesTaken, UNCHANGED <<running, waiting, forfeited>>,
         \A s \in Requests : /\ phase'[s] = "handler" <=> phase[s] = "handler"
                             /\ phase'[s] = "waiting" <=> phase[s] = "waiting"
  PROVE  PlacesTaken'
<1>1. Rp!Handled' = Rp!Handled /\ InQueue' = InQueue
  BY DEF Rp!Handled, InQueue
<1> QED
  BY <1>1 DEF PlacesTaken

LEMMA CountsSame == FaultsCount /\ UNCHANGED <<faults, history>> => FaultsCount'
BY DEF FaultsCount, Counted, Injections

\* A request without a route: what is known of plugins is about the others.
LEMMA AskedSame ==
  ASSUME PluginsAsked, UNCHANGED <<plugins, enabled, at, seen, loyal>>,
         \A s \in Requests : \/ phase'[s] = phase[s]
                             \/ loyal[s] = {} /\ phase'[s] \notin {"none", "onRequest", "onRoute"}
  PROVE  PluginsAsked'
<1> SUFFICES ASSUME NEW s \in Requests
    PROVE  /\ loyal[s] \subseteq enabled /\ at[s] <= Len(plugins) /\ IsInjective(seen[s])
           /\ \A hook \in {"onRequest", "onRoute"}, p \in Plugins : HasSeen(s, hook, p) => p \in Range(plugins)
           /\ phase'[s] = "none" => at[s] = 0 /\ seen[s] = <<>>
           /\ phase'[s] \notin {"onRequest", "onRoute", "over", "threw"} => loyal[s] = {}
           /\ phase'[s] \in {"onRequest", "onRoute"} =>
                \A i \in at[s] + 1 .. Len(plugins) : ~HasSeen(s, phase'[s], plugins[i])
           /\ phase'[s] = "onRequest" => \A p \in Plugins : ~HasSeen(s, "onRoute", p)
           /\ \A hook \in {"onRequest", "onRoute"} : \A i \in DOMAIN plugins :
                IsPast(s, hook, i)' /\ plugins[i] \in loyal[s] => HasSeen(s, hook, plugins[i])
  BY DEF PluginsAsked, HasSeen
<1>1. CASE phase'[s] = phase[s]
  BY <1>1 DEF PluginsAsked, IsPast
<1>2. CASE loyal[s] = {} /\ phase'[s] \notin {"none", "onRequest", "onRoute"}
  BY <1>2 DEF PluginsAsked
<1> QED
  BY <1>1, <1>2

LEMMA RoutesKeep ==
  ASSUME PipelineInv, UNCHANGED <<chain, plugins, enabled, faults, history, Rp!requestVars>>, Rp!Change
  PROVE  PipelineInv'
<1> USE PipelineConstants DEF PipelineInv, Rp!requestVars, Rp!bulkheadVars
<1>1. PipelineTypes'
  BY DEF PipelineTypes, Rp!Change, Rp!Phases
<1>2. \A s \in Requests : RequestSettled(s)'
  BY OthersSettled
<1> QED
  BY <1>1, <1>2, PlacesSame, CountsSame, AskedSame

LEMMA PluginKeeps ==
  ASSUME PipelineInv, NEW p \in Plugins, NEW enables \in BOOLEAN, Rp!registerPlugin(p, enables)
  PROVE  PipelineInv'
<1> USE PipelineConstants DEF PipelineInv
<1>0. /\ plugins \in Seq(Plugins) /\ Len(plugins) \in Nat /\ DOMAIN plugins = 1 .. Len(plugins)
      /\ IsInjective(plugins)
  BY LenProperties DEF PipelineTypes, PluginsAsked
<1>1. /\ plugins' \in Seq(Plugins) /\ IsInjective(plugins') /\ Range(plugins') = Range(plugins) \cup {p}
      /\ Len(plugins') \in Nat /\ Len(plugins) <= Len(plugins')
      /\ \A i \in 1 .. Len(plugins) : plugins'[i] = plugins[i]
      /\ \A i \in 1 .. Len(plugins') : i > Len(plugins) => plugins'[i] \notin Range(plugins)
  <2>1. CASE \E i \in DOMAIN plugins : plugins[i] = p
    <3>1. plugins' = plugins
      BY <2>1 DEF Rp!registerPlugin
    <3> QED
      BY <1>0, <2>1, <3>1 DEF Range
  <2>2. CASE ~ \E i \in DOMAIN plugins : plugins[i] = p
    <3>1. plugins' = Append(plugins, p) /\ p \notin Range(plugins)
      BY <2>2 DEF Rp!registerPlugin, Range
    <3>2. /\ plugins' \in Seq(Plugins) /\ Len(plugins') = Len(plugins) + 1 /\ plugins'[Len(plugins) + 1] = p
          /\ \A i \in 1 .. Len(plugins) : plugins'[i] = plugins[i]
      BY <1>0, <3>1, AppendProperties
    <3>3. IsInjective(plugins') /\ Range(plugins') = Range(plugins) \cup {p}
      BY <1>0, <3>1, InjectiveAppend, RangeAppend
    <3>4. ASSUME NEW i \in 1 .. Len(plugins'), i > Len(plugins) PROVE plugins'[i] \notin Range(plugins)
      <4>1. i = Len(plugins) + 1
        BY <1>0, <3>2, <3>4
      <4> QED
        BY <3>1, <3>2, <4>1
    <3> QED
      BY <1>0, <3>2, <3>3, <3>4
  <2> QED
    BY <2>1, <2>2
<1>2. /\ enabled' \subseteq enabled \cup {p} /\ enabled' \subseteq Plugins
      /\ loyal' \in [Requests -> SUBSET Plugins]
      /\ \A r \in Requests : loyal'[r] \subseteq loyal[r] /\ loyal'[r] \subseteq enabled'
  <2>1. CASE enables
    BY <2>1 DEF Rp!registerPlugin, PipelineTypes, PluginsAsked
  <2>2. CASE ~enables
    BY <2>2 DEF Rp!registerPlugin, PipelineTypes, PluginsAsked
  <2> QED
    BY <2>1, <2>2
<1>3. UNCHANGED <<chain, routes, faults, history, phase, at, seen, fault, answers, passed, running, waiting,
                  forfeited, expired>>
  BY DEF Rp!registerPlugin, Rp!bulkheadVars
<1>4. PipelineTypes'
  BY <1>1, <1>2, <1>3 DEF PipelineTypes, Rp!registerPlugin, Rp!Change, Rp!Phases
<1>5. \A s \in Requests : RequestSettled(s)'
  BY <1>3, OthersSettled
<1>6. PluginsAsked'
  <2>1. IsInjective(plugins') /\ enabled' \subseteq Range(plugins')
    BY <1>1, <1>2 DEF PluginsAsked
  <2> SUFFICES ASSUME NEW s \in Requests
      PROVE  /\ loyal'[s] \subseteq enabled' /\ at[s] <= Len(plugins') /\ IsInjective(seen[s])
             /\ \A hook \in {"onRequest", "onRoute"}, q \in Plugins : HasSeen(s, hook, q) => q \in Range(plugins')
             /\ phase[s] = "none" => at[s] = 0 /\ seen[s] = <<>>
             /\ phase[s] \notin {"onRequest", "onRoute", "over", "threw"} => loyal'[s] = {}
             /\ phase[s] \in {"onRequest", "onRoute"} =>
                  \A i \in at[s] + 1 .. Len(plugins') : ~HasSeen(s, phase[s], plugins'[i])
             /\ phase[s] = "onRequest" => \A q \in Plugins : ~HasSeen(s, "onRoute", q)
             /\ \A hook \in {"onRequest", "onRoute"} : \A i \in DOMAIN plugins' :
                  IsPast(s, hook, i)' /\ plugins'[i] \in loyal'[s] => HasSeen(s, hook, plugins'[i])
    BY <1>3, <2>1 DEF PluginsAsked, HasSeen
  <2>2. at[s] \in Nat /\ at[s] <= Len(plugins)
    BY DEF PipelineTypes, PluginsAsked
  <2>3. ASSUME NEW hook \in {"onRequest", "onRoute"}, NEW i \in DOMAIN plugins', IsPast(s, hook, i)',
               plugins'[i] \in loyal'[s]
        PROVE  HasSeen(s, hook, plugins'[i])
    <3>1. plugins'[i] \in Range(plugins) /\ i \in 1 .. Len(plugins')
      BY <1>1, <1>2, <2>3, LenProperties DEF PluginsAsked
    <3>2. i \in DOMAIN plugins /\ plugins'[i] = plugins[i]
      BY <1>0, <1>1, <3>1
    <3>3. IsPast(s, hook, i)
      BY <1>3, <2>3 DEF IsPast
    <3> QED
      BY <1>2, <2>3, <3>2, <3>3 DEF PluginsAsked
  <2>4. ASSUME phase[s] \in {"onRequest", "onRoute"}, NEW i \in at[s] + 1 .. Len(plugins')
        PROVE  ~HasSeen(s, phase[s], plugins'[i])
    <3>1. i \in Nat /\ i <= Len(plugins') /\ i > at[s] /\ plugins'[i] \in Plugins
      BY <1>1, <2>2, ElementOfSeq
    <3>2. CASE i <= Len(plugins)
      <4>1. i \in at[s] + 1 .. Len(plugins) /\ plugins'[i] = plugins[i]
        BY <1>0, <1>1, <2>2, <3>1, <3>2
      <4> QED
        BY <2>4, <4>1 DEF PluginsAsked
    <3>3. CASE i > Len(plugins)
      <4>1. plugins'[i] \notin Range(plugins)
        BY <1>0, <1>1, <3>1, <3>3
      <4> QED
        BY <2>4, <3>1, <4>1 DEF PluginsAsked
    <3> QED
      BY <1>0, <3>1, <3>2, <3>3
  <2> QED
    BY <1>0, <1>1, <1>2, <2>2, <2>3, <2>4 DEF PluginsAsked
<1> QED
  BY <1>3, <1>4, <1>5, <1>6, PlacesSame, CountsSame
\* What is known of a request's plugins.
AskedOf(r) ==
  /\ loyal[r] \subseteq enabled /\ at[r] <= Len(plugins) /\ IsInjective(seen[r])
  /\ \A hook \in {"onRequest", "onRoute"}, p \in Plugins : HasSeen(r, hook, p) => p \in Range(plugins)
  /\ phase[r] = "none" => at[r] = 0 /\ seen[r] = <<>>
  /\ phase[r] \notin {"onRequest", "onRoute", "over", "threw"} => loyal[r] = {}
  /\ phase[r] \in {"onRequest", "onRoute"} =>
       \A i \in at[r] + 1 .. Len(plugins) : ~HasSeen(r, phase[r], plugins[i])
  /\ phase[r] = "onRequest" => \A p \in Plugins : ~HasSeen(r, "onRoute", p)
  /\ \A hook \in {"onRequest", "onRoute"} : \A i \in DOMAIN plugins :
       IsPast(r, hook, i) /\ plugins[i] \in loyal[r] => HasSeen(r, hook, plugins[i])

LEMMA AskedParts == PluginsAsked <=> /\ IsInjective(plugins) /\ enabled \subseteq Range(plugins)
                                     /\ \A r \in Requests : AskedOf(r)
BY DEF PluginsAsked, AskedOf

\* A step of one request is known when it is known of that request.
LEMMA AskedOne ==
  ASSUME PluginsAsked, NEW r \in Requests, UNCHANGED <<plugins, enabled>>, AskedOf(r)',
         \A s \in Requests \ {r} : phase'[s] = phase[s] /\ at'[s] = at[s] /\ seen'[s] = seen[s] /\ loyal'[s] = loyal[s]
  PROVE  PluginsAsked'
<1>1. ASSUME NEW s \in Requests \ {r} PROVE AskedOf(s)'
  <2>1. AskedOf(s)
    BY AskedParts
  <2> QED
    BY <2>1 DEF AskedOf, HasSeen, IsPast
<1> QED
  BY <1>1 DEF PluginsAsked, AskedOf

LEMMA RequestFacts ==
  ASSUME PipelineInv, NEW r \in Requests
  PROVE  /\ plugins \in Seq(Plugins) /\ Len(plugins) \in Nat /\ DOMAIN plugins = 1 .. Len(plugins)
         /\ \A i \in 1 .. Len(plugins) : plugins[i] \in Plugins
         /\ IsInjective(plugins) /\ enabled \subseteq Range(plugins)
         /\ at[r] \in Nat /\ at[r] <= Len(plugins) /\ loyal[r] \subseteq Plugins
         /\ seen[r] \in Seq({"onRequest", "onRoute"} \X Plugins)
         /\ DOMAIN at = Requests /\ DOMAIN seen = Requests /\ DOMAIN loyal = Requests
         /\ DOMAIN phase = Requests /\ DOMAIN answers = Requests /\ DOMAIN passed = Requests
         /\ DOMAIN fault = Requests
         /\ answers[r] \in Nat /\ passed[r] \in Nat /\ RequestSettled(r) /\ AskedOf(r)
<1>1. PipelineTypes /\ PluginsAsked /\ RequestSettled(r)
  BY DEF PipelineInv
<1>2. Len(plugins) \in Nat /\ DOMAIN plugins = 1 .. Len(plugins) /\ \A i \in 1 .. Len(plugins) : plugins[i] \in Plugins
  BY <1>1, LenProperties, ElementOfSeq DEF PipelineTypes
<1> QED
  BY <1>1, <1>2, AskedParts DEF PipelineTypes, AskedOf

LEMMA MatchKeeps ==
  ASSUME PipelineInv, NEW r \in Requests, Rp!matchRoute(r)
  PROVE  PipelineInv'
<1> USE PipelineConstants
<1>0. /\ PipelineTypes /\ PlacesTaken /\ FaultsCount /\ PluginsAsked
      /\ \A s \in Requests : RequestSettled(s)
  BY DEF PipelineInv
<1>1. /\ chain = "gateway" /\ phase[r] = "none"
      /\ UNCHANGED <<chain, routes, plugins, enabled, faults, history, at, seen, fault, answers, running,
                     waiting, forfeited, expired>>
      /\ Rp!Change
  BY DEF Rp!matchRoute, Rp!tableVars, Rp!bulkheadVars
<1>2. \/ /\ phase' = [phase EXCEPT ![r] = "onRequest"] /\ loyal' = [loyal EXCEPT ![r] = enabled] /\ passed' = passed
      \/ /\ phase' = [phase EXCEPT ![r] = "over"] /\ loyal' = loyal /\ passed' = [passed EXCEPT ![r] = @ + 1]
  BY DEF Rp!matchRoute, Rp!Go
<1>3. PipelineTypes'
  <2>1. phase' \in [Requests -> Rp!Phases]
    BY <1>0, <1>2 DEF PipelineTypes, Rp!Phases
  <2>2. passed' \in [Requests -> Nat]
    <3>1. passed \in [Requests -> Nat]
      BY <1>0 DEF PipelineTypes
    <3> QED
      BY <1>2, <3>1
  <2>3. loyal' \in [Requests -> SUBSET Plugins]
    BY <1>0, <1>1, <1>2 DEF PipelineTypes
  <2>4. at' \in [Requests -> Nat]
    BY <1>0, <1>1 DEF PipelineTypes
  <2>5. changes' \in 0 .. MaxChanges
    BY <1>0, <1>1 DEF PipelineTypes, Rp!Change
  <2> QED
    BY <1>0, <1>1, <2>1, <2>2, <2>3, <2>4, <2>5 DEF PipelineTypes
<1>4. ASSUME NEW s \in Requests PROVE RequestSettled(s)'
  <2>1. CASE s # r
    BY <1>0, <1>1, <1>2, <2>1, OthersSettled DEF PipelineTypes
  <2>2. CASE s = r
    BY <1>1, <1>2, <2>2, RequestFacts DEF RequestSettled
  <2> QED
    BY <2>1, <2>2
<1>5. PlacesTaken'
  BY <1>0, <1>1, <1>2, PlacesSame DEF PipelineTypes
<1>6. PluginsAsked'
  <2>1. at[r] = 0 /\ seen[r] = <<>> /\ loyal[r] = {} /\ Len(plugins) \in Nat
    BY <1>1, RequestFacts DEF AskedOf
  <2>2. IsInjective(<<>>) /\ Range(<<>>) = {}
    BY DEF IsInjective, Range
  <2>4. at'[r] = 0 /\ seen'[r] = <<>> /\ plugins' = plugins /\ enabled' = enabled
    BY <1>1, <2>1
  <2>5. ASSUME phase'[r] = "onRequest", loyal'[r] = enabled PROVE AskedOf(r)'
    <3>1. \A hook \in {"onRequest", "onRoute"}, i \in DOMAIN plugins : ~IsPast(r, hook, i)'
      BY <2>1, <2>4, <2>5, LenProperties, RequestFacts DEF IsPast
    <3> QED
      BY <2>1, <2>2, <2>4, <2>5, <3>1 DEF AskedOf, HasSeen
  <2>6. ASSUME phase'[r] = "over", loyal'[r] = {} PROVE AskedOf(r)'
    BY <2>1, <2>2, <2>4, <2>6 DEF AskedOf, HasSeen
  <2>7. AskedOf(r)'
    BY <1>2, <2>1, <2>5, <2>6, RequestFacts
  <2> QED
    BY <1>0, <1>1, <1>2, <2>7, AskedOne DEF PipelineTypes
<1> QED
  BY <1>0, <1>1, <1>3, <1>4, <1>5, <1>6, CountsSame DEF PipelineInv

LEMMA HookKeeps ==
  ASSUME PipelineInv, NEW r \in Requests, Rp!Hook(r)
  PROVE  PipelineInv'
<1> USE PipelineConstants
<1>0. /\ PipelineTypes /\ PlacesTaken /\ FaultsCount /\ PluginsAsked
      /\ \A s \in Requests : RequestSettled(s)
  BY DEF PipelineInv
<1>1. /\ phase[r] \in {"onRequest", "onRoute"}
      /\ UNCHANGED <<chain, routes, plugins, enabled, faults, history, changes, phase, loyal, fault,
                     answers, passed, running, waiting, forfeited, expired>>
  BY DEF Rp!Hook, Rp!tableVars, Rp!bulkheadVars
<1>2. PICK i \in Rp!Ahead(r) :
        /\ \A j \in Rp!Ahead(r) : i <= j
        /\ at' = [at EXCEPT ![r] = i] /\ seen' = [seen EXCEPT ![r] = Append(@, <<phase[r], plugins[i]>>)]
  BY DEF Rp!Hook
<1>3. i \in 1 .. Len(plugins) /\ i > at[r] /\ plugins[i] \in enabled /\ plugins[i] \in Plugins
  BY RequestFacts DEF Rp!Ahead
<1> DEFINE call == <<phase[r], plugins[i]>>
<1>4. call \in {"onRequest", "onRoute"} \X Plugins
  BY <1>1, <1>3
<1>5. call \notin Range(seen[r])
  <2>1. i \in at[r] + 1 .. Len(plugins)
    BY <1>3, RequestFacts
  <2> QED
    BY <1>1, <2>1, RequestFacts DEF AskedOf, HasSeen
<1>6. /\ seen'[r] = Append(seen[r], call) /\ IsInjective(seen'[r]) /\ at'[r] = i
      /\ Range(seen'[r]) = Range(seen[r]) \cup {call} /\ seen'[r] \in Seq({"onRequest", "onRoute"} \X Plugins)
  <2>1. seen'[r] = Append(seen[r], call) /\ at'[r] = i
    BY <1>2, RequestFacts
  <2>2. IsInjective(seen[r]) /\ seen[r] \in Seq({"onRequest", "onRoute"} \X Plugins)
    BY RequestFacts DEF AskedOf
  <2> HIDE DEF call
  <2> QED
    BY <1>4, <1>5, <2>1, <2>2, InjectiveAppend, RangeAppend, AppendProperties
<1>7. PipelineTypes'
  <2>1. seen' \in [Requests -> Seq({"onRequest", "onRoute"} \X Plugins)]
    BY <1>0, <1>2, <1>6 DEF PipelineTypes
  <2>2. at' \in [Requests -> Nat]
    BY <1>0, <1>2, <1>3 DEF PipelineTypes
  <2> QED
    BY <1>0, <1>1, <2>1, <2>2 DEF PipelineTypes, Rp!Phases
<1>8. \A s \in Requests : RequestSettled(s)'
  BY <1>0, <1>1, OthersSettled
<1>9. AskedOf(r)'
  <2>0. /\ AskedOf(r) /\ Len(plugins) \in Nat /\ at[r] \in Nat /\ IsInjective(plugins)
        /\ DOMAIN plugins = 1 .. Len(plugins) /\ \A j \in 1 .. Len(plugins) : plugins[j] \in Plugins
    BY RequestFacts
  <2>1. \A hook, p : HasSeen(r, hook, p)' <=> HasSeen(r, hook, p) \/ (hook = phase[r] /\ p = plugins[i])
    BY <1>6 DEF HasSeen
  <2>2. loyal'[r] \subseteq enabled' /\ at'[r] <= Len(plugins') /\ IsInjective(seen'[r])
    BY <1>1, <1>3, <1>6, <2>0 DEF AskedOf
  <2>3. \A hook \in {"onRequest", "onRoute"}, p \in Plugins : HasSeen(r, hook, p)' => p \in Range(plugins)
    BY <1>3, <2>0, <2>1 DEF AskedOf, Range
  <2>4. ASSUME NEW j \in i + 1 .. Len(plugins) PROVE ~HasSeen(r, phase[r], plugins[j])'
    <3>1. j \in at[r] + 1 .. Len(plugins) /\ j # i /\ j \in 1 .. Len(plugins)
      BY <1>3, <2>0
    <3>2. plugins[j] # plugins[i]
      BY <1>3, <2>0, <3>1 DEF IsInjective
    <3> QED
      BY <1>1, <2>0, <2>1, <3>1, <3>2 DEF AskedOf
  <2>5. phase[r] = "onRequest" => \A p \in Plugins : ~HasSeen(r, "onRoute", p)'
    BY <2>0, <2>1 DEF AskedOf
  <2>6. ASSUME NEW hook \in {"onRequest", "onRoute"}, NEW j \in DOMAIN plugins, IsPast(r, hook, j)',
               plugins[j] \in loyal[r]
        PROVE  HasSeen(r, hook, plugins[j])'
    <3>1. CASE IsPast(r, hook, j)
      <4>1. HasSeen(r, hook, plugins[j])
        BY <2>0, <2>6, <3>1 DEF AskedOf
      <4> HIDE DEF call
      <4> QED
        BY <1>1, <1>6, <4>1 DEF HasSeen
    <3>2. CASE ~IsPast(r, hook, j)
      <4>1. hook = phase[r] /\ j <= i /\ at[r] < j /\ j \in Nat /\ plugins[j] \in enabled
        BY <1>1, <1>3, <1>6, <2>0, <2>6, <3>2 DEF IsPast, AskedOf
      <4>2. j \in Rp!Ahead(r)
        BY <4>1 DEF Rp!Ahead
      <4>3. j = i
        BY <1>2, <1>3, <4>1, <4>2
      <4> QED
        BY <1>1, <1>6, <4>1, <4>3 DEF HasSeen
    <3> QED
      BY <3>1, <3>2
  <2>7. phase'[r] = phase[r] /\ plugins' = plugins /\ loyal'[r] = loyal[r] /\ at'[r] = i
    BY <1>1, <1>6
  <2> QED
    BY <1>1, <2>2, <2>3, <2>4, <2>5, <2>6, <2>7 DEF AskedOf
<1>10. PluginsAsked'
  BY <1>0, <1>1, <1>2, <1>9, AskedOne DEF PipelineTypes
<1> QED
  BY <1>0, <1>1, <1>7, <1>8, <1>10, PlacesSame, CountsSame DEF PipelineInv

LEMMA HooksDoneKeeps ==
  ASSUME PipelineInv, NEW r \in Requests, Rp!HooksDone(r)
  PROVE  PipelineInv'
<1> USE PipelineConstants
<1>0. /\ PipelineTypes /\ PlacesTaken /\ FaultsCount /\ PluginsAsked
      /\ \A s \in Requests : RequestSettled(s)
  BY DEF PipelineInv
<1>1. /\ phase[r] \in {"onRequest", "onRoute"} /\ Rp!Ahead(r) = {} /\ at' = [at EXCEPT ![r] = 0]
      /\ UNCHANGED <<chain, routes, plugins, enabled, faults, history, changes, seen, loyal, fault,
                     answers, running, waiting, forfeited, expired>>
  BY DEF Rp!HooksDone, Rp!tableVars, Rp!bulkheadVars
<1>2. \/ /\ phase[r] = "onRequest" /\ phase' = [phase EXCEPT ![r] = "onRoute"] /\ passed' = passed
      \/ /\ phase[r] = "onRoute" /\ phase' = [phase EXCEPT ![r] = "over"]
         /\ passed' = [passed EXCEPT ![r] = @ + 1]
  BY <1>1 DEF Rp!HooksDone, Rp!Go
<1>3. PipelineTypes'
  <2>1. phase' \in [Requests -> Rp!Phases]
    BY <1>0, <1>2 DEF PipelineTypes, Rp!Phases
  <2>2. passed' \in [Requests -> Nat]
    <3>1. passed \in [Requests -> Nat]
      BY <1>0 DEF PipelineTypes
    <3> QED
      BY <1>2, <3>1
  <2>3. loyal' \in [Requests -> SUBSET Plugins]
    BY <1>0, <1>1, <1>2 DEF PipelineTypes
  <2>4. at' \in [Requests -> Nat]
    BY <1>0, <1>1 DEF PipelineTypes
  <2> QED
    BY <1>0, <1>1, <2>1, <2>2, <2>3, <2>4 DEF PipelineTypes
<1>4. ASSUME NEW s \in Requests PROVE RequestSettled(s)'
  <2>1. CASE s # r
    BY <1>0, <1>1, <1>2, <2>1, OthersSettled DEF PipelineTypes
  <2>2. CASE s = r
    BY <1>1, <1>2, <2>2, RequestFacts DEF RequestSettled
  <2> QED
    BY <2>1, <2>2
<1>5. PlacesTaken'
  BY <1>0, <1>1, <1>2, PlacesSame DEF PipelineTypes
<1>6. AskedOf(r)'
  <2>0. /\ AskedOf(r) /\ Len(plugins) \in Nat /\ at[r] \in Nat
        /\ DOMAIN plugins = 1 .. Len(plugins) /\ \A j \in 1 .. Len(plugins) : plugins[j] \in Plugins
        /\ loyal[r] \subseteq Plugins /\ at[r] <= Len(plugins)
    BY RequestFacts
  <2>1. ASSUME NEW j \in DOMAIN plugins, plugins[j] \in loyal[r] PROVE HasSeen(r, phase[r], plugins[j])
    <3>1. plugins[j] \in enabled
      BY <2>0, <2>1 DEF AskedOf
    <3>2. j <= at[r]
      BY <1>1, <2>0, <3>1 DEF Rp!Ahead
    <3> QED
      BY <1>1, <2>0, <2>1, <3>2 DEF AskedOf, IsPast
  <2>2. \A hook, p : HasSeen(r, hook, p)' <=> HasSeen(r, hook, p)
    BY <1>1 DEF HasSeen
  <2>3. at'[r] = 0 /\ loyal'[r] = loyal[r] /\ seen'[r] = seen[r] /\ plugins' = plugins /\ enabled' = enabled
    BY <1>0, <1>1 DEF PipelineTypes
  <2>4. CASE phase[r] = "onRequest" /\ phase'[r] = "onRoute"
    <3>1. \A j \in DOMAIN plugins : ~HasSeen(r, "onRoute", plugins[j])
      BY <2>0, <2>4 DEF AskedOf
    <3>2. \A j \in DOMAIN plugins : ~IsPast(r, "onRoute", j)'
      BY <2>0, <2>3, <2>4 DEF IsPast
    <3> QED
      BY <2>0, <2>1, <2>2, <2>3, <2>4, <3>1, <3>2 DEF AskedOf
  <2>5. CASE phase[r] = "onRoute" /\ phase'[r] = "over"
    <3>1. \A j \in DOMAIN plugins : IsPast(r, "onRequest", j)
      BY <2>5 DEF IsPast
    <3> QED
      BY <2>0, <2>1, <2>2, <2>3, <2>5, <3>1 DEF AskedOf
  <2> QED
    BY <1>0, <1>2, <2>4, <2>5 DEF PipelineTypes
<1>7. PluginsAsked'
  BY <1>0, <1>1, <1>2, <1>6, AskedOne DEF PipelineTypes
<1> QED
  BY <1>0, <1>1, <1>3, <1>4, <1>5, <1>7, CountsSame DEF PipelineInv

LEMMA HookFailsKeeps ==
  ASSUME PipelineInv, NEW r \in Requests, Rp!HookFails(r)
  PROVE  PipelineInv'
<1> USE PipelineConstants
<1>0. /\ PipelineTypes /\ PlacesTaken /\ FaultsCount /\ PluginsAsked
      /\ \A s \in Requests : RequestSettled(s)
  BY DEF PipelineInv
<1>1. /\ phase[r] \in {"onRequest", "onRoute"} /\ phase' = [phase EXCEPT ![r] = "threw"]
      /\ UNCHANGED <<chain, routes, plugins, enabled, faults, history, changes, at, seen, loyal, fault,
                     answers, passed, running, waiting, forfeited, expired>>
  BY DEF Rp!HookFails, Rp!Go, Rp!tableVars, Rp!bulkheadVars
<1>3. PipelineTypes'
  BY <1>0, <1>1 DEF PipelineTypes, Rp!Phases
<1>4. ASSUME NEW s \in Requests PROVE RequestSettled(s)'
  <2>1. CASE s # r
    BY <1>0, <1>1, <2>1, OthersSettled DEF PipelineTypes
  <2>2. CASE s = r
    BY <1>0, <1>1, <2>2 DEF RequestSettled, PipelineTypes
  <2> QED
    BY <2>1, <2>2
<1>5. PlacesTaken'
  BY <1>0, <1>1, PlacesSame DEF PipelineTypes
<1>6. AskedOf(r)'
  <2>1. AskedOf(r) /\ phase'[r] = "threw"
    BY <1>0, <1>1, RequestFacts DEF PipelineTypes
  <2>2. \A hook \in {"onRequest", "onRoute"}, i \in DOMAIN plugins : ~IsPast(r, hook, i)'
    BY <2>1 DEF IsPast
  <2>3. \A hook, p : HasSeen(r, hook, p)' <=> HasSeen(r, hook, p)
    BY <1>1 DEF HasSeen
  <2> QED
    BY <1>1, <2>1, <2>2, <2>3 DEF AskedOf
<1>7. PluginsAsked'
  BY <1>0, <1>1, <1>6, AskedOne DEF PipelineTypes
<1> QED
  BY <1>0, <1>1, <1>3, <1>4, <1>5, <1>7, CountsSame DEF PipelineInv

\* A change of the table of faults: requests stay where they are.
LEMMA TableKeeps ==
  ASSUME PipelineInv, UNCHANGED <<chain, routes, plugins, enabled, Rp!requestVars>>, Rp!Change,
         faults' \in Seq(Rules), history' \in Seq(Faults), FaultsCount'
  PROVE  PipelineInv'
<1> USE PipelineConstants DEF PipelineInv, Rp!requestVars, Rp!bulkheadVars
<1>1. PipelineTypes'
  BY DEF PipelineTypes, Rp!Change, Rp!Phases
<1>2. \A s \in Requests : RequestSettled(s)'
  BY OthersSettled
<1> QED
  BY <1>1, <1>2, PlacesSame, AskedSame

LEMMA RuleFacts ==
  ASSUME PipelineInv
  PROVE  /\ faults \in Seq(Rules) /\ Len(faults) \in Nat /\ DOMAIN faults = 1 .. Len(faults)
         /\ history \in Seq(Faults) /\ Len(history) \in Nat /\ DOMAIN history = 1 .. Len(history)
         /\ \A i \in 1 .. Len(faults) : faults[i] \in Rules
         /\ FaultsCount
BY LenProperties, ElementOfSeq DEF PipelineInv, PipelineTypes

\* Faults that are those of before, apart from being enabled, or are new.
LEMMA CountsAfter ==
  ASSUME FaultsCount, history' = history, Len(history) \in Nat,
         \A i, j \in DOMAIN faults' : faults'[i].id = faults'[j].id => i = j,
         \A i \in DOMAIN faults' :
           \/ \E j \in DOMAIN faults : /\ faults'[i].id = faults[j].id /\ faults'[i].earlier = faults[j].earlier
                                       /\ faults'[i].count = faults[j].count /\ faults'[i].times = faults[j].times
           \/ faults'[i].count = 0 /\ faults'[i].times \in Nat /\ faults'[i].earlier = Len(history)
  PROVE  FaultsCount'
<1>1. ASSUME NEW i \in DOMAIN faults'
      PROVE  Counted(faults[i])' /\ (faults'[i].times > 0 => faults'[i].count <= faults'[i].times)
  <2>1. CASE \E j \in DOMAIN faults : /\ faults'[i].id = faults[j].id /\ faults'[i].earlier = faults[j].earlier
                                      /\ faults'[i].count = faults[j].count /\ faults'[i].times = faults[j].times
    <3>1. PICK j \in DOMAIN faults : /\ faults'[i].id = faults[j].id /\ faults'[i].earlier = faults[j].earlier
                                     /\ faults'[i].count = faults[j].count /\ faults'[i].times = faults[j].times
      BY <2>1
    <3>2. Injections(faults[i])' = Injections(faults[j])
      BY <3>1 DEF Injections
    <3>3. Counted(faults[j]) /\ (faults[j].times > 0 => faults[j].count <= faults[j].times)
      BY <3>1 DEF FaultsCount
    <3> QED
      BY <3>1, <3>2, <3>3 DEF Counted
  <2>2. CASE faults'[i].count = 0 /\ faults'[i].times \in Nat /\ faults'[i].earlier = Len(history)
    <3>1. Len(history) + 1 .. Len(history) = {}
      OBVIOUS
    <3>2. Injections(faults[i])' = {}
      BY <2>2, <3>1 DEF Injections
    <3>3. Counted(faults[i])'
      BY <2>2, <3>2, FS_EmptySet DEF Counted
    <3> QED
      BY <2>2, <3>3
  <2> QED
    BY <1>1, <2>1, <2>2
<1> QED
  BY <1>1 DEF FaultsCount

LEMMA RegisterKeeps ==
  ASSUME PipelineInv, NEW id \in Faults, NEW type \in Types, NEW times \in Times, Rp!register(id, type, times)
  PROVE  PipelineInv'
<1> USE PipelineConstants
<1>0. /\ faults \in Seq(Rules) /\ Len(faults) \in Nat /\ DOMAIN faults = 1 .. Len(faults)
      /\ history \in Seq(Faults) /\ Len(history) \in Nat
      /\ \A i \in 1 .. Len(faults) : faults[i] \in Rules
      /\ FaultsCount
  BY RuleFacts
<1> DEFINE new == [id |-> id, type |-> type, times |-> times, enabled |-> TRUE, count |-> 0,
                   earlier |-> Len(history)]
<1>1. history' = history /\ UNCHANGED <<chain, routes, plugins, enabled, Rp!requestVars>> /\ Rp!Change
  BY DEF Rp!register, Rp!SetFaults
<1>2. faults' = IF Rp!InMap(faults, id)
                THEN [i \in DOMAIN faults |-> IF faults[i].id = id THEN new ELSE faults[i]]
                ELSE Append(faults, new)
  BY DEF Rp!register, Rp!SetFaults
<1>3. new \in Rules /\ new.id = id /\ new.count = 0 /\ new.times \in Nat /\ new.earlier = Len(history)
  BY <1>0 DEF Rules
<1> HIDE DEF new
<1>4. CASE Rp!InMap(faults, id)
  <2>1. faults' = [i \in 1 .. Len(faults) |-> IF faults[i].id = id THEN new ELSE faults[i]]
    BY <1>0, <1>2, <1>4
  <2>2. faults' \in Seq(Rules)
    <3>1. faults' \in [1 .. Len(faults) -> Rules]
      BY <1>0, <1>3, <2>1
    <3> QED
      BY <1>0, <3>1, SeqDef
  <2>3. \A i \in DOMAIN faults' : faults'[i].id = faults[i].id /\ i \in DOMAIN faults
    BY <1>0, <1>3, <2>1
  <2>4. \A i, j \in DOMAIN faults' : faults'[i].id = faults'[j].id => i = j
    BY <1>0, <2>3 DEF FaultsCount
  <2>5. \A i \in DOMAIN faults' :
          \/ faults'[i] = faults[i]
          \/ faults'[i].count = 0 /\ faults'[i].times \in Nat /\ faults'[i].earlier = Len(history)
    BY <1>3, <2>1
  <2>6. FaultsCount'
    BY <1>0, <1>1, <2>3, <2>4, <2>5, CountsAfter
  <2> QED
    BY <1>0, <1>1, <2>2, <2>6, TableKeeps
<1>5. CASE ~Rp!InMap(faults, id)
  <2>1. faults' = Append(faults, new)
    BY <1>2, <1>5
  <2>2. /\ faults' \in Seq(Rules) /\ DOMAIN faults' = 1 .. Len(faults) + 1 /\ faults'[Len(faults) + 1] = new
        /\ \A i \in 1 .. Len(faults) : faults'[i] = faults[i]
    BY <1>0, <1>3, <2>1, AppendProperties, LenProperties
  <2>3. \A i \in 1 .. Len(faults) : faults[i].id # id
    BY <1>0, <1>5 DEF Rp!InMap
  <2>4. \A i \in DOMAIN faults' : i \in DOMAIN faults \/ i = Len(faults) + 1
    BY <1>0, <2>2
  <2>5. \A i, j \in DOMAIN faults' : faults'[i].id = faults'[j].id => i = j
    BY <1>0, <1>3, <2>2, <2>3, <2>4 DEF FaultsCount
  <2>6. \A i \in DOMAIN faults' :
          \/ i \in DOMAIN faults /\ faults'[i] = faults[i]
          \/ faults'[i].count = 0 /\ faults'[i].times \in Nat /\ faults'[i].earlier = Len(history)
    BY <1>0, <1>3, <2>2, <2>4
  <2>7. FaultsCount'
    BY <1>0, <1>1, <2>5, <2>6, CountsAfter
  <2> QED
    BY <1>0, <1>1, <2>2, <2>7, TableKeeps
<1> QED
  BY <1>4, <1>5

LEMMA UnregisterKeeps ==
  ASSUME PipelineInv, NEW i \in DOMAIN faults, Rp!unregister(i)
  PROVE  PipelineInv'
<1> USE PipelineConstants
<1>0. /\ faults \in Seq(Rules) /\ Len(faults) \in Nat /\ DOMAIN faults = 1 .. Len(faults)
      /\ history \in Seq(Faults) /\ Len(history) \in Nat
      /\ \A j \in 1 .. Len(faults) : faults[j] \in Rules
      /\ FaultsCount /\ i \in 1 .. Len(faults)
  BY RuleFacts
<1>1. /\ history' = history /\ UNCHANGED <<chain, routes, plugins, enabled, Rp!requestVars>> /\ Rp!Change
      /\ faults' = SubSeq(faults, 1, i - 1) \o SubSeq(faults, i + 1, Len(faults))
  BY DEF Rp!unregister, Rp!SetFaults, Rp!Without
<1>2. IsInjective(faults)
  BY <1>0 DEF FaultsCount, IsInjective
<1>3. faults' \in Seq(Rules) /\ IsInjective(faults') /\ Range(faults') = Range(faults) \ {faults[i]}
  BY <1>0, <1>1, <1>2, RemoveFromLine
<1>4. \A j \in DOMAIN faults' : \E k \in DOMAIN faults : faults'[j] = faults[k]
  BY <1>3 DEF Range
<1>5. \A j, k \in DOMAIN faults' : faults'[j].id = faults'[k].id => j = k
  BY <1>0, <1>3, <1>4 DEF FaultsCount, IsInjective
<1>6. FaultsCount'
  BY <1>0, <1>1, <1>4, <1>5, CountsAfter
<1> QED
  BY <1>0, <1>1, <1>3, <1>6, TableKeeps

LEMMA EnabledKeeps ==
  ASSUME PipelineInv, NEW i \in DOMAIN faults, Rp!setEnabled(i)
  PROVE  PipelineInv'
<1> USE PipelineConstants
<1>0. /\ faults \in Seq(Rules) /\ Len(faults) \in Nat /\ DOMAIN faults = 1 .. Len(faults)
      /\ history \in Seq(Faults) /\ Len(history) \in Nat
      /\ \A j \in 1 .. Len(faults) : faults[j] \in Rules
      /\ FaultsCount /\ i \in 1 .. Len(faults)
  BY RuleFacts
<1>1. /\ history' = history /\ UNCHANGED <<chain, routes, plugins, enabled, Rp!requestVars>> /\ Rp!Change
      /\ faults' = [faults EXCEPT ![i].enabled = ~@]
  BY DEF Rp!setEnabled, Rp!SetFaults
<1>2. /\ DOMAIN faults' = 1 .. Len(faults)
      /\ \A j \in 1 .. Len(faults) :
           /\ faults'[j] \in Rules /\ faults'[j].id = faults[j].id /\ faults'[j].earlier = faults[j].earlier
           /\ faults'[j].count = faults[j].count /\ faults'[j].times = faults[j].times
  BY <1>0, <1>1 DEF Rules
<1>3. faults' \in Seq(Rules)
  <2>1. faults' \in [1 .. Len(faults) -> Rules]
    BY <1>0, <1>1, <1>2
  <2> QED
    BY <1>0, <2>1, SeqDef
<1>4. FaultsCount'
  <2>1. \A j, k \in DOMAIN faults' : faults'[j].id = faults'[k].id => j = k
    BY <1>0, <1>2 DEF FaultsCount
  <2> QED
    BY <1>0, <1>1, <1>2, <2>1, CountsAfter
<1> QED
  BY <1>0, <1>1, <1>3, <1>4, TableKeeps

LEMMA ClearFaultsKeeps ==
  ASSUME PipelineInv, Rp!clear
  PROVE  PipelineInv'
<1>1. /\ history' = <<>> /\ faults' = <<>> /\ UNCHANGED <<chain, routes, plugins, enabled, Rp!requestVars>>
      /\ Rp!Change
  BY DEF Rp!clear, Rp!SetFaults
<1>2. FaultsCount'
  BY <1>1 DEF FaultsCount
<1> QED
  BY <1>1, <1>2, TableKeeps

\* What the fault middlewares and the bulkhead do with requests.
LEMMA FaultSteps ==
  ASSUME PipelineInv, UNCHANGED <<chain, routes, plugins, enabled, at, seen, loyal>>,
         changes' \in 0 .. MaxChanges, phase' \in [Requests -> Rp!Phases],
         \A s \in Requests : \/ phase'[s] = phase[s]
                             \/ /\ phase[s] \in {"none", "faults", "delayed", "next", "waiting", "handler"}
                                /\ phase'[s] \notin {"none", "onRequest", "onRoute"},
         faults' \in Seq(Rules), history' \in Seq(Faults), FaultsCount', PlacesTaken',
         answers' \in [Requests -> Nat], passed' \in [Requests -> Nat],
         fault' \in [Requests -> Rp!AllTypes \cup {Rp!NoFault}],
         running' \in Int, waiting' \in Seq(Requests), forfeited' \in Nat, expired' \subseteq Requests,
         \A s \in Requests : RequestSettled(s)'
  PROVE  PipelineInv'
<1>0. PipelineTypes /\ PluginsAsked
  BY DEF PipelineInv
<1>1. PipelineTypes'
  BY <1>0 DEF PipelineTypes
<1>2. \A s \in Requests : \/ phase'[s] = phase[s]
                          \/ loyal[s] = {} /\ phase'[s] \notin {"none", "onRequest", "onRoute"}
  BY RequestFacts DEF AskedOf
<1>3. PluginsAsked'
  BY <1>0, <1>2, AskedSame
<1> QED
  BY <1>1, <1>3 DEF PipelineInv

\* A step of one request.
LEMMA FaultStep ==
  ASSUME PipelineInv, NEW r \in Requests, UNCHANGED <<chain, routes, plugins, enabled, at, seen, loyal>>,
         changes' \in 0 .. MaxChanges, NEW new \in Rp!Phases, phase' = [phase EXCEPT ![r] = new],
         phase[r] \in {"none", "faults", "delayed", "next", "waiting", "handler"},
         new \notin {"none", "onRequest", "onRoute"},
         faults' \in Seq(Rules), history' \in Seq(Faults), FaultsCount', PlacesTaken',
         answers' \in [Requests -> Nat], passed' \in [Requests -> Nat],
         fault' \in [Requests -> Rp!AllTypes \cup {Rp!NoFault}],
         running' \in Int, waiting' \in Seq(Requests), forfeited' \in Nat, expired' \subseteq Requests,
         RequestSettled(r)',
         \A s \in Requests \ {r} : /\ answers'[s] = answers[s] /\ passed'[s] = passed[s] /\ fault'[s] = fault[s]
                                   /\ s \in expired' <=> s \in expired
  PROVE  PipelineInv'
<1>0. PipelineTypes /\ \A s \in Requests : RequestSettled(s)
  BY DEF PipelineInv
<1>1. /\ phase' \in [Requests -> Rp!Phases] /\ phase'[r] = new
      /\ \A s \in Requests \ {r} : phase'[s] = phase[s]
  BY <1>0 DEF PipelineTypes
<1>2. \A s \in Requests : RequestSettled(s)'
  BY <1>0, <1>1, OthersSettled
<1> QED
  BY <1>1, <1>2, FaultSteps

LEMMA ArriveKeeps ==
  ASSUME PipelineInv, NEW r \in Requests, Rp!arrive(r)
  PROVE  PipelineInv'
<1> USE PipelineConstants
<1>0. PipelineTypes /\ PlacesTaken /\ FaultsCount
  BY DEF PipelineInv
<1>1. /\ phase[r] = "none" /\ chain \in {"faults", "stack"} /\ phase' = [phase EXCEPT ![r] = "faults"]
      /\ UNCHANGED <<chain, routes, plugins, enabled, faults, history, at, seen, loyal, fault,
                     passed, running, waiting, forfeited>>
      /\ changes < MaxChanges /\ changes' = changes + 1
  BY DEF Rp!arrive, Rp!WithFaults, Rp!Go, Rp!Change, Rp!tableVars, Rp!bulkheadVars
<1>2. \/ answers' = answers /\ expired' = expired
      \/ /\ chain = "stack" /\ answers' = [answers EXCEPT ![r] = @ + 1] /\ expired' = expired \cup {r}
  BY DEF Rp!arrive, Rp!Budget
<1>3. RequestSettled(r)'
  BY <1>1, <1>2, RequestFacts DEF RequestSettled, Before
<1>4. answers' \in [Requests -> Nat] /\ expired' \subseteq Requests
  <2>1. answers \in [Requests -> Nat] /\ expired \subseteq Requests
    BY <1>0 DEF PipelineTypes
  <2> QED
    BY <1>2, <2>1
<1>5. PlacesTaken'
  BY <1>0, <1>1, RequestFacts, PlacesSame
<1>6. \A s \in Requests \ {r} : answers'[s] = answers[s] /\ (s \in expired' <=> s \in expired)
  BY <1>2, RequestFacts
<1>7. "faults" \in Rp!Phases
  BY DEF Rp!Phases
<1>8. FaultsCount'
  BY <1>0, <1>1, CountsSame
<1>9. /\ faults \in Seq(Rules) /\ history \in Seq(Faults) /\ passed \in [Requests -> Nat]
      /\ fault \in [Requests -> Rp!AllTypes \cup {Rp!NoFault}] /\ running \in Int
      /\ waiting \in Seq(Requests) /\ forfeited \in Nat /\ changes' \in 0 .. MaxChanges
  BY <1>0, <1>1 DEF PipelineTypes
<1> HIDE PipelineConstants
<1> QED
  BY <1>1, <1>3, <1>4, <1>5, <1>6, <1>7, <1>8, <1>9, FaultStep

LEMMA OneMore ==
  ASSUME NEW S, IsFiniteSet(S), NEW x, NEW T \in SUBSET (S \cup {x})
  PROVE  /\ IsFiniteSet(T) /\ Cardinality(S) \in Nat /\ Cardinality(T) \in Nat
         /\ Cardinality(T) <= Cardinality(S) + 1
         /\ x \notin T => Cardinality(T) <= Cardinality(S)
<1>1. /\ IsFiniteSet(S \cup {x}) /\ Cardinality(S \cup {x}) <= Cardinality(S) + 1
      /\ Cardinality(S) \in Nat /\ Cardinality(S \cup {x}) \in Nat
  BY FS_AddElement, FS_CardinalityType
<1>2. IsFiniteSet(T) /\ Cardinality(T) <= Cardinality(S \cup {x}) /\ Cardinality(T) \in Nat
  BY <1>1, FS_Subset, FS_CardinalityType
<1>3. ASSUME x \notin T PROVE Cardinality(T) <= Cardinality(S)
  BY <1>3, FS_Subset
<1> QED
  BY <1>1, <1>2, <1>3

\* The injection is counted where it is recorded.
LEMMA InjectCounts ==
  ASSUME PipelineInv, NEW i \in DOMAIN faults, Rp!Eligible(faults[i]),
         faults' = [faults EXCEPT ![i].count = @ + 1], history' = Append(history, faults[i].id)
  PROVE  faults' \in Seq(Rules) /\ history' \in Seq(Faults) /\ FaultsCount'
<1> USE PipelineConstants
<1>0. /\ faults \in Seq(Rules) /\ Len(faults) \in Nat /\ DOMAIN faults = 1 .. Len(faults)
      /\ history \in Seq(Faults) /\ Len(history) \in Nat
      /\ \A j \in 1 .. Len(faults) : faults[j] \in Rules
      /\ FaultsCount /\ i \in 1 .. Len(faults)
  BY RuleFacts
<1>1. /\ DOMAIN faults' = 1 .. Len(faults)
      /\ \A j \in 1 .. Len(faults) :
           /\ faults'[j] \in Rules /\ faults'[j].id = faults[j].id /\ faults'[j].earlier = faults[j].earlier
           /\ faults'[j].times = faults[j].times
           /\ faults'[j].count = IF j = i THEN faults[j].count + 1 ELSE faults[j].count
  <2>1. faults' = [faults EXCEPT ![i] = [faults[i] EXCEPT !.count = @ + 1]]
    BY <1>0
  <2>2. ASSUME NEW f \in Rules
        PROVE  LET g == [f EXCEPT !.count = @ + 1]
               IN  /\ g \in Rules /\ g.count = f.count + 1
                   /\ g.id = f.id /\ g.times = f.times /\ g.earlier = f.earlier
    BY DEF Rules
  <2> QED
    BY <1>0, <2>1, <2>2
<1>2. faults' \in Seq(Rules)
  <2>1. faults' \in [1 .. Len(faults) -> Rules]
    BY <1>0, <1>1
  <2> QED
    BY <1>0, <2>1, SeqDef
<1>3. /\ history' \in Seq(Faults) /\ Len(history') = Len(history) + 1
      /\ history'[Len(history) + 1] = faults[i].id
      /\ \A n \in 1 .. Len(history) : history'[n] = history[n]
  <2>1. faults[i].id \in Faults
    BY <1>0 DEF Rules
  <2> QED
    BY <1>0, <2>1, AppendProperties
<1>4. ASSUME NEW j \in 1 .. Len(faults)
      PROVE  Counted(faults[j])' /\ (faults'[j].times > 0 => faults'[j].count <= faults'[j].times)
  <2>1. /\ IsFiniteSet(Injections(faults[j])) /\ Cardinality(Injections(faults[j])) <= faults[j].count
        /\ faults[j].times > 0 => faults[j].count <= faults[j].times
    BY <1>0, <1>4 DEF FaultsCount, Counted
  <2>2. faults[j].count \in Nat /\ faults[j].times \in Nat /\ faults[j].earlier \in Nat
    BY <1>0, <1>4 DEF Rules
  <2> DEFINE old == Injections(faults[j])
             after == {n \in faults[j].earlier + 1 .. Len(history) + 1 : history'[n] = faults[j].id}
  <2>3. Injections(faults[j])' = after
    BY <1>1, <1>3 DEF Injections
  <2>4. ASSUME NEW n \in after, n # Len(history) + 1 PROVE n \in old
    <3>1. n \in faults[j].earlier + 1 .. Len(history) /\ history'[n] = faults[j].id
      BY <1>0, <2>2, <2>4
    <3>2. n \in 1 .. Len(history)
      BY <1>0, <2>2, <3>1
    <3> QED
      BY <1>3, <3>1, <3>2 DEF Injections
  <2>5. j # i => Len(history) + 1 \notin after
    BY <1>0, <1>3 DEF FaultsCount
  <2> HIDE DEF old, after
  <2>6. /\ IsFiniteSet(after) /\ Cardinality(old) \in Nat /\ Cardinality(after) \in Nat
        /\ Cardinality(after) <= Cardinality(old) + 1
        /\ j # i => Cardinality(after) <= Cardinality(old)
    <3>1. after \in SUBSET (old \cup {Len(history) + 1}) /\ IsFiniteSet(old)
      BY <2>1, <2>4 DEF old
    <3> QED
      BY <2>5, <3>1, OneMore
  <2>7. Cardinality(old) <= faults[j].count
    BY <2>1 DEF old
  <2>8. j = i /\ faults[j].times > 0 => faults[j].count + 1 <= faults[j].times
    BY <1>4, <2>2 DEF Rp!Eligible
  <2>9. Cardinality(after) <= faults'[j].count
    BY <1>1, <2>2, <2>6, <2>7
  <2> QED
    BY <1>1, <2>1, <2>3, <2>6, <2>8, <2>9 DEF Counted
<1>5. \A j, k \in DOMAIN faults' : faults'[j].id = faults'[k].id => j = k
  BY <1>0, <1>1 DEF FaultsCount
<1> QED
  BY <1>1, <1>2, <1>3, <1>4, <1>5 DEF FaultsCount

LEMMA InjectKeeps ==
  ASSUME PipelineInv, NEW r \in Requests, Rp!shouldInject(r)
  PROVE  PipelineInv'
<1> USE PipelineConstants
<1>0. PipelineTypes /\ PlacesTaken /\ FaultsCount
  BY DEF PipelineInv
<1>1. phase[r] = "faults" /\ UNCHANGED <<chain, routes, plugins, enabled, changes, at, seen, loyal, running, waiting, forfeited, expired>>
  BY DEF Rp!shouldInject, Rp!bulkheadVars
<1>2. /\ answers \in [Requests -> Nat] /\ passed \in [Requests -> Nat] /\ running \in Int /\ waiting \in Seq(Requests)
      /\ forfeited \in Nat /\ changes \in 0 .. MaxChanges
      /\ faults \in Seq(Rules) /\ history \in Seq(Faults) /\ expired \subseteq Requests
      /\ fault \in [Requests -> Rp!AllTypes \cup {Rp!NoFault}]
  BY <1>0 DEF PipelineTypes
<1>3. CASE Rp!NotInjected(r) /\ answers' = answers
  <2>1. phase' = [phase EXCEPT ![r] = "next"] /\ UNCHANGED <<faults, history, fault, passed, answers>>
    BY <1>3 DEF Rp!NotInjected, Rp!Go
  <2>2. RequestSettled(r)'
    BY <1>1, <2>1, RequestFacts DEF RequestSettled, Before
  <2>3. PlacesTaken'
    BY <1>0, <1>1, <2>1, RequestFacts, PlacesSame
  <2>4. "next" \in Rp!Phases
    BY DEF Rp!Phases
  <2>5. FaultsCount'
    BY <1>0, <2>1, CountsSame
  <2> QED
    BY <1>1, <1>2, <2>1, <2>2, <2>3, <2>4, <2>5, FaultStep
<1>4. ASSUME NEW i \in DOMAIN faults, Rp!Eligible(faults[i]), Rp!Inject(r, i)
      PROVE  PipelineInv'
  <2>1. /\ faults' = [faults EXCEPT ![i].count = @ + 1] /\ history' = Append(history, faults[i].id)
        /\ fault' = [fault EXCEPT ![r] = faults[i].type]
    BY <1>4 DEF Rp!Inject
  <2>2. faults' \in Seq(Rules) /\ history' \in Seq(Faults) /\ FaultsCount'
    BY <1>4, <2>1, InjectCounts
  <2>3. faults[i].type \in Rp!AllTypes
    BY RuleFacts DEF Rules
  <2>4. PICK new \in {"delayed", "over"} :
          /\ phase' = [phase EXCEPT ![r] = new] /\ passed' = passed
          /\ new = "delayed" <=> faults[i].type \in {"latency", "timeout"}
          /\ answers' = IF faults[i].type = "error" THEN [answers EXCEPT ![r] = @ + 1] ELSE answers
    <3>1. [answers EXCEPT ![r] = @ + 0] = answers /\ [passed EXCEPT ![r] = @ + 0] = passed
      BY <1>2
    <3>2. CASE faults[i].type \in {"latency", "timeout"}
      BY <1>4, <3>2 DEF Rp!Inject, Rp!Go
    <3>3. CASE faults[i].type = "error"
      BY <1>4, <3>1, <3>3 DEF Rp!Inject, Rp!Go, Rp!Finish
    <3>4. CASE faults[i].type \notin {"latency", "timeout", "error"}
      BY <1>4, <3>1, <3>4 DEF Rp!Inject, Rp!Go, Rp!Finish
    <3> QED
      BY <3>2, <3>3, <3>4
  <2>5. /\ answers' \in [Requests -> Nat] /\ passed' \in [Requests -> Nat]
        /\ fault' \in [Requests -> Rp!AllTypes \cup {Rp!NoFault}]
    BY <1>2, <2>1, <2>3, <2>4
  <2>6. RequestSettled(r)'
    <3>1. /\ fault'[r] = faults[i].type /\ phase'[r] = new /\ passed'[r] = passed[r]
          /\ answers'[r] = IF faults[i].type = "error" THEN answers[r] + 1 ELSE answers[r]
      BY <2>1, <2>4, RequestFacts
    <3>2. /\ chain # "gateway" /\ answers[r] = Before(r) /\ passed[r] = 0 /\ answers[r] \in Nat
          /\ r \in expired => chain = "stack"
      BY <1>1, RequestFacts DEF RequestSettled
    <3>3. Before(r)' = Before(r) /\ (chain = "faults" => Before(r) = 0)
      BY <1>1, <3>2, RequestFacts DEF RequestSettled, Before
    <3> QED
      BY <1>1, <2>3, <2>4, <3>1, <3>2, <3>3 DEF RequestSettled, Answering
  <2>7. PlacesTaken'
    BY <1>0, <1>1, <2>4, RequestFacts, PlacesSame
  <2>8. new \in Rp!Phases
    BY DEF Rp!Phases
  <2>9. \A s \in Requests \ {r} : answers'[s] = answers[s] /\ passed'[s] = passed[s] /\ fault'[s] = fault[s]
    BY <2>1, <2>4, RequestFacts
  <2> QED
    BY <1>1, <1>2, <2>2, <2>4, <2>5, <2>6, <2>7, <2>8, <2>9, FaultStep
<1> QED
  BY <1>3, <1>4 DEF Rp!shouldInject, Rp!Injectable

LEMMA DelayedKeeps ==
  ASSUME PipelineInv, NEW r \in Requests, Rp!Delayed(r)
  PROVE  PipelineInv'
<1> USE PipelineConstants
<1>0. PipelineTypes /\ PlacesTaken /\ FaultsCount
  BY DEF PipelineInv
<1>1. /\ phase[r] = "delayed"
      /\ UNCHANGED <<chain, routes, plugins, enabled, faults, history, changes, at, seen, loyal, fault,
                     running, waiting, forfeited, expired>>
  BY DEF Rp!Delayed, Rp!tableVars, Rp!bulkheadVars
<1>2. /\ answers \in [Requests -> Nat] /\ passed \in [Requests -> Nat] /\ running \in Int /\ waiting \in Seq(Requests)
      /\ forfeited \in Nat /\ changes \in 0 .. MaxChanges
      /\ faults \in Seq(Rules) /\ history \in Seq(Faults) /\ expired \subseteq Requests
      /\ fault \in [Requests -> Rp!AllTypes \cup {Rp!NoFault}]
  BY <1>0 DEF PipelineTypes
<1>3. /\ phase' = [phase EXCEPT ![r] = "over"] /\ answers' = answers
      /\ passed' = IF fault[r] = "latency" /\ chain = "faults" THEN [passed EXCEPT ![r] = @ + 1] ELSE passed
  <2>1. [answers EXCEPT ![r] = @ + 0] = answers /\ [passed EXCEPT ![r] = @ + 0] = passed
    BY <1>2
  <2>2. CASE fault[r] = "latency" /\ chain = "faults"
    BY <2>1, <2>2 DEF Rp!Delayed, Rp!AfterLatency, Rp!Finish, Rp!Go
  <2>3. CASE ~(fault[r] = "latency" /\ chain = "faults")
    BY <2>1, <2>3 DEF Rp!Delayed, Rp!AfterLatency, Rp!Finish, Rp!Go
  <2> QED
    BY <2>2, <2>3
<1>4. RequestSettled(r)'
  <2>1. /\ phase'[r] = "over" /\ answers'[r] = answers[r]
        /\ passed'[r] = IF fault[r] = "latency" /\ chain = "faults" THEN passed[r] + 1 ELSE passed[r]
    BY <1>2, <1>3, RequestFacts
  <2>2. /\ chain # "gateway" /\ fault[r] \in {"latency", "timeout"} /\ passed[r] = 0 /\ answers[r] = Before(r)
        /\ r \in expired => chain = "stack"
    BY <1>1, RequestFacts DEF RequestSettled
  <2> QED
    BY <1>1, <2>1, <2>2 DEF RequestSettled, Before, Answering
<1>5. PlacesTaken'
  BY <1>0, <1>1, <1>3, RequestFacts, PlacesSame
<1>6. "over" \in Rp!Phases
  BY DEF Rp!Phases
<1>7. FaultsCount'
  BY <1>0, <1>1, CountsSame
<1>8. passed' \in [Requests -> Nat] /\ \A s \in Requests \ {r} : passed'[s] = passed[s]
  BY <1>2, <1>3
<1> QED
  BY <1>1, <1>2, <1>3, <1>4, <1>5, <1>6, <1>7, <1>8, FaultStep

LEMMA PassOnKeeps ==
  ASSUME PipelineInv, NEW r \in Requests, Rp!PassOn(r)
  PROVE  PipelineInv'
<1> USE PipelineConstants
<1>0. PipelineTypes /\ PlacesTaken /\ FaultsCount
  BY DEF PipelineInv
<1>1. /\ phase[r] = "next"
      /\ UNCHANGED <<chain, routes, plugins, enabled, faults, history, changes, at, seen, loyal, fault,
                     answers, expired>>
  BY DEF Rp!PassOn, Rp!tableVars
<1>2. /\ answers \in [Requests -> Nat] /\ passed \in [Requests -> Nat]
      /\ running \in Int /\ waiting \in Seq(Requests) /\ forfeited \in Nat
      /\ faults \in Seq(Rules) /\ history \in Seq(Faults) /\ expired \subseteq Requests
      /\ fault \in [Requests -> Rp!AllTypes \cup {Rp!NoFault}] /\ DOMAIN phase = Requests
      /\ changes \in 0 .. MaxChanges
  BY <1>0 DEF PipelineTypes
<1>3. PICK new \in {"over", "waiting", "handler", "threw"} :
        /\ phase' = [phase EXCEPT ![r] = new]
        /\ passed' = IF new \in {"over", "handler"} THEN [passed EXCEPT ![r] = @ + 1] ELSE passed
        /\ new = "over" <=> chain = "faults"
        /\ running' = IF new = "handler" THEN running + 1 ELSE running
        /\ waiting' = IF new = "waiting" THEN Append(waiting, r) ELSE waiting
        /\ forfeited' = forfeited
        /\ new = "handler" => running < Places
        /\ new = "waiting" => running >= Places /\ Len(waiting) < QueueLength
  <2>1. chain \in {"faults", "stack"}
    BY <1>0, <1>1, RequestFacts DEF RequestSettled, PipelineTypes
  <2> USE DEF Rp!PassOn, Rp!HandOn, Rp!Go, Rp!bulkheadVars
  <2>2. CASE chain = "faults"
    BY <2>2
  <2>3. CASE chain = "stack" /\ running < Places
    BY <2>3
  <2>4. CASE chain = "stack" /\ running >= Places /\ Len(waiting) < QueueLength
    BY <1>2, <2>4
  <2>5. CASE chain = "stack" /\ running >= Places /\ ~(Len(waiting) < QueueLength)
    BY <1>2, <2>5
  <2> QED
    BY <1>2, <2>1, <2>2, <2>3, <2>4, <2>5
<1>4. RequestSettled(r)'
  <2>1. /\ phase'[r] = new /\ answers'[r] = answers[r]
        /\ passed'[r] = IF new \in {"over", "handler"} THEN passed[r] + 1 ELSE passed[r]
    BY <1>1, <1>2, <1>3
  <2>2. /\ chain \in {"faults", "stack"} /\ fault[r] = Rp!NoFault /\ passed[r] = 0 /\ answers[r] = Before(r)
        /\ r \in expired => chain = "stack"
    BY <1>0, <1>1, RequestFacts DEF RequestSettled, PipelineTypes
  <2> QED
    BY <1>1, <1>3, <2>1, <2>2 DEF RequestSettled, Before, Answering
<1>5. PlacesTaken'
  <2>1. CASE new = "handler"
    <3>1. Rp!Handled' = Rp!Handled \cup {r} /\ r \notin Rp!Handled /\ InQueue' = InQueue
      BY <1>1, <1>2, <1>3, <2>1 DEF Rp!Handled, InQueue
    <3>2. /\ IsFiniteSet(Rp!Handled') /\ Cardinality(Rp!Handled') = Cardinality(Rp!Handled) + 1
          /\ Cardinality(Rp!Handled) \in Nat
      BY <1>0, <3>1, FS_AddElement, FS_CardinalityType DEF PlacesTaken
    <3> QED
      BY <1>0, <1>2, <1>3, <2>1, <3>1, <3>2 DEF PlacesTaken
  <2>2. CASE new = "waiting"
    <3>1. Rp!Handled' = Rp!Handled /\ InQueue' = InQueue \cup {r} /\ r \notin InQueue
      BY <1>1, <1>2, <1>3, <2>2 DEF Rp!Handled, InQueue
    <3>2. IsInjective(waiting') /\ Range(waiting') = Range(waiting) \cup {r}
      BY <1>0, <1>2, <1>3, <2>2, <3>1, RangeAppend, InjectiveAppend DEF PlacesTaken
    <3>3. Len(waiting') = Len(waiting) + 1 /\ Len(waiting) \in Nat
      BY <1>2, <1>3, <2>2, AppendProperties, LenProperties
    <3> QED
      BY <1>0, <1>2, <1>3, <2>2, <3>1, <3>2, <3>3 DEF PlacesTaken
  <2>3. CASE new \notin {"waiting", "handler"}
    BY <1>0, <1>1, <1>2, <1>3, <2>3, PlacesSame
  <2> QED
    BY <2>1, <2>2, <2>3
<1>6. new \in Rp!Phases
  BY DEF Rp!Phases
<1>7. FaultsCount'
  BY <1>0, <1>1, CountsSame
<1>8. /\ passed' \in [Requests -> Nat] /\ running' \in Int /\ waiting' \in Seq(Requests)
      /\ \A s \in Requests \ {r} : passed'[s] = passed[s]
  BY <1>2, <1>3, AppendProperties
<1> HIDE PipelineConstants
<1> QED
  BY <1>1, <1>2, <1>3, <1>4, <1>5, <1>6, <1>7, <1>8, FaultStep

\* release() for a handler that ends, and for a wait that ends unserved: then the
\* handlers are one more than the bulkhead counts.
LEMMA ReleaseKeeps ==
  ASSUME PipelineInv, NEW r \in Requests, phase[r] \in {"waiting", "handler"},
         NEW next \in {"over", "threw"}, next = "over" => phase[r] = "handler",
         NEW queue \in Seq(Requests), IsInjective(queue), Range(queue) = InQueue \ {r},
         Len(queue) <= QueueLength, queue # <<>> => running = Places, Rp!Release(r, next, queue),
         forfeited' = IF phase[r] = "waiting" THEN forfeited + 1 ELSE forfeited,
         UNCHANGED <<chain, routes, plugins, enabled, faults, history, changes, at, seen, loyal, fault, expired>>,
         answers' = IF next = "over" THEN [answers EXCEPT ![r] = @ + 1] ELSE answers
  PROVE  PipelineInv'
<1>0. PipelineTypes /\ PlacesTaken /\ FaultsCount /\ \A s \in Requests : RequestSettled(s)
  BY DEF PipelineInv
<1>1. /\ answers \in [Requests -> Nat] /\ passed \in [Requests -> Nat]
      /\ running \in Int /\ waiting \in Seq(Requests) /\ forfeited \in Nat
      /\ faults \in Seq(Rules) /\ history \in Seq(Faults) /\ expired \subseteq Requests
      /\ fault \in [Requests -> Rp!AllTypes \cup {Rp!NoFault}] /\ phase \in [Requests -> Rp!Phases]
      /\ changes \in 0 .. MaxChanges /\ running <= Places /\ Places \in Nat
      /\ Cardinality(Rp!Handled) = running + forfeited /\ IsFiniteSet(Rp!Handled)
  BY <1>0, PipelineConstants DEF PipelineTypes, PlacesTaken
<1>2. /\ forfeited' \in Nat /\ answers' \in [Requests -> Nat] /\ FaultsCount'
      /\ next \in Rp!Phases /\ "handler" \in Rp!Phases
  BY <1>0, <1>1, CountsSame DEF Rp!Phases
<1>3. ASSUME NEW new \in {"over", "threw"}, phase'[r] = new, new = next, passed'[r] = passed[r]
      PROVE  RequestSettled(r)'
  BY <1>0, <1>1, <1>3, RequestFacts DEF RequestSettled, Before, Answering
<1>4. CASE queue # <<>>
  <2> DEFINE h == Head(queue)
  <2>1. /\ h \in InQueue /\ h # r /\ Tail(queue) \in Seq(Requests) /\ IsInjective(Tail(queue))
        /\ Range(Tail(queue)) = (InQueue \ {r}) \ {h} /\ Len(Tail(queue)) <= QueueLength
    <3>1. /\ Head(queue) \in Range(queue) /\ Tail(queue) \in Seq(Requests)
          /\ Range(Tail(queue)) = Range(queue) \ {Head(queue)} /\ IsInjective(Tail(queue))
      BY <1>4, ShiftLine
    <3>2. Len(Tail(queue)) = Len(queue) - 1 /\ Len(queue) \in Nat
      BY <1>4, HeadTailProperties, LenProperties
    <3> QED
      BY <3>1, <3>2, PipelineConstants
  <2>2. h \in Requests /\ phase[h] = "waiting"
    BY <2>1 DEF InQueue
  <2>3. /\ running' = running /\ waiting' = Tail(queue)
        /\ phase' = [phase EXCEPT ![r] = next, ![h] = "handler"]
        /\ passed' = [passed EXCEPT ![h] = @ + 1]
    BY <1>1, <1>4 DEF Rp!Release
  <2> HIDE DEF h
  <2>4. /\ phase' \in [Requests -> Rp!Phases] /\ passed' \in [Requests -> Nat]
        /\ phase'[r] = next /\ phase'[h] = "handler" /\ passed'[h] = passed[h] + 1 /\ passed'[r] = passed[r]
        /\ \A s \in Requests \ {r, h} : phase'[s] = phase[s] /\ passed'[s] = passed[s]
    <3>1. h # r /\ passed[h] \in Nat
      BY <1>1, <2>1, <2>2
    <3>2. /\ passed' \in [Requests -> Nat] /\ passed'[h] = passed[h] + 1
          /\ \A s \in Requests \ {h} : passed'[s] = passed[s]
      BY <1>1, <2>2, <2>3, <3>1
    <3>3. /\ phase' \in [Requests -> Rp!Phases] /\ phase'[r] = next /\ phase'[h] = "handler"
          /\ \A s \in Requests \ {r, h} : phase'[s] = phase[s]
      BY <1>1, <1>2, <2>2, <2>3, <3>1
    <3> QED
      BY <3>1, <3>2, <3>3
  <2>5. \A s \in Requests \ {r} : answers'[s] = answers[s]
    BY <1>1
  <2>6. ASSUME NEW s \in Requests PROVE RequestSettled(s)'
    <3>1. CASE s = r
      BY <1>3, <2>4, <3>1
    <3>2. CASE s = h
      <4>1. /\ phase[h] = "waiting" /\ RequestSettled(h) /\ chain \in {"gateway", "faults", "stack"}
            /\ phase'[h] = "handler" /\ passed'[h] = passed[h] + 1 /\ answers'[h] = answers[h]
            /\ UNCHANGED <<chain, fault, expired>>
        BY <1>0, <2>1, <2>2, <2>4, <2>5 DEF PipelineTypes
      <4>2. chain = "stack" /\ fault[h] = Rp!NoFault /\ passed[h] = 0 /\ answers[h] = Before(h)
        BY <4>1 DEF RequestSettled
      <4> QED
        BY <3>2, <4>1, <4>2 DEF RequestSettled, Before
    <3>3. CASE s \notin {r, h}
      BY <1>0, <2>4, <2>5, <3>3, OthersSettled
    <3> QED
      BY <3>1, <3>2, <3>3
  <2>7. PlacesTaken'
    <3>1. InQueue' = (InQueue \ {r}) \ {h}
      BY <2>2, <2>4 DEF InQueue
    <3>2. Rp!Handled' = (Rp!Handled \ {r}) \cup {h} /\ h \notin Rp!Handled \ {r} /\ (r \in Rp!Handled <=> phase[r] = "handler")
      BY <2>2, <2>4 DEF Rp!Handled
    <3>3. /\ IsFiniteSet(Rp!Handled \ {r})
          /\ Cardinality(Rp!Handled \ {r}) = IF r \in Rp!Handled THEN Cardinality(Rp!Handled) - 1 ELSE Cardinality(Rp!Handled)
      BY <1>1, FS_RemoveElement
    <3>4. IsFiniteSet(Rp!Handled') /\ Cardinality(Rp!Handled') = Cardinality(Rp!Handled \ {r}) + 1
      BY <3>2, <3>3, FS_AddElement
    <3> QED
      BY <1>0, <1>1, <1>4, <2>1, <2>3, <3>1, <3>2, <3>3, <3>4 DEF PlacesTaken
  <2>8. \A s \in Requests : \/ phase'[s] = phase[s]
                            \/ /\ phase[s] \in {"none", "faults", "delayed", "next", "waiting", "handler"}
                               /\ phase'[s] \notin {"none", "onRequest", "onRoute"}
    BY <2>2, <2>4
  <2> QED
    BY <1>1, <1>2, <2>1, <2>3, <2>4, <2>6, <2>7, <2>8, FaultSteps
<1>5. CASE queue = <<>>
  <2>1. /\ running' = running - 1 /\ waiting' = queue /\ phase' = [phase EXCEPT ![r] = next] /\ passed' = passed
    BY <1>5 DEF Rp!Release, Rp!Go
  <2>2. RequestSettled(r)'
    BY <1>1, <1>3, <2>1
  <2>3. PlacesTaken'
    <3>1. InQueue' = InQueue \ {r} /\ Rp!Handled' = Rp!Handled \ {r} /\ (r \in Rp!Handled <=> phase[r] = "handler")
      BY <1>1, <2>1 DEF InQueue, Rp!Handled
    <3>2. /\ IsFiniteSet(Rp!Handled \ {r})
          /\ Cardinality(Rp!Handled \ {r}) = IF r \in Rp!Handled THEN Cardinality(Rp!Handled) - 1 ELSE Cardinality(Rp!Handled)
      BY <1>1, FS_RemoveElement
    <3> QED
      BY <1>0, <1>1, <1>5, <2>1, <3>1, <3>2 DEF PlacesTaken
  <2>4. /\ \A s \in Requests \ {r} : answers'[s] = answers[s] /\ passed'[s] = passed[s] /\ fault'[s] = fault[s]
        /\ passed' \in [Requests -> Nat] /\ running' \in Int /\ waiting' \in Seq(Requests)
        /\ fault' \in [Requests -> Rp!AllTypes \cup {Rp!NoFault}] /\ changes' \in 0 .. MaxChanges
        /\ faults' \in Seq(Rules) /\ history' \in Seq(Faults) /\ expired' \subseteq Requests
    BY <1>1, <2>1
  <2> QED
    BY <1>2, <2>1, <2>2, <2>3, <2>4, FaultStep
<1> QED
  BY <1>4, <1>5

LEMMA HandlerKeeps ==
  ASSUME PipelineInv, NEW r \in Requests, Rp!HandlerEnds(r)
  PROVE  PipelineInv'
<1>0. PipelineTypes /\ PlacesTaken
  BY DEF PipelineInv
<1>1. /\ phase[r] = "handler" /\ forfeited' = forfeited
      /\ UNCHANGED <<chain, routes, plugins, enabled, faults, history, changes, at, seen, loyal, fault, expired>>
  BY DEF Rp!HandlerEnds, Rp!tableVars
<1>2. PICK next \in {"over", "threw"} :
        /\ Rp!Release(r, next, waiting)
        /\ answers' = IF next = "over" THEN [answers EXCEPT ![r] = @ + 1] ELSE answers
  BY DEF Rp!HandlerEnds
<1>3. /\ waiting \in Seq(Requests) /\ IsInjective(waiting) /\ Range(waiting) = InQueue \ {r}
      /\ Len(waiting) <= QueueLength /\ (waiting # <<>> => running = Places)
  BY <1>0, <1>1 DEF PipelineTypes, PlacesTaken, InQueue
<1> QED
  BY <1>1, <1>2, <1>3, ReleaseKeeps

LEMMA QueueTimeoutKeeps ==
  ASSUME PipelineInv, NEW r \in Requests, Rp!QueueTimeout(r)
  PROVE  PipelineInv'
<1>0. PipelineTypes /\ PlacesTaken
  BY DEF PipelineInv
<1>1. PICK i \in DOMAIN waiting : waiting[i] = r /\ Rp!Release(r, "threw", Rp!Without(waiting, i))
  BY DEF Rp!QueueTimeout
<1> DEFINE queue == Rp!Without(waiting, i)
<1>2. /\ waiting \in Seq(Requests) /\ IsInjective(waiting) /\ i \in 1 .. Len(waiting) /\ Len(waiting) \in Nat
      /\ Range(waiting) = InQueue /\ Len(waiting) <= QueueLength /\ (waiting # <<>> => running = Places)
  BY <1>0, LenProperties DEF PipelineTypes, PlacesTaken
<1>3. queue = SubSeq(waiting, 1, i - 1) \o SubSeq(waiting, i + 1, Len(waiting))
  BY DEF Rp!Without
<1> HIDE DEF queue
<1>4. /\ queue \in Seq(Requests) /\ Len(queue) = Len(waiting) - 1 /\ IsInjective(queue)
      /\ Range(queue) = Range(waiting) \ {waiting[i]}
  BY <1>2, <1>3, RemoveFromLine
<1>5. r \in InQueue /\ phase[r] = "waiting" /\ waiting # <<>>
  BY <1>1, <1>2 DEF Range, InQueue
<1>6. Len(queue) <= QueueLength /\ running = Places
  BY <1>2, <1>4, <1>5, PipelineConstants
<1>7. /\ forfeited' = forfeited + 1 /\ answers' = answers
      /\ UNCHANGED <<chain, routes, plugins, enabled, faults, history, changes, at, seen, loyal, fault, expired>>
  BY DEF Rp!QueueTimeout, Rp!tableVars
<1>8. Rp!Release(r, "threw", queue)
  BY <1>1 DEF queue
<1> QED
  BY <1>1, <1>2, <1>4, <1>5, <1>6, <1>7, <1>8, ReleaseKeeps

LEMMA PipelineNext == PipelineInv /\ [Rp!Next]_(Rp!pipelineVars) => PipelineInv'
<1> SUFFICES ASSUME PipelineInv, [Rp!Next]_(Rp!pipelineVars) PROVE PipelineInv'
  OBVIOUS
<1>1. ASSUME UNCHANGED Rp!pipelineVars PROVE PipelineInv'
  <2>1. UNCHANGED <<chain, routes, plugins, enabled, faults, history, changes, phase, at, seen, loyal, fault,
                    answers, passed, running, waiting, forfeited, expired>>
    BY <1>1 DEF Rp!pipelineVars, Rp!tableVars, Rp!requestVars, Rp!bulkheadVars
  <2>2. PipelineTypes'
    BY <2>1 DEF PipelineInv, PipelineTypes
  <2>3. \A s \in Requests : RequestSettled(s)'
    BY <2>1, OthersSettled DEF PipelineInv
  <2> QED
    BY <2>1, <2>2, <2>3, PlacesSame, CountsSame, AskedSame DEF PipelineInv
<1>2. ASSUME NEW matches, Rp!addRoute(matches) PROVE PipelineInv'
  BY <1>2, RoutesKeep DEF Rp!addRoute
<1>3. ASSUME NEW i, Rp!removeRoute(i) PROVE PipelineInv'
  BY <1>3, RoutesKeep DEF Rp!removeRoute
<1> QED
  BY <1>1, <1>2, <1>3, PluginKeeps, RegisterKeeps, UnregisterKeeps, EnabledKeeps, ClearFaultsKeeps, MatchKeeps,
     HookKeeps, HooksDoneKeeps, HookFailsKeeps, ArriveKeeps, InjectKeeps, DelayedKeeps, PassOnKeeps,
     HandlerKeeps, QueueTimeoutKeeps DEF Rp!Next

\* The hook of a plugin was called as often as the set of its calls is large.
LEMMA PipelineHolds ==
  PipelineInv => Rp!TypeOK /\ Rp!EveryPluginAsked /\ Rp!WithinLimits /\ Rp!EveryRequestSettled
<1> SUFFICES ASSUME PipelineInv
             PROVE  Rp!TypeOK /\ Rp!EveryPluginAsked /\ Rp!WithinLimits /\ Rp!EveryRequestSettled
  OBVIOUS
<1> USE PipelineConstants
<1>0. PipelineTypes /\ PlacesTaken /\ FaultsCount /\ PluginsAsked /\ \A r \in Requests : RequestSettled(r)
  BY DEF PipelineInv
<1>1. Rp!EveryPluginAsked
  <2> SUFFICES ASSUME NEW r \in Requests, NEW p \in Plugins, NEW hook \in {"onRequest", "onRoute"}
               PROVE  /\ Rp!HookCalls(r, hook, p) <= 1
                      /\ phase[r] = "over" /\ p \in loyal[r] => Rp!HookCalls(r, hook, p) = 1
    BY DEF Rp!EveryPluginAsked
  <2> DEFINE asked == {i \in DOMAIN seen[r] : seen[r][i] = <<hook, p>>}
  <2>1. Rp!HookCalls(r, hook, p) = Cardinality(asked)
    BY PipelineLibrary DEF Rp!HookCalls
  <2>2. \A i, j \in asked : i = j
    BY RequestFacts DEF AskedOf, IsInjective
  <2>3. phase[r] = "over" /\ p \in loyal[r] => asked # {}
    <3> SUFFICES ASSUME phase[r] = "over", p \in loyal[r] PROVE asked # {}
      OBVIOUS
    <3>1. PICK i \in DOMAIN plugins : plugins[i] = p
      BY RequestFacts DEF AskedOf, Range
    <3>2. HasSeen(r, hook, p)
      BY <3>1, RequestFacts DEF AskedOf, IsPast
    <3> QED
      BY <3>2 DEF HasSeen, Range
  <2> HIDE DEF asked
  <2>4. CASE asked = {}
    BY <2>1, <2>3, <2>4, FS_EmptySet
  <2>5. CASE asked # {}
    <3>1. PICK i : asked = {i}
      BY <2>2, <2>5
    <3>2. Cardinality(asked) = 1
      BY <3>1, FS_Singleton
    <3> QED
      BY <2>1, <3>2
  <2> QED
    BY <2>4, <2>5
<1>2. Rp!WithinLimits
  <2>1. ASSUME NEW i \in DOMAIN faults, faults[i].times > 0
        PROVE  Cardinality(Injections(faults[i])) <= faults[i].times
    <3>1. /\ IsFiniteSet(Injections(faults[i])) /\ Cardinality(Injections(faults[i])) <= faults[i].count
          /\ faults[i].count <= faults[i].times
      BY <1>0, <2>1 DEF FaultsCount, Counted
    <3>2. faults[i].count \in Nat /\ faults[i].times \in Nat /\ Cardinality(Injections(faults[i])) \in Nat
      BY <3>1, RuleFacts, FS_CardinalityType DEF Rules
    <3> QED
      BY <3>1, <3>2
  <2>2. /\ Cardinality(Rp!Handled) <= Places + forfeited
        /\ waiting # <<>> => Cardinality(Rp!Handled) = Places + forfeited
    BY <1>0 DEF PipelineTypes, PlacesTaken
  <2> QED
    BY <1>0, <2>1, <2>2, PipelineLibrary DEF Rp!WithinLimits, Injections
<1>3. Rp!EveryRequestSettled
  <2> SUFFICES ASSUME NEW r \in Requests, phase[r] = "over", chain # "gateway"
               PROVE  /\ chain = "faults" =>
                           answers[r] + passed[r] = IF fault[r] \in {"timeout", "drop", "corrupt"} THEN 0 ELSE 1
                      /\ chain = "stack" /\ r \notin expired =>
                           answers[r] = IF fault[r] \in {"latency", "timeout", "drop", "corrupt"} THEN 0 ELSE 1
                      /\ passed[r] = 1 => fault[r] = Rp!NoFault \/ chain = "faults"
    BY DEF Rp!EveryRequestSettled
  <2>1. fault[r] \in Rp!AllTypes \cup {Rp!NoFault}
    BY <1>0 DEF PipelineTypes
  <2> QED
    BY <1>0, <2>1 DEF RequestSettled, Before, Answering
<1>4. Rp!TypeOK
  <2>1. \A i \in DOMAIN faults : faults[i].count >= 0 /\ faults[i].type \in Rp!AllTypes
    BY RuleFacts DEF Rules
  <2>2. ASSUME NEW r \in Requests PROVE phase[r] \in Rp!Phases /\ answers[r] \in 0 .. 2 /\ passed[r] \in 0 .. 1
    <3>1. /\ phase[r] \in Rp!Phases /\ answers[r] \in Nat /\ passed[r] \in Nat
          /\ chain \in {"gateway", "faults", "stack"}
      BY <1>0 DEF PipelineTypes
    <3> QED
      BY <1>0, <3>1 DEF RequestSettled, Before
  <2> QED
    BY <1>0, <2>1, <2>2 DEF Rp!TypeOK, PipelineTypes, PlacesTaken
<1> QED
  BY <1>1, <1>2, <1>3, <1>4

-----------------------------------------------------------------------------
(* Middleware: what the cache keeps, and what a request was given, comes   *)
(* from requests whose url and method no longer change.                    *)

RequestRecords ==
  [phase : {"none", "hooks", "intercepted", "caching", "handler", "over"}, method : Mw!Methods, url : Urls,
   at : Nat, step : Nat, response : Arrivals \cup {0}, answer : Nat, empty : BOOLEAN, ran : 0 .. 1]
Responses == [by : Arrivals \cup {0}, expires : Nat]

\* How far a request is tells whether it was answered and whether its handler was started.
PlaceFits(q) ==
  /\ q.phase = "none" => q.response = 0
  /\ q.phase \in {"none", "hooks", "intercepted", "caching"} => q.ran = 0
  /\ q.phase \in {"none", "hooks", "handler"} => q.answer = 0
  /\ q.phase = "over" => q.answer # 0 \/ q.empty
  /\ q.phase = "caching" => q.method = "GET"
  /\ q.phase = "handler" => q.ran = 1
  /\ q.empty => q.phase = "over" /\ q.ran = 1

\* The response to a request is one for this url.
ServesUrl(url, by) == by # 0 => reqs[by].phase # "none" /\ reqs[by].method = "GET" /\ reqs[by].url = url
ResponseFits(r, q) == q.response \notin {r, 0} => q.method = "GET" /\ ServesUrl(q.url, q.response)

MiddlewareInv ==
  /\ middlewares \in Chains /\ ticks \in 0 .. MaxTicks
  /\ store \in [Urls -> Responses] /\ reqs \in [Arrivals -> RequestRecords]
  /\ \A u \in Urls : ServesUrl(u, store[u].by)
  /\ \A r \in Arrivals : PlaceFits(reqs[r]) /\ ResponseFits(r, reqs[r])

LEMMA MiddlewareConstants ==
  /\ CacheTtl \in Nat /\ MaxTicks \in Nat /\ Urls # {} /\ 0 \notin Arrivals
  /\ Mw!Methods = {"GET", "OPTIONS"} /\ Mw!Nobody = 0
BY MiddlewareAssumption DEF Mw!OptionsOK, Mw!Methods, Mw!Nobody

LEMMA MiddlewareInit == Mw!Init => MiddlewareInv
<1> SUFFICES ASSUME Mw!Init PROVE MiddlewareInv
  OBVIOUS
<1> DEFINE u == CHOOSE url \in Urls : TRUE
<1>1. u \in Urls
  BY MiddlewareConstants
<1>2. /\ middlewares \in Chains /\ ticks = 0
      /\ store = [url \in Urls |-> [by |-> 0, expires |-> 0]]
      /\ reqs = [r \in Arrivals |->
           [phase |-> "none", method |-> "GET", url |-> u, at |-> 0, step |-> 0, response |-> 0, answer |-> 0,
            empty |-> FALSE, ran |-> 0]]
  BY DEF Mw!Init, Mw!NoEntry, Mw!NoRequest, Mw!Nobody
<1> HIDE DEF u
<1> QED
  BY <1>1, <1>2, MiddlewareConstants DEF MiddlewareInv, RequestRecords, Responses, PlaceFits, ServesUrl, ResponseFits

\* A step of a request that has come; what is stored meanwhile fits.
LEMMA RequestGoes ==
  ASSUME MiddlewareInv, NEW r \in Arrivals, NEW q \in RequestRecords, Mw!Becomes(r, q),
         reqs[r].phase # "none", q.phase # "none", q.url = reqs[r].url, q.method = reqs[r].method,
         PlaceFits(q), ResponseFits(r, q),
         store' \in [Urls -> Responses], \A u \in Urls : ServesUrl(u, store'[u].by)
  PROVE  MiddlewareInv'
<1>1. reqs' = [reqs EXCEPT ![r] = q] /\ middlewares' = middlewares /\ ticks' = ticks
  BY DEF Mw!Becomes
<1>2. reqs \in [Arrivals -> RequestRecords]
  BY DEF MiddlewareInv
<1>3. /\ reqs' \in [Arrivals -> RequestRecords] /\ reqs'[r] = q
      /\ \A s \in Arrivals \ {r} : reqs'[s] = reqs[s]
  BY <1>1, <1>2
<1>4. ASSUME NEW url, NEW by \in Arrivals \cup {0}, ServesUrl(url, by)
      PROVE  by # 0 => reqs'[by].phase # "none" /\ reqs'[by].method = "GET" /\ reqs'[by].url = url
  BY <1>3, <1>4 DEF ServesUrl
<1>5. \A u \in Urls : ServesUrl(u, store[u].by)'
  <2> SUFFICES ASSUME NEW u \in Urls PROVE ServesUrl(u, store[u].by)'
    OBVIOUS
  <2>1. store'[u].by \in Arrivals \cup {0} /\ ServesUrl(u, store'[u].by)
    BY DEF Responses
  <2>2. store'[u].by # 0 =>
          reqs'[store'[u].by].phase # "none" /\ reqs'[store'[u].by].method = "GET" /\ reqs'[store'[u].by].url = u
    BY <1>4, <2>1
  <2> QED
    BY <2>2 DEF ServesUrl
<1>6. ASSUME NEW s \in Arrivals PROVE PlaceFits(reqs[s])' /\ ResponseFits(s, reqs[s])'
  <2>1. CASE s = r
    <3>1. q.response \in Arrivals \cup {0}
      BY DEF RequestRecords
    <3> QED
      BY <1>3, <1>4, <2>1, <3>1 DEF PlaceFits, ResponseFits, ServesUrl
  <2>2. CASE s # r
    <3>1. /\ reqs[s].response \in Arrivals \cup {0} /\ reqs'[s] = reqs[s]
          /\ PlaceFits(reqs[s]) /\ ResponseFits(s, reqs[s])
      BY <1>2, <1>3, <2>2 DEF RequestRecords, MiddlewareInv
    <3> QED
      BY <1>4, <3>1 DEF PlaceFits, ResponseFits, ServesUrl
  <2> QED
    BY <2>1, <2>2
<1> QED
  BY <1>1, <1>3, <1>5, <1>6 DEF MiddlewareInv

LEMMA RequestIs ==
  ASSUME MiddlewareInv, NEW r \in Arrivals
  PROVE  /\ reqs[r] \in RequestRecords /\ PlaceFits(reqs[r]) /\ ResponseFits(r, reqs[r])
         /\ store \in [Urls -> Responses] /\ \A u \in Urls : ServesUrl(u, store[u].by)
BY DEF MiddlewareInv

LEMMA GoOnKeeps ==
  ASSUME MiddlewareInv, NEW r \in Arrivals, reqs[r].phase = "hooks", Mw!GoOn(r)
  PROVE  MiddlewareInv'
<1> DEFINE q == [reqs[r] EXCEPT !.at = @ + 1]
<1>1. q \in RequestRecords /\ q.phase = "hooks" /\ q.url = reqs[r].url /\ q.method = reqs[r].method
  BY RequestIs DEF RequestRecords
<1>2. PlaceFits(q) /\ ResponseFits(r, q)
  BY RequestIs DEF RequestRecords, PlaceFits, ResponseFits
<1>3. Mw!Becomes(r, q) /\ store' = store
  BY DEF Mw!GoOn
<1> HIDE DEF q
<1> QED
  BY <1>1, <1>2, <1>3, RequestIs, RequestGoes

LEMMA AnswerKeeps ==
  ASSUME MiddlewareInv, NEW r \in Arrivals, reqs[r].phase \in {"hooks", "intercepted", "handler"},
         NEW status \in Nat \ {0}, Mw!Answer(r, status)
  PROVE  MiddlewareInv'
<1> DEFINE q == [Mw!Sent(reqs[r], status) EXCEPT !.phase = "over"]
<1>1. /\ q \in RequestRecords /\ q.phase = "over" /\ q.url = reqs[r].url /\ q.method = reqs[r].method
      /\ q.answer # 0 /\ q.response = reqs[r].response /\ q.empty = reqs[r].empty
  BY RequestIs DEF RequestRecords, Mw!Sent
<1>2. PlaceFits(q) /\ ResponseFits(r, q)
  BY <1>1, RequestIs DEF PlaceFits, ResponseFits
<1>3. Mw!Becomes(r, q) /\ store' = store
  BY DEF Mw!Answer
<1> HIDE DEF q
<1> QED
  BY <1>1, <1>2, <1>3, RequestIs, RequestGoes

LEMMA ThrowKeeps ==
  ASSUME MiddlewareInv, NEW r \in Arrivals, reqs[r].phase \in {"hooks", "intercepted", "handler"},
         NEW error \in {"invalid", "denied", "large", "busy", "refused", "error"}, Mw!Throw(r, error)
  PROVE  MiddlewareInv'
<1>1. Mw!Status[error] \in Nat \ {0}
  BY DEF Mw!Status
<1> QED
  BY <1>1, AnswerKeeps DEF Mw!Throw

\* A hook that decides at once.
LEMMA HooksKeep ==
  ASSUME MiddlewareInv, NEW r \in Arrivals,
         \/ Mw!Headers(r) \/ Mw!Log(r) \/ Mw!Cors(r) \/ Mw!Guard(r) \/ Mw!Size(r) \/ Mw!Limit(r)
         \/ Mw!LimitByRoute(r) \/ Mw!Breaker(r) \/ Mw!BreakerByRoute(r) \/ Mw!Retry(r) \/ Mw!StartTimer(r)
  PROVE  MiddlewareInv'
<1>1. reqs[r].phase = "hooks"
  BY DEF Mw!Headers, Mw!Log, Mw!Cors, Mw!Guard, Mw!Size, Mw!Limit, Mw!LimitByRoute, Mw!Breaker,
    Mw!BreakerByRoute, Mw!Retry, Mw!StartTimer, Mw!At
<1>2. \/ Mw!GoOn(r) \/ Mw!Answer(r, 204) \/ Mw!Answer(r, 429)
      \/ \E error \in {"denied", "large", "refused", "error"} : Mw!Throw(r, error)
  BY DEF Mw!Headers, Mw!Log, Mw!Cors, Mw!Guard, Mw!Size, Mw!Limit, Mw!LimitByRoute, Mw!Breaker,
    Mw!BreakerByRoute, Mw!Retry, Mw!StartTimer, Mw!Limited, Mw!Broken
<1> QED
  BY <1>1, <1>2, GoOnKeeps, AnswerKeeps, ThrowKeeps

\* An interceptor returns the response to this request, to one for its url, or none.
LEMMA ReturnedKeeps ==
  ASSUME MiddlewareInv, NEW r \in Arrivals, reqs[r].phase \in {"intercepted", "caching"},
         NEW q \in RequestRecords, q.phase = reqs[r].phase, q.url = reqs[r].url, q.method = reqs[r].method,
         q.ran = reqs[r].ran, q.empty = reqs[r].empty,
         NEW response \in Arrivals \cup {0},
         response \notin {r, 0} => q.method = "GET" /\ ServesUrl(q.url, response),
         Mw!Returned(r, q, response), store' \in [Urls -> Responses], \A u \in Urls : ServesUrl(u, store'[u].by)
  PROVE  MiddlewareInv'
<1> DEFINE p == [q EXCEPT !.phase = "intercepted", !.step = @ + 1, !.response = response]
<1>1. /\ p \in RequestRecords /\ p.phase = "intercepted" /\ p.url = reqs[r].url /\ p.method = reqs[r].method
      /\ p.response = response /\ p.ran = reqs[r].ran /\ p.empty = reqs[r].empty
  <2>1. p \in RequestRecords
    <3>1. q.step + 1 \in Nat
      BY DEF RequestRecords
    <3>2. p = [[q EXCEPT !.phase = "intercepted", !.step = @ + 1] EXCEPT !.response = response]
      BY DEF RequestRecords
    <3>3. [q EXCEPT !.phase = "intercepted", !.step = @ + 1] \in RequestRecords
      BY <3>1 DEF RequestRecords
    <3> QED
      BY <3>2, <3>3 DEF RequestRecords
  <2>2. /\ p.phase = "intercepted" /\ p.url = q.url /\ p.method = q.method /\ p.response = response
        /\ p.ran = q.ran /\ p.empty = q.empty
    BY DEF RequestRecords
  <2> QED
    BY <2>1, <2>2
<1>2. PlaceFits(p) /\ ResponseFits(r, p)
  BY <1>1, RequestIs DEF PlaceFits, ResponseFits
<1>3. Mw!Becomes(r, p)
  BY DEF Mw!Returned
<1> HIDE DEF p
<1> QED
  BY <1>1, <1>2, <1>3, RequestGoes

LEMMA InterceptorsKeep ==
  ASSUME MiddlewareInv, NEW r \in Arrivals,
         \/ Mw!Logs(r) \/ Mw!Transform(r) \/ Mw!Cache(r) \/ Mw!Stored(r) \/ Mw!Own(r)
  PROVE  MiddlewareInv'
<1>0. /\ reqs[r] \in RequestRecords /\ PlaceFits(reqs[r]) /\ ResponseFits(r, reqs[r])
      /\ reqs[r].response \in Arrivals \cup {0} /\ reqs[r].url \in Urls
      /\ store \in [Urls -> Responses] /\ \A u \in Urls : ServesUrl(u, store[u].by)
  BY RequestIs DEF RequestRecords
<1>1. CASE Mw!Logs(r) \/ Mw!Transform(r)
  <2>1. /\ reqs[r].phase = "intercepted" /\ Mw!Returned(r, reqs[r], reqs[r].response) /\ store' = store
    BY <1>1 DEF Mw!Logs, Mw!Transform, Mw!Asks
  <2> QED
    BY <1>0, <2>1, ReturnedKeeps DEF ResponseFits
<1>2. CASE Mw!Cache(r)
  <2>1. reqs[r].phase = "intercepted" /\ store' = store
    BY <1>2 DEF Mw!Cache, Mw!Asks
  <2>2. CASE reqs[r].method = "GET" /\ Mw!Returned(r, reqs[r], store[reqs[r].url].by)
    <3>1. /\ store[reqs[r].url].by \in Arrivals \cup {0}
          /\ ServesUrl(reqs[r].url, store[reqs[r].url].by)
      BY <1>0 DEF Responses
    <3> QED
      BY <1>0, <2>1, <2>2, <3>1, ReturnedKeeps
  <2>3. CASE reqs[r].method = "GET" /\ Mw!Becomes(r, [reqs[r] EXCEPT !.phase = "caching"])
    <3> DEFINE q == [reqs[r] EXCEPT !.phase = "caching"]
    <3>1. /\ q \in RequestRecords /\ q.phase = "caching" /\ q.url = reqs[r].url /\ q.method = "GET"
          /\ q.response = reqs[r].response /\ q.ran = reqs[r].ran /\ q.empty = reqs[r].empty
      BY <1>0, <2>3 DEF RequestRecords
    <3>2. PlaceFits(q) /\ ResponseFits(r, q)
      BY <1>0, <2>1, <3>1 DEF PlaceFits, ResponseFits
    <3>3. Mw!Becomes(r, q)
      BY <2>3
    <3> HIDE DEF q
    <3> QED
      BY <1>0, <2>1, <2>3, <3>1, <3>2, <3>3, RequestGoes
  <2>4. CASE Mw!Returned(r, reqs[r], reqs[r].response)
    BY <1>0, <2>1, <2>4, ReturnedKeeps DEF ResponseFits
  <2> QED
    BY <1>2, <2>2, <2>3, <2>4 DEF Mw!Cache
<1>3. CASE Mw!Stored(r)
  <2>1. /\ reqs[r].phase = "caching" /\ Mw!Returned(r, reqs[r], reqs[r].response)
        /\ store' = IF reqs[r].response # 0 /\ reqs[r].answer = 0
                    THEN [store EXCEPT ![reqs[r].url] = [by |-> reqs[r].response, expires |-> ticks + CacheTtl]]
                    ELSE store
    BY <1>3 DEF Mw!Stored, Mw!Nobody
  <2>2. ServesUrl(reqs[r].url, reqs[r].response)
    BY <1>0, <2>1 DEF PlaceFits, ResponseFits, ServesUrl
  <2>3. [by |-> reqs[r].response, expires |-> ticks + CacheTtl] \in Responses
    BY <1>0, MiddlewareConstants DEF Responses, MiddlewareInv
  <2>4. store' \in [Urls -> Responses] /\ \A u \in Urls : ServesUrl(u, store'[u].by)
    BY <1>0, <2>1, <2>2, <2>3
  <2> QED
    BY <1>0, <2>1, <2>4, ReturnedKeeps DEF ResponseFits
<1>4. CASE Mw!Own(r)
  <2>1. reqs[r].phase = "intercepted" /\ store' = store
    BY <1>4 DEF Mw!Own, Mw!Asks
  <2>2. ASSUME NEW response \in {r, reqs[r].response, 0}, NEW q \in {reqs[r], Mw!Sent(reqs[r], 200)},
               Mw!Returned(r, q, response)
        PROVE  MiddlewareInv'
    <3>1. /\ q \in RequestRecords /\ q.phase = reqs[r].phase /\ q.url = reqs[r].url /\ q.method = reqs[r].method
          /\ q.ran = reqs[r].ran /\ q.empty = reqs[r].empty
      BY <1>0, <2>2 DEF RequestRecords, Mw!Sent
    <3>2. /\ response \in Arrivals \cup {0}
          /\ response \notin {r, 0} => q.method = "GET" /\ ServesUrl(q.url, response)
      BY <1>0, <2>2, <3>1 DEF ResponseFits
    <3> QED
      BY <1>0, <2>1, <2>2, <3>1, <3>2, ReturnedKeeps
  <2> QED
    BY <1>4, <2>1, <2>2, ThrowKeeps DEF Mw!Own, Mw!Nobody
<1> QED
  BY <1>1, <1>2, <1>3, <1>4

LEMMA InterceptKeeps ==
  ASSUME MiddlewareInv, NEW r \in Arrivals, Mw!Intercept(r)
  PROVE  MiddlewareInv'
<1> DEFINE q == [reqs[r] EXCEPT !.phase = "intercepted", !.step = 1, !.response = 0]
<1>1. reqs[r].phase = "hooks" /\ Mw!Becomes(r, q) /\ store' = store
  BY DEF Mw!Intercept, Mw!At, Mw!Nobody
<1>2. /\ q \in RequestRecords /\ q.phase = "intercepted" /\ q.url = reqs[r].url /\ q.method = reqs[r].method
      /\ q.response = 0 /\ q.ran = reqs[r].ran /\ q.empty = reqs[r].empty
  BY RequestIs DEF RequestRecords
<1>3. PlaceFits(q) /\ ResponseFits(r, q)
  BY <1>1, <1>2, RequestIs DEF PlaceFits, ResponseFits
<1> HIDE DEF q
<1> QED
  BY <1>1, <1>2, <1>3, RequestIs, RequestGoes

LEMMA HookDoneKeeps ==
  ASSUME MiddlewareInv, NEW r \in Arrivals, Mw!HookDone(r)
  PROVE  MiddlewareInv'
<1> DEFINE q == [reqs[r] EXCEPT !.phase = IF reqs[r].answer = 0 THEN "hooks" ELSE "over", !.at = @ + 1]
<1>1. reqs[r].phase = "intercepted" /\ Mw!Becomes(r, q) /\ store' = store
  BY DEF Mw!HookDone
<1>2. /\ q \in RequestRecords /\ q.phase = IF reqs[r].answer = 0 THEN "hooks" ELSE "over"
      /\ q.url = reqs[r].url /\ q.method = reqs[r].method
      /\ q.response = reqs[r].response /\ q.ran = reqs[r].ran /\ q.empty = reqs[r].empty /\ q.answer = reqs[r].answer
  <2> DEFINE old == reqs[r]
             new == IF old.answer = 0 THEN "hooks" ELSE "over"
  <2>1. old \in RequestRecords /\ old.at + 1 \in Nat /\ new \in {"hooks", "over"}
    BY RequestIs DEF RequestRecords
  <2>2. q = [old EXCEPT !.phase = new, !.at = @ + 1]
    OBVIOUS
  <2> HIDE DEF old, new, q
  <2>3. /\ q \in RequestRecords /\ q.phase = new /\ q.url = old.url /\ q.method = old.method
        /\ q.response = old.response /\ q.ran = old.ran /\ q.empty = old.empty /\ q.answer = old.answer
    BY <2>1, <2>2 DEF RequestRecords
  <2> QED
    BY <2>3 DEF old, new
<1>3. PlaceFits(q) /\ ResponseFits(r, q)
  BY <1>1, <1>2, RequestIs DEF PlaceFits, ResponseFits
<1> HIDE DEF q
<1> QED
  BY <1>1, <1>2, <1>3, RequestIs, RequestGoes

LEMMA HandlingKeeps ==
  ASSUME MiddlewareInv, NEW r \in Arrivals, Mw!Handle(r)
  PROVE  MiddlewareInv'
<1> DEFINE q == [reqs[r] EXCEPT !.phase = "handler", !.ran = @ + 1]
<1>1. reqs[r].phase = "hooks" /\ Mw!Becomes(r, q) /\ store' = store
  BY DEF Mw!Handle
<1>2. reqs[r].ran = 0
  BY <1>1, RequestIs DEF PlaceFits
<1>3. /\ q \in RequestRecords /\ q.phase = "handler" /\ q.url = reqs[r].url /\ q.method = reqs[r].method
      /\ q.response = reqs[r].response /\ q.empty = reqs[r].empty /\ q.answer = reqs[r].answer /\ q.ran = 1
  <2> DEFINE old == reqs[r]
  <2>1. old \in RequestRecords /\ old.ran + 1 = 1 /\ 1 \in 0 .. 1
    BY <1>2, RequestIs
  <2>2. q = [old EXCEPT !.phase = "handler", !.ran = @ + 1]
    OBVIOUS
  <2> HIDE DEF old, q
  <2>3. /\ q \in RequestRecords /\ q.phase = "handler" /\ q.url = old.url /\ q.method = old.method
        /\ q.response = old.response /\ q.empty = old.empty /\ q.answer = old.answer /\ q.ran = 1
    BY <2>1, <2>2 DEF RequestRecords
  <2> QED
    BY <2>3 DEF old
<1>4. PlaceFits(q) /\ ResponseFits(r, q)
  BY <1>1, <1>3, RequestIs DEF PlaceFits, ResponseFits
<1> HIDE DEF q
<1> QED
  BY <1>1, <1>3, <1>4, RequestIs, RequestGoes

LEMMA HandlerEndsKeeps ==
  ASSUME MiddlewareInv, NEW r \in Arrivals, Mw!HandlerEnds(r)
  PROVE  MiddlewareInv'
<1>1. reqs[r].phase = "handler"
  BY DEF Mw!HandlerEnds
<1> DEFINE q == [reqs[r] EXCEPT !.phase = "over", !.empty = TRUE]
<1>2. ASSUME Mw!Becomes(r, q), store' = store PROVE MiddlewareInv'
  <2>1. /\ q \in RequestRecords /\ q.phase = "over" /\ q.url = reqs[r].url /\ q.method = reqs[r].method
        /\ q.response = reqs[r].response /\ q.empty /\ q.ran = reqs[r].ran
    BY RequestIs DEF RequestRecords
  <2>2. PlaceFits(q) /\ ResponseFits(r, q)
    BY <1>1, <2>1, RequestIs DEF PlaceFits, ResponseFits
  <2> HIDE DEF q
  <2> QED
    BY <1>1, <1>2, <2>1, <2>2, RequestIs, RequestGoes
<1> QED
  BY <1>1, <1>2, AnswerKeeps, ThrowKeeps DEF Mw!HandlerEnds

\* Nothing has been stored of a request that comes, and nobody was given its response.
LEMMA ArrivalKeeps ==
  ASSUME MiddlewareInv, NEW r \in Arrivals, Mw!Arrive(r)
  PROVE  MiddlewareInv'
<1>0. /\ reqs \in [Arrivals -> RequestRecords] /\ store \in [Urls -> Responses]
      /\ \A u \in Urls : ServesUrl(u, store[u].by)
      /\ \A s \in Arrivals : PlaceFits(reqs[s]) /\ ResponseFits(s, reqs[s])
  BY DEF MiddlewareInv
<1>1. PICK m \in Mw!Methods, url \in Urls :
        reqs' = [reqs EXCEPT ![r] = [@ EXCEPT !.phase = "hooks", !.at = 1, !.method = m, !.url = url]]
  BY DEF Mw!Arrive
<1>2. reqs[r].phase = "none" /\ UNCHANGED <<middlewares, ticks, store>>
  BY DEF Mw!Arrive
<1>3. PICK q \in RequestRecords :
        /\ reqs' = [reqs EXCEPT ![r] = q] /\ q.phase = "hooks" /\ q.response = reqs[r].response
        /\ q.ran = reqs[r].ran /\ q.answer = reqs[r].answer /\ q.empty = reqs[r].empty
  <2> DEFINE q == [reqs[r] EXCEPT !.phase = "hooks", !.at = 1, !.method = m, !.url = url]
  <2>1. /\ q \in RequestRecords /\ q.phase = "hooks" /\ q.response = reqs[r].response
        /\ q.ran = reqs[r].ran /\ q.answer = reqs[r].answer /\ q.empty = reqs[r].empty
    BY <1>0 DEF RequestRecords
  <2>2. reqs' = [reqs EXCEPT ![r] = q]
    BY <1>1
  <2> HIDE DEF q
  <2> QED
    BY <2>1, <2>2
<1>4. /\ reqs' \in [Arrivals -> RequestRecords] /\ reqs'[r] = q
      /\ \A s \in Arrivals \ {r} : reqs'[s] = reqs[s]
  BY <1>0, <1>3
<1>5. ASSUME NEW url1, NEW by \in Arrivals \cup {0}, ServesUrl(url1, by)
      PROVE  by # 0 => reqs'[by].phase # "none" /\ reqs'[by].method = "GET" /\ reqs'[by].url = url1
  BY <1>2, <1>4, <1>5 DEF ServesUrl
<1>6. \A u \in Urls : ServesUrl(u, store[u].by)'
  <2> SUFFICES ASSUME NEW u \in Urls PROVE ServesUrl(u, store[u].by)'
    OBVIOUS
  <2>1. store[u].by \in Arrivals \cup {0} /\ ServesUrl(u, store[u].by) /\ store' = store
    BY <1>0, <1>2 DEF Responses
  <2>2. store[u].by # 0 =>
          reqs'[store[u].by].phase # "none" /\ reqs'[store[u].by].method = "GET" /\ reqs'[store[u].by].url = u
    BY <1>5, <2>1
  <2> QED
    BY <2>1, <2>2 DEF ServesUrl
<1>7. ASSUME NEW s \in Arrivals PROVE PlaceFits(reqs[s])' /\ ResponseFits(s, reqs[s])'
  <2>1. CASE s = r
    <3>1. q.response = 0 /\ q.ran = 0 /\ q.answer = 0 /\ ~q.empty /\ q.phase = "hooks" /\ reqs'[s] = q
      BY <1>0, <1>2, <1>3, <1>4, <2>1 DEF PlaceFits
    <3> QED
      BY <2>1, <3>1 DEF PlaceFits, ResponseFits
  <2>2. CASE s # r
    <3>1. reqs[s].response \in Arrivals \cup {0} /\ reqs'[s] = reqs[s]
      BY <1>0, <1>4, <2>2 DEF RequestRecords
    <3>2. PlaceFits(reqs[s]) /\ ResponseFits(s, reqs[s])
      BY <1>0
    <3> QED
      BY <1>5, <3>1, <3>2 DEF PlaceFits, ResponseFits, ServesUrl
  <2> QED
    BY <2>1, <2>2
<1> QED
  BY <1>2, <1>4, <1>6, <1>7 DEF MiddlewareInv

LEMMA MiddlewareSame ==
  ASSUME MiddlewareInv, UNCHANGED <<middlewares, store, reqs>>, ticks' \in 0 .. MaxTicks
  PROVE  MiddlewareInv'
BY DEF MiddlewareInv, ServesUrl, PlaceFits, ResponseFits

LEMMA MiddlewareNext == MiddlewareInv /\ [Mw!Next]_(Mw!middlewareVars) => MiddlewareInv'
<1> SUFFICES ASSUME MiddlewareInv, [Mw!Next]_(Mw!middlewareVars) PROVE MiddlewareInv'
  OBVIOUS
<1>0. ticks \in 0 .. MaxTicks /\ MaxTicks \in Nat
  BY MiddlewareConstants DEF MiddlewareInv
<1>1. CASE UNCHANGED Mw!middlewareVars
  BY <1>0, <1>1, MiddlewareSame DEF Mw!middlewareVars
<1>2. CASE Mw!Tick
  BY <1>0, <1>2, MiddlewareSame DEF Mw!Tick
<1>3. ASSUME NEW r \in Arrivals, Mw!Pipe(r) PROVE MiddlewareInv'
  BY <1>3, ThrowKeeps DEF Mw!Pipe
<1> QED
  BY <1>1, <1>2, <1>3, ArrivalKeeps, HooksKeep, InterceptKeeps, InterceptorsKeep, HookDoneKeeps, HandlingKeeps,
     HandlerEndsKeeps DEF Mw!Next

LEMMA MiddlewareHolds == MiddlewareInv => Mw!TypeOK /\ Mw!EveryRequestAnswered /\ Mw!CacheServesAnswers
<1> SUFFICES ASSUME MiddlewareInv PROVE Mw!TypeOK /\ Mw!EveryRequestAnswered /\ Mw!CacheServesAnswers
  OBVIOUS
<1>0. ASSUME NEW r \in Arrivals
      PROVE  /\ reqs[r].phase \in {"none", "hooks", "intercepted", "caching", "handler", "over"}
             /\ reqs[r].response \in Arrivals \cup {0} /\ reqs[r].ran \in 0 .. 1
             /\ PlaceFits(reqs[r]) /\ ResponseFits(r, reqs[r])
  BY RequestIs DEF RequestRecords
<1>1. Mw!TypeOK
  BY <1>0 DEF MiddlewareInv, Mw!TypeOK, Mw!Nobody, Responses
<1>2. Mw!EveryRequestAnswered
  BY <1>0 DEF Mw!EveryRequestAnswered, PlaceFits
<1>3. Mw!CacheServesAnswers
  BY <1>0 DEF MiddlewareInv, Mw!CacheServesAnswers, Mw!Nobody, ServesUrl, ResponseFits
<1> QED
  BY <1>1, <1>2, <1>3
===============================================================================
