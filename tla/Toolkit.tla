------------------------------ MODULE Toolkit -------------------------------
(***************************************************************************)
(* The classes whose correctness is a matter of the order of calls, timers *)
(* and callbacks, checked together: configuration versions, retry loops,   *)
(* deadlines, the event bus, debounce() with its like, SQL transactions,   *)
(* caches that keep an entry in two places, the configuration loader, what *)
(* lives until it is shut down, what a request passes before its handler.  *)
(* They share nothing, so one of them is under test in each behaviour      *)
(* ("subject"); their invariants are proved below, one class at a time.    *)
(***************************************************************************)
EXTENDS Naturals, FifoLemmas, RequestHandling

CONSTANTS Subjects,                                                                  \* under test
          Callers, Configs, Nothing, MaxVersions, MaxNumber, MaxMishaps,             \* versions
          Retriers, MaxRetries, Delay, MaxDelay, Deadline, Threshold, ResetTimeout,  \* retries
          MaxDeadlines, Timeouts, Buffer, HeaderBuffer, MaxTransit, MaxNow,          \* deadlines
          Handlers, MaxSubscriptions, MaxDepth, MaxEmits,                            \* event bus
          Pause, Jobs, MaxInvoked, MaxClock,                                         \* helpers
          Calls, Clients, NoClient,                                                  \* SQL
          Getters, MaxValues, MaxQueued, Ttls, MaxCacheTime,                         \* caches
          Loads, Tasks, Values, Invalid, RemoteKeys, MaxEdits,                       \* configuration
          Starts, Traced, Metrics, Meshed, MaxSilence                                \* lifetimes

VARIABLES subject,
          storage, versions, highest, current, calls, disk, crashes, errors, overlapped, extras,
          failed, kind, loops, left, state, failures, coolDown, breakerCalls, openFor, forced,
          instant, deadlines, tracked, headers, racing,
          role, sets, registered, frames, emits, heard, ran, confused, streams, gone, broadcast,
          helper, clock, timers, timeoutId, lastArgs, lastCall, invoked, invokedAt, runs, ranAt, owed,
          tangled, concurrency, index, mapping, results, taken, settled,
          connected, ending, out, broken, session, committed, transaction, client, outcome, wrote,
          swallowed, lost, byHand,
          cacheKind, prefixed, near, far, until, meant, commands, getters, upToDate, raced, refused,
          cacheTime,
          priority, backend, listening, content, sourceEdits, loading, read, merged, undisturbed, config,
          loaded, view, viewShares, silent, watchers, generations, files, last, sharers, pending, on, hasty,
          destroyed,
          lifetime, starts, alive, server, ready, stopping, crashed, metrics, spans, overlap, wasShut,
          breaker, gauge, collecting, told, noticed, untold, replaced, status, silence, said, missed

Cv == INSTANCE ConfigVersions
Rt == INSTANCE Retrying WITH Callers <- Retriers, calls <- breakerCalls
Tb == INSTANCE TimeoutBudget WITH now <- instant
Eb == INSTANCE EventBus WITH at <- registered
Ah == INSTANCE AsyncHelpers WITH outcome <- settled
Sq == INSTANCE SqlStore WITH phase <- transaction
Sc == INSTANCE SharedCache WITH MaxNow <- MaxCacheTime, kind <- cacheKind, asked <- meant,
        jobs <- commands, latest <- upToDate, now <- cacheTime
Cl == INSTANCE ConfigLoader WITH order <- priority, edits <- sourceEdits, phase <- loading,
        current <- config, started <- generations
Li == INSTANCE Lifetimes WITH Calls <- Traced, kind <- lifetime, current <- server,
        overlapped <- overlap, heard <- noticed

ASSUME VersionsAssumption == Cv!OptionsOK
ASSUME RetriesAssumption == Rt!OptionsOK
ASSUME DeadlinesAssumption == Tb!OptionsOK
ASSUME BusAssumption == Eb!OptionsOK
ASSUME HelpersAssumption == Ah!OptionsOK
ASSUME CachesAssumption == Sc!OptionsOK
ASSUME SourcesAssumption == Cl!OptionsOK
ASSUME LifetimesAssumption == Li!OptionsOK

versionVars == <<storage, versions, highest, current, calls, disk, crashes, errors, overlapped, extras,
                 failed>>
retryVars == <<kind, loops, left, state, failures, coolDown, breakerCalls, openFor, forced>>
deadlineVars == <<instant, deadlines, tracked, headers, racing>>
busVars == <<role, sets, registered, frames, emits, heard, ran, confused, streams, gone, broadcast>>
helperVars == <<helper, clock, timers, timeoutId, lastArgs, lastCall, invoked, invokedAt, runs, ranAt,
                owed, tangled, concurrency, index, mapping, results, taken, settled>>
sqlVars == <<connected, ending, out, broken, session, committed, transaction, client, outcome, wrote,
             swallowed, lost, byHand>>
cacheVars == <<cacheKind, prefixed, near, far, until, meant, commands, getters, upToDate, raced, refused,
               cacheTime>>
configurationVars == <<priority, backend, listening, content, sourceEdits, loading, read, merged, undisturbed,
                       config, loaded, view, viewShares, silent, watchers, generations, files, last,
                       sharers, pending, on, hasty, destroyed>>
lifetimeVars == <<lifetime, starts, alive, server, ready, stopping, crashed, metrics, spans, overlap,
                  wasShut, breaker, gauge, collecting, told, noticed, untold, replaced, status, silence,
                  said, missed>>
vars == <<subject, versionVars, retryVars, deadlineVars, busVars, helperVars, sqlVars, cacheVars,
          configurationVars, lifetimeVars, pipelineVars, middlewareVars>>

Unless(tested, option) == IF subject = tested THEN TRUE ELSE option

\* The options of the classes that are not under test do not matter.
Init ==
  /\ subject \in Subjects
  /\ Unless("ConfigVersions", storage = "memory")
  /\ Unless("Retrying", kind = [c \in Retriers |-> "core"])
  /\ Unless("EventBus", role = "bus")
  /\ Unless("AsyncHelpers", helper = "debounce")
  /\ Unless("SharedCache", cacheKind = "levels" /\ prefixed = TRUE)
  /\ Unless("ConfigLoader", priority = <<"file", "remote">> /\ backend = "etcd" /\ listening = FALSE)
  /\ Unless("Lifetimes", lifetime = "exporter")
  /\ Unless("RequestPipeline", chain = "gateway")
  /\ Unless("Middleware", middlewares = CHOOSE each \in Chains : TRUE)
  /\ Cv!Init /\ Rt!Init /\ Tb!Init /\ Eb!Init /\ Ah!Init /\ Sq!Init /\ Sc!Init /\ Cl!Init /\ Li!Init
  /\ Rp!Init /\ Mw!Init

VersionsStep ==
  /\ subject = "ConfigVersions" /\ Cv!Next
  /\ UNCHANGED <<subject, retryVars, deadlineVars, busVars, helperVars, sqlVars, cacheVars,
                  configurationVars, lifetimeVars, pipelineVars, middlewareVars>>

RetryStep ==
  /\ subject = "Retrying" /\ Rt!Next
  /\ UNCHANGED <<subject, versionVars, deadlineVars, busVars, helperVars, sqlVars, cacheVars,
                  configurationVars, lifetimeVars, pipelineVars, middlewareVars>>

DeadlineStep ==
  /\ subject = "TimeoutBudget" /\ Tb!Next
  /\ UNCHANGED <<subject, versionVars, retryVars, busVars, helperVars, sqlVars, cacheVars,
                  configurationVars, lifetimeVars, pipelineVars, middlewareVars>>

BusStep ==
  /\ subject = "EventBus" /\ Eb!Next
  /\ UNCHANGED <<subject, versionVars, retryVars, deadlineVars, helperVars, sqlVars, cacheVars,
                  configurationVars, lifetimeVars, pipelineVars, middlewareVars>>

HelperStep ==
  /\ subject = "AsyncHelpers" /\ Ah!Next
  /\ UNCHANGED <<subject, versionVars, retryVars, deadlineVars, busVars, sqlVars, cacheVars,
                  configurationVars, lifetimeVars, pipelineVars, middlewareVars>>

SqlStep ==
  /\ subject = "SqlStore" /\ Sq!Next
  /\ UNCHANGED <<subject, versionVars, retryVars, deadlineVars, busVars, helperVars, cacheVars,
                  configurationVars, lifetimeVars, pipelineVars, middlewareVars>>

CacheStep ==
  /\ subject = "SharedCache" /\ Sc!Next
  /\ UNCHANGED <<subject, versionVars, retryVars, deadlineVars, busVars, helperVars, sqlVars,
                  configurationVars, lifetimeVars, pipelineVars, middlewareVars>>

ConfigurationStep ==
  /\ subject = "ConfigLoader" /\ Cl!Next
  /\ UNCHANGED <<subject, versionVars, retryVars, deadlineVars, busVars, helperVars, sqlVars, cacheVars,
                  lifetimeVars, pipelineVars, middlewareVars>>

LifetimeStep ==
  /\ subject = "Lifetimes" /\ Li!Next
  /\ UNCHANGED <<subject, versionVars, retryVars, deadlineVars, busVars, helperVars, sqlVars, cacheVars,
                  configurationVars, pipelineVars, middlewareVars>>

PipelineStep ==
  /\ subject = "RequestPipeline" /\ Rp!Next
  /\ UNCHANGED <<subject, versionVars, retryVars, deadlineVars, busVars, helperVars, sqlVars, cacheVars,
                  configurationVars, lifetimeVars, middlewareVars>>

MiddlewareStep ==
  /\ subject = "Middleware" /\ Mw!Next
  /\ UNCHANGED <<subject, versionVars, retryVars, deadlineVars, busVars, helperVars, sqlVars, cacheVars,
                  configurationVars, lifetimeVars, pipelineVars>>

Next ==
  \/ VersionsStep \/ RetryStep \/ DeadlineStep \/ BusStep \/ HelperStep
  \/ SqlStep \/ CacheStep \/ ConfigurationStep \/ LifetimeStep \/ PipelineStep \/ MiddlewareStep

Spec == Init /\ [][Next]_vars
-----------------------------------------------------------------------------
(* Properties are about one subject, or two of a kind; the others rest.    *)

TypeOK ==
  /\ subject = "ConfigVersions"  => Cv!TypeOK
  /\ subject = "Retrying"        => Rt!TypeOK
  /\ subject = "TimeoutBudget"   => Tb!TypeOK
  /\ subject = "EventBus"        => Eb!TypeOK
  /\ subject = "AsyncHelpers"    => Ah!TypeOK
  /\ subject = "SqlStore"        => Sq!TypeOK
  /\ subject = "SharedCache"     => Sc!TypeOK
  /\ subject = "ConfigLoader"    => Cl!TypeOK
  /\ subject = "Lifetimes"       => Li!TypeOK
  /\ subject = "RequestPipeline" => Rp!TypeOK
  /\ subject = "Middleware"      => Mw!TypeOK

\* The newest versions of the configuration are kept, and calls that do not overlap
\* leave memory, file and manager in agreement; what transaction() says is what
\* happened, and its clients are back in the pool; and a server, provider, client or
\* pool that is replaced is closed before, so that what lives is what is remembered.
StorageTold ==
  /\ subject = "ConfigVersions" => Cv!KeepsTheNewest /\ Cv!SerialHistory
  /\ subject = "SqlStore" => Sq!ResultsAreTrue /\ Sq!ClientsReturn
  /\ subject = "Lifetimes" => Li!NothingLeaks /\ Li!StoppedIsQuiet

\* A retry loop makes no more attempts than it may, and none fewer without a reason; the
\* one that has a deadline does not sleep past it; the deadlines of a chain of services shrink.
\* No operation starts in an open breaker, or when its deadline has passed, or that of
\* a call that it is made for.
DeadlinesHold ==
  /\ [](/\ subject = "Retrying" => Rt!GivesUpForAReason /\ Rt!WaitsBeforeDeadline
        /\ subject = "TimeoutBudget" => Tb!ChainShrinks)
  /\ Rt!StartsInTime /\ Tb!FailsFast

\* An entry that is in two places, or was computed elsewhere, is not an old one when the
\* calls have ended, unless a change overtook one of them; and it lives as long as it was
\* meant to, no longer.  What a mesh says of its services is what it was told, and what
\* is served of the metrics is what is counted.
CachesAgree ==
  /\ subject = "SharedCache" => Sc!LevelsAgree /\ Sc!ServerAgrees /\ Sc!MethodsAgree
  /\ subject = "Lifetimes" => Li!MeshAsTold /\ Li!MetricsShown

\* No handler is left out: by the loop of an event bus, by a timer of debounce() or
\* throttle(), or by the workers of mapReduce().
NobodyIsSkipped ==
  /\ subject = "EventBus" => Eb!NobodyIsSkipped /\ Eb!NamesAreLive /\ Eb!EveryoneIsTold
  /\ subject = "AsyncHelpers" => Ah!NoCallIsLost /\ Ah!ItemsMappedOnce

\* Handlers are called when they should be: once() once, listeners with the last value,
\* debounced and throttled functions at their distance.
CallsInOrder == Eb!OnceIsOnce /\ Eb!ListenersAgree /\ Ah!CallsAreApart

\* Who listens to a configuration loader knows its configuration, whatever is loaded,
\* changed and watched at the same time; the watchers it starts can all be stopped, and
\* a load that is left alone ends with what both of its sources say.
ConfigurationFollowed ==
  /\ [](subject = "ConfigLoader" => Cl!ListenersFollow /\ Cl!WatchersKnown)
  /\ Cl!SourcesMerged

\* Every request passes the plugins, faults and places before its handler as they are
\* set, and is answered or handed on; the handlers exceed the bulkhead's places by no
\* more than the waits that ended unserved.  Hooks answer a request or hand it on, no
\* handler is started for one that has its answer, and the cached responses that a
\* request is given are to a GET of its url.
RequestsSettled ==
  /\ [](subject = "RequestPipeline" =>
          Rp!EveryPluginAsked /\ Rp!WithinLimits /\ Rp!EveryRequestSettled)
  /\ [](subject = "Middleware" => Mw!EveryRequestAnswered /\ Mw!CacheServesAnswers)
-----------------------------------------------------------------------------
(* For TLC: each middleware, and interceptors in several orders.           *)

MCChains ==
  {<<"headers", "log", "cors", "guard", "size", "timeout", "retry">>,
   <<"limit", "limitByRoute", "breaker", "breakerByRoute">>,
   <<"logs", "own", "transform">>, <<"own", "cache">>}
MCRoutes == {<<"GET", "u">>, <<"ALL", "u">>}
-----------------------------------------------------------------------------
(* ConfigVersions: what the calls under way are about to do fits what is   *)
(* stored, and a number that is missing, or about to be deleted, has       *)
(* maxVersions newer ones, because deletions take the newest first.        *)

Histories == [Cv!VersionNumbers -> Configs \cup {Nothing}]
VersionCalls ==
  [stage : {"idle", "loaded", "save", "stored", "saving", "delete", "removed", "deleting"},
   number : 0 .. MaxNumber, config : Configs \cup {Nothing}, cleans : BOOLEAN,
   left : SUBSET Cv!VersionNumbers, write : Histories]

VersionTypes ==
  /\ storage \in {"memory", "file"} /\ versions \in Histories /\ disk \in Histories
  /\ highest \in 0 .. MaxNumber
  /\ current \in [number : 0 .. MaxNumber, config : Configs \cup {Nothing}]
  /\ calls \in [Callers -> VersionCalls]
  /\ crashes \in Nat /\ extras \in Nat /\ overlapped \in BOOLEAN
  /\ failed \in {"nothing", "save", "delete"}
  /\ storage = "memory" => crashes = 0

Deletes(call) == call.stage \in {"delete", "removed", "deleting"}

Fits(call, top) ==
  /\ call.stage \in {"loaded", "save", "stored", "saving"} => call.config \in Configs
  /\ call.stage = "save" => call.number \in 1 .. top + 1
  /\ call.stage \in {"stored", "saving"} => call.number \in 1 .. top
  /\ IF Deletes(call) THEN call.left # {} ELSE call.left = {}

CallsFit == \A p \in Callers : Fits(calls[p], highest)

NewerThan(n) == {m \in Cv!Present(versions) : m > n}

Replaced ==
  /\ \A n \in Cv!Present(versions) : n <= highest
  /\ \A p \in Callers : \A n \in calls[p].left : Cardinality(NewerThan(n)) >= MaxVersions
  /\ crashes = 0 => \A n \in 1 .. highest :
       versions[n] = Nothing => Cardinality(NewerThan(n)) >= MaxVersions

\* While calls have not overlapped, what the manager has is what its storage says, except
\* where the one call under way has something left to do about it, or a write has failed.
Known ==
  /\ current.number <= Cv!LatestOf(versions)
  /\ current.number # 0 => versions[current.number] = current.config
Agrees == Known /\ (failed # "save" => current.number = Cv!LatestOf(versions))
OnDisk == storage = "file" /\ failed = "nothing" => disk = versions
KeptFew(more) == crashes = 0 => Cardinality(Cv!Present(versions)) <= MaxVersions + extras + more

InCall(p) ==
  /\ calls[p].stage \in {"loaded", "save"} => Agrees /\ OnDisk /\ KeptFew(0)
  /\ calls[p].stage = "save" => calls[p].number = Cv!LatestOf(versions) + 1
  /\ calls[p].stage \in {"stored", "saving"} =>
       /\ calls[p].number = Cv!LatestOf(versions) /\ versions[calls[p].number] = calls[p].config
       /\ Known /\ KeptFew(1)
  /\ Deletes(calls[p]) =>
       /\ Agrees /\ failed = "nothing"
       /\ Cardinality(Cv!Present(versions) \ calls[p].left) <= MaxVersions
  /\ calls[p].stage = "delete" => OnDisk
  /\ calls[p].stage \in {"removed", "deleting"} => versions[Cv!Max(calls[p].left)] = Nothing
  /\ calls[p].stage \in {"saving", "deleting"} /\ storage = "file" => calls[p].write = versions

Alone ==
  /\ \A p, q \in Callers : Cv!Busy(p) /\ Cv!Busy(q) => p = q
  /\ (\A p \in Callers : ~Cv!Busy(p)) => Agrees /\ OnDisk /\ KeptFew(0)
  /\ \A p \in Callers : InCall(p)

VersionsInv == VersionTypes /\ CallsFit /\ Replaced /\ (~overlapped => Alone)

LEMMA VersionsConstants ==
  MaxVersions \in Nat /\ MaxVersions > 0 /\ MaxNumber \in Nat /\ Nothing \notin Configs
BY VersionsAssumption DEF Cv!OptionsOK

LEMMA VersionsLibrary == \A S : Cv!Cardinality(S) = Cardinality(S)
BY DEF Cv!Cardinality, Cardinality

LEMMA SomeNumbers ==
  ASSUME NEW S \in SUBSET Cv!VersionNumbers
  PROVE  IsFiniteSet(S) /\ Cardinality(S) \in Nat /\ \A n \in S : n \in Nat /\ n >= 1 /\ n <= MaxNumber
<1>1. MaxNumber \in Nat
  BY VersionsConstants
<1>2. IsFiniteSet(Cv!VersionNumbers)
  BY <1>1, FS_Interval DEF Cv!VersionNumbers
<1>3. IsFiniteSet(S) /\ Cardinality(S) \in Nat
  BY <1>2, FS_Subset, FS_CardinalityType
<1> QED
  BY <1>1, <1>3 DEF Cv!VersionNumbers

LEMMA LargestNumber ==
  ASSUME NEW S \in SUBSET Cv!VersionNumbers, S # {}
  PROVE  Cv!Max(S) \in S /\ \A n \in S : n <= Cv!Max(S)
<1>1. MaxNumber \in Nat /\ \A n \in S : n \in Nat /\ n <= MaxNumber
  BY VersionsConstants, SomeNumbers
<1> DEFINE Below == {MaxNumber - n : n \in S}
<1>2. Below \in SUBSET Nat /\ Below # {}
  BY <1>1
<1>3. PICK i \in Below : \A j \in Below : i <= j
  BY <1>2, Smallest
<1>4. PICK m \in S : i = MaxNumber - m
  BY <1>3
<1>5. \A n \in S : m >= n
  BY <1>1, <1>3, <1>4
<1>6. Cv!Max(S) \in S /\ \A n \in S : Cv!Max(S) >= n
  BY <1>4, <1>5 DEF Cv!Max
<1> QED
  BY <1>1, <1>6

\* The latest number of a history.
LEMMA LatestNumber ==
  ASSUME NEW past
  PROVE  /\ Cv!LatestOf(past) \in 0 .. MaxNumber
         /\ Cv!Present(past) = {} => Cv!LatestOf(past) = 0
         /\ Cv!Present(past) # {} => Cv!LatestOf(past) \in Cv!Present(past)
         /\ \A n \in Cv!Present(past) : n <= Cv!LatestOf(past)
         /\ \A n \in Cv!Present(past) : (\A m \in Cv!Present(past) : m <= n) => Cv!LatestOf(past) = n
<1>1. Cv!Present(past) \in SUBSET Cv!VersionNumbers
  BY DEF Cv!Present
<1>2. \A n \in Cv!Present(past) : n \in Nat /\ n >= 1 /\ n <= MaxNumber
  BY <1>1, SomeNumbers
<1>3. CASE Cv!Present(past) = {}
  BY <1>3, VersionsConstants DEF Cv!LatestOf
<1>4. CASE Cv!Present(past) # {}
  <2>1. Cv!LatestOf(past) = Cv!Max(Cv!Present(past))
    BY <1>4 DEF Cv!LatestOf
  <2>2. /\ Cv!LatestOf(past) \in Cv!Present(past)
        /\ \A n \in Cv!Present(past) : n <= Cv!LatestOf(past)
    BY <1>1, <1>4, <2>1, LargestNumber
  <2> QED
    BY <1>2, <1>4, <2>2
<1> QED
  BY <1>3, <1>4

\* Of any numbers, no more than "few" have fewer newer ones.
LEMMA NewestFew ==
  ASSUME NEW S \in SUBSET Cv!VersionNumbers, NEW few \in Nat, few > 0
  PROVE  Cardinality({n \in S : Cardinality({m \in S : m > n}) < few}) <= few
<1> DEFINE newest == {n \in S : Cardinality({m \in S : m > n}) < few}
<1>1. newest \in SUBSET Cv!VersionNumbers
  OBVIOUS
<1>2. /\ IsFiniteSet(S) /\ IsFiniteSet(newest) /\ Cardinality(newest) \in Nat
      /\ \A n \in S : n \in Nat
  BY <1>1, SomeNumbers
<1>3. ASSUME newest = {} PROVE Cardinality(newest) <= few
  <2>1. Cardinality({}) = 0
    BY FS_EmptySet
  <2> HIDE DEF newest
  <2> QED
    BY <1>3, <2>1
<1>4. ASSUME newest # {} PROVE Cardinality(newest) <= few
  <2>1. PICK k \in newest : \A n \in newest : k <= n
    BY <1>2, <1>4, Smallest
  <2>2. newest \ {k} \subseteq {m \in S : m > k}
    BY <1>2, <2>1
  <2>3. IsFiniteSet({m \in S : m > k}) /\ Cardinality({m \in S : m > k}) \in Nat
    BY <1>2, FS_Subset, FS_CardinalityType
  <2>4. Cardinality(newest \ {k}) <= Cardinality({m \in S : m > k})
    BY <2>2, <2>3, FS_Subset
  <2>5. Cardinality(newest \ {k}) = Cardinality(newest) - 1
    BY <1>2, <2>1, FS_RemoveElement
  <2>6. Cardinality({m \in S : m > k}) < few
    BY <2>1
  <2> QED
    BY <1>2, <2>3, <2>4, <2>5, <2>6
<1> QED
  BY <1>3, <1>4

LEMMA VersionsInit == Cv!Init => VersionsInv
<1> SUFFICES ASSUME Cv!Init PROVE VersionsInv
  OBVIOUS
<1> USE DEF Cv!Init
<1>1. Cv!NoVersions \in Histories /\ Cv!Present(Cv!NoVersions) = {}
  BY DEF Cv!NoVersions, Histories, Cv!Present
<1>2. Cv!LatestOf(versions) = 0
  BY <1>1, LatestNumber
<1>3. Cv!IdleCall \in VersionCalls /\ Cv!IdleCall.stage = "idle" /\ Cv!IdleCall.left = {}
  BY <1>1, VersionsConstants DEF Cv!IdleCall, VersionCalls
<1>4. VersionTypes
  <2>1. current \in [number : 0 .. MaxNumber, config : Configs \cup {Nothing}]
    BY VersionsConstants
  <2>2. calls \in [Callers -> VersionCalls]
    BY <1>3
  <2> QED
    BY <1>1, <2>1, <2>2, VersionsConstants DEF VersionTypes
<1>5. \A p \in Callers : calls[p].stage = "idle" /\ calls[p].left = {} /\ ~Deletes(calls[p])
  BY <1>3 DEF Deletes
<1>6. CallsFit
  BY <1>5 DEF CallsFit, Fits
<1>7. Replaced
  BY <1>1, <1>5 DEF Replaced
<1>8. Cardinality(Cv!Present(versions)) = 0
  BY <1>1, FS_EmptySet
<1>9. Agrees /\ OnDisk /\ KeptFew(0)
  BY <1>2, <1>8, VersionsConstants DEF Agrees, Known, OnDisk, KeptFew
<1>10. Alone
  BY <1>5, <1>9 DEF Alone, InCall, Cv!Busy
<1> QED
  BY <1>4, <1>6, <1>7, <1>10 DEF VersionsInv

\* The number that a call is given is the next one.
LEMMA NextNumber ==
  ASSUME VersionTypes, Replaced
  PROVE  /\ Cv!GetLatest \in 0 .. highest
         /\ Cv!GetLatest = Cv!LatestOf(versions)
<1>1. /\ highest \in 0 .. MaxNumber /\ MaxNumber \in Nat /\ MaxVersions \in Nat /\ MaxVersions > 0
      /\ \A n \in Cv!Present(versions) : n <= highest
  BY VersionsConstants DEF VersionTypes, Replaced
<1>2. Cv!LatestOf(versions) \in 0 .. highest
  BY <1>1, LatestNumber
<1>3. CASE storage = "memory"
  <2>1. CASE highest = 0
    BY <1>1, <1>2, <1>3, <2>1, LatestNumber DEF Cv!GetLatest
  <2>2. CASE highest # 0
    <3>1. {m \in Cv!Present(versions) : m > highest} = {}
      BY <1>1, SomeNumbers DEF Cv!Present
    <3>2. highest \in 1 .. highest /\ highest \in Cv!VersionNumbers /\ crashes = 0
      BY <1>1, <1>3, <2>2 DEF Cv!VersionNumbers, VersionTypes
    <3>3. versions[highest] # Nothing
      <4>1. Cardinality(NewerThan(highest)) = 0
        BY <3>1, FS_EmptySet DEF NewerThan
      <4> QED
        BY <1>1, <3>2, <4>1 DEF Replaced
    <3>4. highest \in Cv!Present(versions)
      BY <3>2, <3>3 DEF Cv!Present
    <3> QED
      BY <1>1, <1>3, <3>4, LatestNumber DEF Cv!GetLatest
  <2> QED
    BY <2>1, <2>2
<1>4. CASE storage # "memory"
  BY <1>2, <1>4 DEF Cv!GetLatest
<1> QED
  BY <1>3, <1>4

\* Deleting the newest of the numbers that a call may delete takes none of the newer ones
\* that another number needs.
LEMMA StillNewer ==
  ASSUME VersionTypes, Replaced, NEW p \in Callers, calls[p].left # {},
         versions' = [versions EXCEPT ![Cv!Max(calls[p].left)] = Nothing],
         NEW n \in Cv!VersionNumbers, Cardinality(NewerThan(n)) >= MaxVersions
  PROVE  Cardinality(NewerThan(n)') >= MaxVersions
<1> DEFINE d == Cv!Max(calls[p].left)
<1>1. calls[p].left \in SUBSET Cv!VersionNumbers /\ DOMAIN versions = Cv!VersionNumbers
  BY DEF VersionTypes, VersionCalls, Histories
<1>2. d \in calls[p].left /\ d \in Cv!VersionNumbers
  BY <1>1, LargestNumber
<1> HIDE DEF d
<1>3. Cardinality(NewerThan(d)) >= MaxVersions
  BY <1>2 DEF Replaced
<1>4. \A m \in Cv!VersionNumbers \ {d} : versions'[m] = versions[m]
  BY <1>1 DEF d
<1>5. d \in Nat /\ n \in Nat /\ \A m \in Cv!VersionNumbers : m \in Nat
  BY <1>2, SomeNumbers
<1>6. NewerThan(n)' \in SUBSET Cv!VersionNumbers /\ NewerThan(d) \in SUBSET Cv!VersionNumbers
      /\ NewerThan(n) \in SUBSET Cv!VersionNumbers
  BY DEF NewerThan, Cv!Present
<1>7. /\ IsFiniteSet(NewerThan(n)') /\ Cardinality(NewerThan(n)') \in Nat
      /\ Cardinality(NewerThan(d)) \in Nat /\ Cardinality(NewerThan(n)) \in Nat
  BY <1>6, SomeNumbers
<1>8. CASE n < d
  <2>1. NewerThan(d) \subseteq NewerThan(n)'
    <3> SUFFICES ASSUME NEW m \in NewerThan(d) PROVE m \in NewerThan(n)'
      OBVIOUS
    <3>1. m \in Cv!VersionNumbers /\ m > d /\ versions[m] # Nothing
      BY DEF NewerThan, Cv!Present
    <3> QED
      BY <1>4, <1>5, <1>8, <3>1 DEF NewerThan, Cv!Present
  <2>2. Cardinality(NewerThan(d)) <= Cardinality(NewerThan(n)')
    BY <1>7, <2>1, FS_Subset
  <2> QED
    BY <1>3, <1>7, <2>2, VersionsConstants
<1>9. CASE ~(n < d)
  <2>1. NewerThan(n) \subseteq NewerThan(n)'
    BY <1>4, <1>5, <1>9 DEF NewerThan, Cv!Present
  <2>2. Cardinality(NewerThan(n)) <= Cardinality(NewerThan(n)')
    BY <1>7, <2>1, FS_Subset
  <2> QED
    BY <1>7, <2>2, VersionsConstants
<1> QED
  BY <1>8, <1>9

LEMMA CallsFitAfter ==
  ASSUME VersionTypes, CallsFit, NEW p \in Callers, NEW new \in VersionCalls,
         calls' = [calls EXCEPT ![p] = new],
         highest' \in Nat, highest' >= highest, Fits(new, highest')
  PROVE  CallsFit'
<1> SUFFICES ASSUME NEW q \in Callers PROVE Fits(calls'[q], highest')
  BY DEF CallsFit, Fits, Deletes
<1>1. CASE q = p
  BY <1>1 DEF VersionTypes
<1>2. CASE q # p
  <2>1. calls'[q] = calls[q] /\ Fits(calls[q], highest) /\ highest \in Nat
    BY <1>2, VersionsConstants DEF VersionTypes, CallsFit
  <2>2. \A n : n \in 1 .. highest => n \in 1 .. highest'
    BY <2>1
  <2>3. \A n : n \in 1 .. highest + 1 => n \in 1 .. highest' + 1
    <3>1. \A a, b \in Nat : b >= a => \A n : n \in 1 .. a + 1 => n \in 1 .. b + 1
      OBVIOUS
    <3> QED
      BY <2>1, <3>1
  <2> QED
    BY <2>1, <2>2, <2>3 DEF Fits
<1> QED
  BY <1>1, <1>2

\* The call of p is the only one, before and after.
LEMMA StaysAlone ==
  ASSUME VersionTypes, NEW p \in Callers, NEW new, calls' = [calls EXCEPT ![p] = new],
         \A q \in Callers \ {p} : ~Cv!Busy(q),
         IF new.stage = "idle" THEN (Agrees /\ OnDisk /\ KeptFew(0))' ELSE InCall(p)'
  PROVE  Alone'
<1>1. /\ calls'[p] = new /\ \A q \in Callers \ {p} : calls'[q] = calls[q] /\ calls[q].stage = "idle"
  BY DEF VersionTypes, Cv!Busy
<1>2. \A q \in Callers \ {p} : InCall(q)' /\ ~Cv!Busy(q)'
  BY <1>1 DEF InCall, Deletes, Cv!Busy
<1>3. Cv!Busy(p)' <=> new.stage # "idle"
  BY <1>1 DEF Cv!Busy
<1>4. InCall(p)'
  BY <1>1 DEF InCall, Deletes
<1>5. \A q \in Callers : InCall(q)'
  BY <1>2, <1>4
<1>6. (\A q \in Callers : ~Cv!Busy(q)') => (Agrees /\ OnDisk /\ KeptFew(0))'
  BY <1>3
<1>7. \A q, u \in Callers : Cv!Busy(q)' /\ Cv!Busy(u)' => q = u
  BY <1>2
<1> QED
  BY <1>5, <1>6, <1>7 DEF Alone

LEMMA OthersIdle ==
  ASSUME Alone, NEW p \in Callers, Cv!Busy(p)
  PROVE  \A q \in Callers \ {p} : ~Cv!Busy(q)
BY DEF Alone

\* What is stored stays as it is.
LEMMA SameVersions ==
  ASSUME UNCHANGED <<versions, highest, crashes>>, Replaced, VersionTypes,
         \A q \in Callers : calls'[q].left \subseteq calls[q].left
  PROVE  Replaced'
<1>1. \A n : NewerThan(n)' = NewerThan(n)
  BY DEF NewerThan, Cv!Present
<1>2. Cv!Present(versions)' = Cv!Present(versions)
  BY DEF Cv!Present
<1> QED
  BY <1>1, <1>2 DEF Replaced

LEMMA SameStory ==
  ASSUME UNCHANGED <<storage, versions, current, disk, crashes, extras, failed>>
  PROVE  /\ Agrees' = Agrees /\ Known' = Known /\ OnDisk' = OnDisk
         /\ KeptFew(0)' = KeptFew(0) /\ KeptFew(1)' = KeptFew(1)
         /\ Cv!LatestOf(versions)' = Cv!LatestOf(versions)
<1>1. Cv!Present(versions)' = Cv!Present(versions)
  BY DEF Cv!Present
<1>2. Cv!LatestOf(versions)' = Cv!LatestOf(versions)
  BY <1>1 DEF Cv!LatestOf, Cv!Max
<1> QED
  BY <1>1, <1>2 DEF Agrees, Known, OnDisk, KeptFew

\* A call that has not begun, or has loaded its target, reads the latest number.
LEMMA LatestRead ==
  ASSUME VersionTypes, Replaced, NEW p \in Callers, NEW call \in VersionCalls, Cv!ReadLatest(p, call)
  PROVE  \E new \in VersionCalls :
           /\ calls' = [calls EXCEPT ![p] = new] /\ new.stage = "save"
           /\ new.number = Cv!LatestOf(versions) + 1 /\ new.number \in 1 .. highest + 1
           /\ new.config = call.config /\ new.cleans = call.cleans /\ new.left = call.left
<1> DEFINE new == [call EXCEPT !.stage = "save", !.number = Cv!GetLatest + 1]
<1>1. /\ Cv!GetLatest \in 0 .. highest /\ Cv!GetLatest = Cv!LatestOf(versions)
      /\ highest \in 0 .. MaxNumber /\ MaxNumber \in Nat
  BY NextNumber, VersionsConstants DEF VersionTypes
<1>2. Cv!GetLatest < MaxNumber /\ calls' = [calls EXCEPT ![p] = new]
  BY DEF Cv!ReadLatest
<1> DEFINE number == Cv!GetLatest + 1
<1>3. number \in 0 .. MaxNumber /\ number \in 1 .. highest + 1
  BY <1>1, <1>2
<1>4. new = [call EXCEPT !.stage = "save", !.number = number]
  OBVIOUS
<1> HIDE DEF new, number
<1>5. new \in VersionCalls /\ new.stage = "save" /\ new.number = number
      /\ new.config = call.config /\ new.cleans = call.cleans /\ new.left = call.left
  BY <1>3, <1>4 DEF VersionCalls
<1>6. number = Cv!LatestOf(versions) + 1
  BY <1>1 DEF number
<1> QED
  BY <1>2, <1>3, <1>5, <1>6

\* createVersion() begins.
LEMMA CreateKeeps ==
  ASSUME VersionsInv, NEW p \in Callers, NEW chosen \in Configs, Cv!CreateVersion(p, chosen)
  PROVE  VersionsInv'
<1> DEFINE call == [Cv!IdleCall EXCEPT !.config = chosen, !.cleans = TRUE]
<1>0. VersionTypes /\ CallsFit /\ Replaced
  BY DEF VersionsInv
<1>1. call \in VersionCalls /\ call.config = chosen /\ call.left = {} /\ call.cleans = TRUE
  <2>1. Cv!NoVersions \in Histories
    BY DEF Cv!NoVersions, Histories
  <2>2. Cv!IdleCall \in VersionCalls /\ Cv!IdleCall.left = {}
    BY <2>1, VersionsConstants DEF Cv!IdleCall, VersionCalls
  <2> QED
    BY <2>2 DEF VersionCalls
<1>2. /\ ~Cv!Busy(p) /\ Cv!ReadLatest(p, call)
      /\ overlapped' = (overlapped \/ \E q \in Callers : Cv!Busy(q))
      /\ UNCHANGED <<storage, versions, highest, current, disk, crashes, extras, failed>>
  BY DEF Cv!CreateVersion
<1> HIDE DEF call
<1>3. PICK new \in VersionCalls :
           /\ calls' = [calls EXCEPT ![p] = new] /\ new.stage = "save"
           /\ new.number = Cv!LatestOf(versions) + 1 /\ new.number \in 1 .. highest + 1
           /\ new.config = chosen /\ new.left = {}
  BY <1>0, <1>1, <1>2, LatestRead
<1>4. VersionTypes'
  BY <1>0, <1>2, <1>3 DEF VersionTypes
<1>5. CallsFit'
  <2>1. Fits(new, highest')
    BY <1>2, <1>3 DEF Fits, Deletes
  <2>2. highest' \in Nat /\ highest' >= highest
    BY <1>0, <1>2, VersionsConstants DEF VersionTypes
  <2> QED
    BY <1>0, <1>3, <2>1, <2>2, CallsFitAfter
<1>6. Replaced'
  <2>1. \A q \in Callers : calls'[q].left \subseteq calls[q].left
    BY <1>0, <1>3 DEF VersionTypes
  <2> QED
    BY <1>0, <1>2, <2>1, SameVersions
<1>7. ASSUME ~overlapped' PROVE Alone'
  <2>1. ~overlapped /\ \A q \in Callers : ~Cv!Busy(q)
    BY <1>2, <1>7
  <2>2. Agrees /\ OnDisk /\ KeptFew(0)
    BY <2>1 DEF VersionsInv, Alone
  <2>3. calls'[p] = new
    BY <1>0, <1>3 DEF VersionTypes
  <2>4. InCall(p)'
    BY <1>2, <1>3, <2>2, <2>3, SameStory DEF InCall, Deletes
  <2> QED
    BY <1>0, <1>3, <2>1, <2>4, StaysAlone
<1> QED
  BY <1>4, <1>5, <1>6, <1>7 DEF VersionsInv

\* rollback() begins.
LEMMA RollbackKeeps ==
  ASSUME VersionsInv, NEW p \in Callers, NEW n \in Cv!VersionNumbers, Cv!Rollback(p, n)
  PROVE  VersionsInv'
<1> DEFINE new == [Cv!IdleCall EXCEPT !.stage = "loaded", !.config = versions[n]]
<1>0. VersionTypes /\ CallsFit /\ Replaced
  BY DEF VersionsInv
<1>1. /\ ~Cv!Busy(p) /\ n \in Cv!Present(versions) /\ calls' = [calls EXCEPT ![p] = new]
      /\ overlapped' = (overlapped \/ \E q \in Callers : Cv!Busy(q))
      /\ UNCHANGED <<storage, versions, highest, current, disk, crashes, extras, failed>>
  BY DEF Cv!Rollback
<1>2. versions[n] \in Configs
  BY <1>0, <1>1 DEF VersionTypes, Histories, Cv!Present
<1>3. new \in VersionCalls /\ new.stage = "loaded" /\ new.config \in Configs /\ new.left = {}
  <2>1. Cv!NoVersions \in Histories
    BY DEF Cv!NoVersions, Histories
  <2>2. Cv!IdleCall \in VersionCalls /\ Cv!IdleCall.left = {}
    BY <2>1, VersionsConstants DEF Cv!IdleCall, VersionCalls
  <2> QED
    BY <1>2, <2>2 DEF VersionCalls
<1> HIDE DEF new
<1>4. VersionTypes'
  BY <1>0, <1>1, <1>3 DEF VersionTypes
<1>5. CallsFit'
  <2>1. Fits(new, highest')
    BY <1>3 DEF Fits, Deletes
  <2>2. highest' \in Nat /\ highest' >= highest
    BY <1>0, <1>1, VersionsConstants DEF VersionTypes
  <2> QED
    BY <1>0, <1>1, <1>3, <2>1, <2>2, CallsFitAfter
<1>6. Replaced'
  <2>1. \A q \in Callers : calls'[q].left \subseteq calls[q].left
    BY <1>0, <1>1, <1>3 DEF VersionTypes
  <2> QED
    BY <1>0, <1>1, <2>1, SameVersions
<1>7. ASSUME ~overlapped' PROVE Alone'
  <2>1. ~overlapped /\ \A q \in Callers : ~Cv!Busy(q)
    BY <1>1, <1>7
  <2>2. Agrees /\ OnDisk /\ KeptFew(0)
    BY <2>1 DEF VersionsInv, Alone
  <2>3. calls'[p] = new
    BY <1>0, <1>1 DEF VersionTypes
  <2>4. InCall(p)'
    BY <1>1, <1>3, <2>2, <2>3, SameStory DEF InCall, Deletes
  <2> QED
    BY <1>0, <1>1, <1>3, <2>1, <2>4, StaysAlone
<1> QED
  BY <1>4, <1>5, <1>6, <1>7 DEF VersionsInv

\* rollback() has its target, and reads the latest number.
LEMMA LoadedKeeps ==
  ASSUME VersionsInv, NEW p \in Callers, Cv!TargetLoaded(p)
  PROVE  VersionsInv'
<1>0. VersionTypes /\ CallsFit /\ Replaced /\ calls[p] \in VersionCalls
  BY DEF VersionsInv, VersionTypes
<1>1. /\ calls[p].stage = "loaded" /\ Cv!ReadLatest(p, calls[p])
      /\ UNCHANGED <<storage, versions, highest, current, disk, crashes, overlapped, extras, failed>>
  BY DEF Cv!TargetLoaded
<1>2. PICK new \in VersionCalls :
           /\ calls' = [calls EXCEPT ![p] = new] /\ new.stage = "save"
           /\ new.number = Cv!LatestOf(versions) + 1 /\ new.number \in 1 .. highest + 1
           /\ new.config = calls[p].config /\ new.left = calls[p].left
  BY <1>0, <1>1, LatestRead
<1>3. calls[p].config \in Configs /\ calls[p].left = {}
  BY <1>0, <1>1 DEF CallsFit, Fits, Deletes
<1>4. VersionTypes'
  BY <1>0, <1>1, <1>2 DEF VersionTypes
<1>5. CallsFit'
  <2>1. Fits(new, highest')
    BY <1>1, <1>2, <1>3 DEF Fits, Deletes
  <2>2. highest' \in Nat /\ highest' >= highest
    BY <1>0, <1>1, VersionsConstants DEF VersionTypes
  <2> QED
    BY <1>0, <1>2, <2>1, <2>2, CallsFitAfter
<1>6. Replaced'
  <2>1. \A q \in Callers : calls'[q].left \subseteq calls[q].left
    BY <1>0, <1>2 DEF VersionTypes
  <2> QED
    BY <1>0, <1>1, <2>1, SameVersions
<1>7. ASSUME ~overlapped' PROVE Alone'
  <2>1. Alone /\ Cv!Busy(p)
    BY <1>1, <1>7 DEF VersionsInv, Cv!Busy
  <2>2. Agrees /\ OnDisk /\ KeptFew(0)
    BY <1>1, <2>1 DEF Alone, InCall
  <2>3. calls'[p] = new
    BY <1>0, <1>2 DEF VersionTypes
  <2>4. InCall(p)'
    BY <1>1, <1>2, <2>2, <2>3, SameStory DEF InCall, Deletes
  <2> QED
    BY <1>0, <1>2, <2>1, <2>4, StaysAlone, OthersIdle
<1> QED
  BY <1>4, <1>5, <1>6, <1>7 DEF VersionsInv

\* A version is stored under its number.
LEMMA SaveKeeps ==
  ASSUME VersionsInv, NEW p \in Callers, Cv!Save(p)
  PROVE  VersionsInv'
<1> DEFINE number == calls[p].number
           new == [calls[p] EXCEPT !.stage = IF storage = "file" THEN "stored" ELSE "saving"]
<1>0. VersionTypes /\ CallsFit /\ Replaced /\ calls[p] \in VersionCalls
  BY DEF VersionsInv, VersionTypes
<1>1. /\ calls[p].stage = "save" /\ versions' = [versions EXCEPT ![number] = calls[p].config]
      /\ highest' = (IF number > highest THEN number ELSE highest)
      /\ calls' = [calls EXCEPT ![p] = new]
      /\ UNCHANGED <<storage, current, disk, crashes, overlapped, extras, failed>>
  BY DEF Cv!Save
<1>2. /\ number \in 1 .. highest + 1 /\ number \in 0 .. MaxNumber /\ calls[p].config \in Configs
      /\ calls[p].left = {}
  BY <1>0, <1>1 DEF CallsFit, Fits, Deletes, VersionCalls
<1>3. /\ new \in VersionCalls /\ new.number = number /\ new.config = calls[p].config /\ new.left = {}
      /\ new.stage \in {"stored", "saving"} /\ (storage = "file" => new.stage = "stored")
  BY <1>0, <1>2 DEF VersionCalls
<1> HIDE DEF new, number
<1>4. /\ highest \in Nat /\ MaxNumber \in Nat /\ number \in Cv!VersionNumbers /\ number \in Nat
      /\ highest' \in 0 .. MaxNumber /\ highest' \in Nat /\ highest' >= highest /\ number \in 1 .. highest'
      /\ \A n \in 1 .. highest' : n # number => n \in 1 .. highest
  BY <1>0, <1>1, <1>2, VersionsConstants DEF VersionTypes, Cv!VersionNumbers
<1>5. /\ versions' \in Histories /\ versions'[number] = calls[p].config
      /\ \A n \in Cv!VersionNumbers \ {number} : versions'[n] = versions[n]
      /\ calls[p].config # Nothing
  BY <1>0, <1>1, <1>2, <1>4, VersionsConstants DEF VersionTypes, Histories
<1>6. Cv!Present(versions)' = Cv!Present(versions) \cup {number}
  BY <1>4, <1>5 DEF Cv!Present
<1>7. VersionTypes'
  BY <1>0, <1>1, <1>3, <1>4, <1>5 DEF VersionTypes
<1>8. CallsFit'
  <2>1. Fits(new, highest')
    BY <1>2, <1>3, <1>4 DEF Fits, Deletes
  <2> QED
    BY <1>0, <1>1, <1>3, <1>4, <2>1, CallsFitAfter
<1>9. Replaced'
  <2>1. \A n \in Cv!Present(versions)' : n <= highest'
    BY <1>0, <1>4, <1>6, SomeNumbers DEF Replaced, Cv!Present
  <2>2. ASSUME NEW n, Cardinality(NewerThan(n)) >= MaxVersions
        PROVE  Cardinality(NewerThan(n)') >= MaxVersions
    <3>1. NewerThan(n) \subseteq NewerThan(n)'
      BY <1>6 DEF NewerThan
    <3>2. NewerThan(n) \in SUBSET Cv!VersionNumbers /\ NewerThan(n)' \in SUBSET Cv!VersionNumbers
      BY DEF NewerThan, Cv!Present
    <3>3. /\ IsFiniteSet(NewerThan(n)') /\ Cardinality(NewerThan(n)') \in Nat
          /\ Cardinality(NewerThan(n)) \in Nat
      BY <3>2, SomeNumbers
    <3>4. Cardinality(NewerThan(n)) <= Cardinality(NewerThan(n)')
      BY <3>1, <3>3, FS_Subset
    <3> QED
      BY <2>2, <3>3, <3>4, VersionsConstants
  <2>3. \A q \in Callers : calls'[q].left = calls[q].left
    BY <1>0, <1>1, <1>2, <1>3 DEF VersionTypes
  <2>4. ASSUME crashes' = 0, NEW n \in 1 .. highest', versions'[n] = Nothing
        PROVE  Cardinality(NewerThan(n)) >= MaxVersions
    <3>1. n # number
      BY <1>5, <2>4
    <3>2. n \in 1 .. highest /\ n \in Cv!VersionNumbers /\ crashes = 0
      BY <1>1, <1>4, <2>4, <3>1 DEF Cv!VersionNumbers
    <3> QED
      BY <1>0, <1>5, <2>4, <3>1, <3>2 DEF Replaced
  <2> QED
    BY <1>0, <2>1, <2>2, <2>3, <2>4 DEF Replaced
<1>10. ASSUME ~overlapped' PROVE Alone'
  <2>1. Alone /\ Cv!Busy(p)
    BY <1>1, <1>10 DEF VersionsInv, Cv!Busy
  <2>2. KeptFew(0) /\ number = Cv!LatestOf(versions) + 1
    BY <1>1, <2>1 DEF Alone, InCall, number
  <2>3. calls'[p] = new
    BY <1>0, <1>1 DEF VersionTypes
  <2>4. Cv!LatestOf(versions)' = number
    <3>1. Cv!LatestOf(versions) \in Nat /\ \A n \in Cv!Present(versions) : n \in Nat /\ n <= Cv!LatestOf(versions)
      <4>1. Cv!Present(versions) \in SUBSET Cv!VersionNumbers
        BY DEF Cv!Present
      <4>2. \A n \in Cv!Present(versions) : n \in Nat
        BY <4>1, SomeNumbers
      <4> QED
        BY <4>2, LatestNumber, VersionsConstants
    <3>2. \A n \in Cv!Present(versions') : n <= number
      BY <1>4, <1>6, <2>2, <3>1
    <3> QED
      BY <1>6, <3>2, LatestNumber
  <2>5. KeptFew(1)'
    <3>1. Cv!Present(versions) \in SUBSET Cv!VersionNumbers
      BY DEF Cv!Present
    <3>2. IsFiniteSet(Cv!Present(versions)) /\ Cardinality(Cv!Present(versions)) \in Nat
      BY <3>1, SomeNumbers
    <3>3. \/ Cardinality(Cv!Present(versions)') = Cardinality(Cv!Present(versions)) + 1
          \/ Cardinality(Cv!Present(versions)') = Cardinality(Cv!Present(versions))
      BY <1>6, <3>2, FS_AddElement
    <3>4. extras' = extras /\ crashes' = crashes /\ extras \in Nat
      BY <1>0, <1>1 DEF VersionTypes
    <3> QED
      BY <2>2, <3>2, <3>3, <3>4, VersionsConstants DEF KeptFew
  <2>12. Known'
    <3>0. Agrees
      BY <1>1, <2>1 DEF Alone, InCall
    <3>1. /\ current.number <= Cv!LatestOf(versions) /\ current.number \in Nat /\ current.number <= MaxNumber
          /\ current.number # 0 => versions[current.number] = current.config
      <4>1. current.number \in 0 .. MaxNumber
        BY <1>0 DEF VersionTypes
      <4> QED
        BY <1>4, <3>0, <4>1 DEF Agrees, Known
    <3>2. Cv!LatestOf(versions) \in Nat
      BY LatestNumber, VersionsConstants
    <3>3. current.number <= number /\ current.number # number
      BY <1>4, <2>2, <3>1, <3>2
    <3>4. current.number # 0 => current.number \in Cv!VersionNumbers \ {number}
      BY <1>4, <3>1, <3>3 DEF Cv!VersionNumbers
    <3> QED
      BY <1>1, <1>5, <2>4, <3>1, <3>3, <3>4 DEF Known
  <2>6. InCall(p)'
    BY <1>1, <1>3, <1>5, <2>3, <2>4, <2>5, <2>12 DEF InCall, Deletes
  <2>7. new.stage # "idle"
    BY <1>3
  <2> QED
    BY <1>0, <1>1, <2>1, <2>6, <2>7, StaysAlone, OthersIdle
<1> QED
  BY <1>7, <1>8, <1>9, <1>10 DEF VersionsInv

\* What is to be written to the file is taken.
LEMMA PersistKeeps ==
  ASSUME VersionsInv, NEW p \in Callers, Cv!Persist(p)
  PROVE  VersionsInv'
<1> DEFINE new == [calls[p] EXCEPT !.write = versions,
                                   !.stage = IF @ = "stored" THEN "saving" ELSE "deleting"]
<1>0. VersionTypes /\ CallsFit /\ Replaced /\ calls[p] \in VersionCalls /\ Fits(calls[p], highest)
  BY DEF VersionsInv, VersionTypes, CallsFit
<1>1. /\ calls[p].stage \in {"stored", "removed"}
      /\ calls' = [calls EXCEPT ![p] = new]
      /\ UNCHANGED <<storage, versions, highest, current, disk, crashes, overlapped, extras, failed>>
  BY DEF Cv!Persist
<1>2. versions \in Histories
  BY <1>0 DEF VersionTypes
<1>3. /\ new \in VersionCalls /\ new.number = calls[p].number /\ new.config = calls[p].config
      /\ new.left = calls[p].left /\ new.write = versions
      /\ new.stage = (IF calls[p].stage = "stored" THEN "saving" ELSE "deleting")
  BY <1>0, <1>2 DEF VersionCalls
<1> HIDE DEF new
<1>4. VersionTypes'
  BY <1>0, <1>1, <1>3 DEF VersionTypes
<1>5. CallsFit'
  <2>1. Fits(new, highest')
    BY <1>0, <1>1, <1>3 DEF Fits, Deletes
  <2>2. highest' \in Nat /\ highest' >= highest
    <3>1. highest \in 0 .. MaxNumber /\ highest' = highest /\ MaxNumber \in Nat
      BY <1>0, <1>1, VersionsConstants DEF VersionTypes
    <3> QED
      BY <3>1
  <2> QED
    BY <1>0, <1>1, <1>3, <2>1, <2>2, CallsFitAfter
<1>6. Replaced'
  <2>1. \A q \in Callers : calls'[q].left \subseteq calls[q].left
    BY <1>0, <1>1, <1>3 DEF VersionTypes
  <2> QED
    BY <1>0, <1>1, <2>1, SameVersions
<1>7. ASSUME ~overlapped' PROVE Alone'
  <2>1. Alone /\ Cv!Busy(p) /\ InCall(p)
    BY <1>1, <1>7 DEF VersionsInv, Cv!Busy, Alone
  <2>2. calls'[p] = new
    BY <1>0, <1>1 DEF VersionTypes
  <2>3. Cv!Present(versions)' = Cv!Present(versions)
    BY <1>1 DEF Cv!Present
  <2>12. /\ Agrees' = Agrees /\ Known' = Known /\ OnDisk' = OnDisk
        /\ KeptFew(0)' = KeptFew(0) /\ KeptFew(1)' = KeptFew(1)
        /\ Cv!LatestOf(versions)' = Cv!LatestOf(versions)
    BY <1>1, SameStory
  <2>4. InCall(p)'
    <3>1. CASE calls[p].stage = "stored"
      <4>1. /\ calls[p].number = Cv!LatestOf(versions) /\ versions[calls[p].number] = calls[p].config
            /\ Known /\ KeptFew(1)
        BY <2>1, <3>1 DEF InCall
      <4>2. Known' /\ KeptFew(1)'
        BY <2>12, <4>1
      <4>3. calls'[p].stage = "saving" /\ ~Deletes(calls'[p])
        BY <1>3, <2>2, <3>1 DEF Deletes
      <4> QED
        BY <1>1, <1>3, <2>2, <2>12, <4>1, <4>2, <4>3 DEF InCall
    <3>2. CASE calls[p].stage = "removed"
      BY <1>1, <1>3, <2>1, <2>2, <2>3, <2>12, <3>2 DEF InCall, Deletes
    <3> QED
      BY <1>1, <3>1, <3>2
  <2>5. new.stage # "idle"
    BY <1>3
  <2> QED
    BY <1>0, <1>1, <2>1, <2>4, <2>5, StaysAlone, OthersIdle
<1> QED
  BY <1>4, <1>5, <1>6, <1>7 DEF VersionsInv

\* The numbers that are to be deleted have enough newer ones, and leave few.
LEMMA WhatToDelete ==
  /\ Cv!ToDelete \in SUBSET Cv!VersionNumbers
  /\ Cv!ToDelete = {n \in Cv!Present(versions) : Cardinality(NewerThan(n)) >= MaxVersions}
  /\ Cardinality(Cv!Present(versions) \ Cv!ToDelete) <= MaxVersions
<1> DEFINE present == Cv!Present(versions)
           newest == {n \in present : Cardinality({m \in present : m > n}) < MaxVersions}
<1>1. present \in SUBSET Cv!VersionNumbers
  BY DEF Cv!Present
<1>2. Cv!ToDelete = {n \in present : Cardinality({m \in present : m > n}) >= MaxVersions}
  BY VersionsLibrary DEF Cv!ToDelete
<1>3. Cardinality(newest) <= MaxVersions
  BY <1>1, NewestFew, VersionsConstants
<1>4. present \ Cv!ToDelete = newest
  <2>1. ASSUME NEW n \in present PROVE Cardinality({m \in present : m > n}) \in Nat
    <3>1. {m \in present : m > n} \in SUBSET Cv!VersionNumbers
      BY <1>1
    <3> QED
      BY <3>1, SomeNumbers
  <2>2. \A a \in Nat : ~(a >= MaxVersions) <=> a < MaxVersions
    BY VersionsConstants
  <2> HIDE DEF present
  <2> QED
    BY <1>2, <2>1, <2>2
<1> QED
  BY <1>1, <1>2, <1>3, <1>4 DEF NewerThan

\* save() returns.
LEMMA SavedKeeps ==
  ASSUME VersionsInv, NEW p \in Callers, Cv!Saved(p)
  PROVE  VersionsInv'
<1> DEFINE cleans == calls[p].cleans /\ Cv!ToDelete # {}
           deletes == [Cv!IdleCall EXCEPT !.stage = "delete", !.left = Cv!ToDelete]
           new == IF cleans THEN deletes ELSE Cv!IdleCall
<1>0. VersionTypes /\ CallsFit /\ Replaced /\ calls[p] \in VersionCalls
  BY DEF VersionsInv, VersionTypes
<1>1. /\ calls[p].stage = "saving" /\ disk' = (IF storage = "file" THEN calls[p].write ELSE disk)
      /\ current' = [number |-> calls[p].number, config |-> calls[p].config]
      /\ calls' = [calls EXCEPT ![p] = new]
      /\ extras' = (IF calls[p].cleans THEN 0 ELSE extras + 1) /\ failed' = "nothing"
      /\ UNCHANGED <<storage, versions, highest, crashes, overlapped>>
  BY DEF Cv!Saved
<1>2. /\ calls[p].config \in Configs /\ calls[p].number \in 1 .. highest
      /\ calls[p].number \in 0 .. MaxNumber
      /\ calls[p].write \in Histories /\ calls[p].cleans \in BOOLEAN
  BY <1>0, <1>1 DEF CallsFit, Fits, VersionCalls
<1>3. /\ Cv!IdleCall \in VersionCalls /\ Cv!IdleCall.stage = "idle" /\ Cv!IdleCall.left = {}
      /\ deletes \in VersionCalls /\ deletes.stage = "delete" /\ deletes.left = Cv!ToDelete
  <2>1. Cv!NoVersions \in Histories
    BY DEF Cv!NoVersions, Histories
  <2>2. Cv!IdleCall \in VersionCalls /\ Cv!IdleCall.left = {} /\ Cv!IdleCall.stage = "idle"
    BY <2>1, VersionsConstants DEF Cv!IdleCall, VersionCalls
  <2> QED
    BY <2>2, WhatToDelete DEF VersionCalls
<1> HIDE DEF deletes
<1>4. new \in VersionCalls
  BY <1>3
<1>5. VersionTypes'
  <2>1. current' \in [number : 0 .. MaxNumber, config : Configs \cup {Nothing}]
    BY <1>1, <1>2
  <2>2. disk' \in Histories /\ extras' \in Nat /\ calls' \in [Callers -> VersionCalls]
    BY <1>0, <1>1, <1>2, <1>4 DEF VersionTypes
  <2> QED
    BY <1>0, <1>1, <2>1, <2>2 DEF VersionTypes
<1>6. CallsFit'
  <2>1. Fits(new, highest')
    BY <1>3 DEF Fits, Deletes
  <2>2. highest' \in Nat /\ highest' >= highest
    BY <1>0, <1>1, VersionsConstants DEF VersionTypes
  <2> HIDE DEF new
  <2> QED
    BY <1>0, <1>1, <1>4, <2>1, <2>2, CallsFitAfter
<1>7. Cv!Present(versions)' = Cv!Present(versions) /\ \A n : NewerThan(n)' = NewerThan(n)
  BY <1>1 DEF NewerThan, Cv!Present
<1>8. Replaced'
  <2>1. \A q \in Callers : \A n \in calls'[q].left : n \in calls[q].left \/ n \in Cv!ToDelete
    BY <1>0, <1>1, <1>3 DEF VersionTypes
  <2>2. \A n \in Cv!ToDelete : Cardinality(NewerThan(n)) >= MaxVersions
    BY WhatToDelete
  <2> HIDE DEF new
  <2> QED
    BY <1>0, <1>1, <1>7, <2>1, <2>2 DEF Replaced
<1>9. ASSUME ~overlapped' PROVE Alone'
  <2>1. Alone /\ Cv!Busy(p) /\ InCall(p)
    BY <1>1, <1>9 DEF VersionsInv, Cv!Busy, Alone
  <2>2. /\ calls[p].number = Cv!LatestOf(versions) /\ versions[calls[p].number] = calls[p].config
        /\ KeptFew(1) /\ (storage = "file" => calls[p].write = versions)
    BY <1>1, <2>1 DEF InCall
  <2>3. Cv!LatestOf(versions)' = Cv!LatestOf(versions) /\ calls[p].number \in Nat
    BY <1>2, <1>7, VersionsConstants DEF Cv!LatestOf, Cv!Max
  <2>4. Agrees' /\ OnDisk'
    BY <1>1, <2>2, <2>3 DEF Agrees, Known, OnDisk
  <2>5. calls'[p] = new
    BY <1>0, <1>1 DEF VersionTypes
  <2>6. /\ Cardinality(Cv!Present(versions)) \in Nat /\ extras \in Nat
        /\ MaxVersions \in Nat
    <3>1. Cv!Present(versions) \in SUBSET Cv!VersionNumbers
      BY DEF Cv!Present
    <3> QED
      BY <1>0, <3>1, SomeNumbers, VersionsConstants DEF VersionTypes
  <2>7. CASE cleans
    <3>1. /\ calls'[p].stage = "delete" /\ calls'[p].left = Cv!ToDelete /\ new.stage = "delete"
      BY <1>3, <2>5, <2>7
    <3>2. Cardinality(Cv!Present(versions)' \ calls'[p].left) <= MaxVersions
      BY <1>7, <3>1, WhatToDelete
    <3>3. InCall(p)'
      BY <1>1, <2>4, <3>1, <3>2 DEF InCall, Deletes
    <3> HIDE DEF new
    <3> QED
      BY <1>0, <1>1, <2>1, <3>1, <3>3, StaysAlone, OthersIdle
  <2>8. CASE ~cleans
    <3>1. new.stage = "idle"
      BY <1>3, <2>8
    <3>2. KeptFew(0)'
      <4>1. CASE calls[p].cleans
        <5>1. Cardinality(Cv!Present(versions) \ {}) <= MaxVersions
          BY <2>8, <4>1, WhatToDelete
        <5>2. Cardinality(Cv!Present(versions)) <= MaxVersions
          BY <5>1
        <5>3. extras' = 0
          BY <1>1, <4>1
        <5>4. Cardinality(Cv!Present(versions)) <= MaxVersions + 0 + 0
          BY <2>6, <5>2
        <5> QED
          BY <1>7, <5>3, <5>4 DEF KeptFew
      <4>2. CASE ~calls[p].cleans
        <5>1. extras' = extras + 1 /\ crashes' = crashes
          BY <1>1, <4>2
        <5>2. MaxVersions + extras + 1 = MaxVersions + extras' + 0
          BY <2>6, <5>1
        <5> QED
          BY <1>7, <2>2, <5>1, <5>2 DEF KeptFew
      <4> QED
        BY <4>1, <4>2
    <3> HIDE DEF new
    <3> QED
      BY <1>0, <1>1, <2>1, <2>4, <3>1, <3>2, StaysAlone, OthersIdle
  <2> QED
    BY <2>7, <2>8
<1> QED
  BY <1>5, <1>6, <1>8, <1>9 DEF VersionsInv

\* The newest of the versions to delete is removed.
LEMMA DeleteKeeps ==
  ASSUME VersionsInv, NEW p \in Callers, Cv!Delete(p)
  PROVE  VersionsInv'
<1> DEFINE d == Cv!Max(calls[p].left)
           new == [calls[p] EXCEPT !.stage = IF storage = "file" THEN "removed" ELSE "deleting"]
<1>0. VersionTypes /\ CallsFit /\ Replaced /\ calls[p] \in VersionCalls
  BY DEF VersionsInv, VersionTypes
<1>1. /\ calls[p].stage = "delete" /\ versions' = [versions EXCEPT ![d] = Nothing]
      /\ calls' = [calls EXCEPT ![p] = new]
      /\ UNCHANGED <<storage, highest, current, disk, crashes, overlapped, extras, failed>>
  BY DEF Cv!Delete
<1>2. calls[p].left # {} /\ calls[p].left \in SUBSET Cv!VersionNumbers
  BY <1>0, <1>1 DEF CallsFit, Fits, Deletes, VersionCalls
<1>3. d \in calls[p].left /\ d \in Cv!VersionNumbers
  BY <1>2, LargestNumber
<1>4. /\ new \in VersionCalls /\ new.left = calls[p].left
      /\ new.stage = (IF storage = "file" THEN "removed" ELSE "deleting")
  BY <1>0 DEF VersionCalls
<1> HIDE DEF new
<1>5. /\ versions' \in Histories /\ versions'[d] = Nothing
      /\ \A n \in Cv!VersionNumbers \ {d} : versions'[n] = versions[n]
  BY <1>0, <1>1, <1>3 DEF VersionTypes, Histories
<1>6. Cv!Present(versions)' = Cv!Present(versions) \ {d}
  BY <1>5 DEF Cv!Present
<1>7. VersionTypes'
  BY <1>0, <1>1, <1>4, <1>5 DEF VersionTypes
<1>8. CallsFit'
  <2>1. Fits(new, highest')
    BY <1>2, <1>4 DEF Fits, Deletes
  <2>2. highest' \in Nat /\ highest' >= highest
    BY <1>0, <1>1, VersionsConstants DEF VersionTypes
  <2> QED
    BY <1>0, <1>1, <1>4, <2>1, <2>2, CallsFitAfter
<1>9. ASSUME NEW n \in Cv!VersionNumbers, Cardinality(NewerThan(n)) >= MaxVersions
      PROVE  Cardinality(NewerThan(n)') >= MaxVersions
  BY <1>0, <1>1, <1>2, <1>9, StillNewer
<1>10. Replaced'
  <2>1. \A n \in Cv!Present(versions)' : n <= highest'
    BY <1>0, <1>1, <1>6 DEF Replaced
  <2>2. \A q \in Callers : calls'[q].left = calls[q].left /\ calls[q].left \in SUBSET Cv!VersionNumbers
    BY <1>0, <1>1, <1>4 DEF VersionTypes, VersionCalls
  <2>3. \A q \in Callers : \A n \in calls'[q].left : Cardinality(NewerThan(n)') >= MaxVersions
    BY <1>0, <1>9, <2>2 DEF Replaced
  <2>4. ASSUME crashes' = 0, NEW n \in 1 .. highest', versions'[n] = Nothing
        PROVE  Cardinality(NewerThan(n)') >= MaxVersions
    <3>1. n \in Cv!VersionNumbers /\ n \in 1 .. highest /\ crashes = 0
      BY <1>0, <1>1, <2>4, VersionsConstants DEF VersionTypes, Cv!VersionNumbers
    <3>2. CASE n = d
      BY <1>0, <1>3, <1>9, <3>2 DEF Replaced
    <3>3. CASE n # d
      <4>1. versions[n] = Nothing
        BY <1>5, <2>4, <3>1, <3>3
      <4> QED
        BY <1>0, <1>9, <3>1, <4>1 DEF Replaced
    <3> QED
      BY <3>2, <3>3
  <2> QED
    BY <2>1, <2>3, <2>4 DEF Replaced
<1>11. ASSUME ~overlapped' PROVE Alone'
  <2>1. Alone /\ Cv!Busy(p) /\ InCall(p)
    BY <1>1, <1>11 DEF VersionsInv, Cv!Busy, Alone
  <2>2. /\ Agrees /\ failed = "nothing" /\ failed' = "nothing"
        /\ Cardinality(Cv!Present(versions) \ calls[p].left) <= MaxVersions
    BY <1>1, <2>1 DEF InCall, Deletes
  <2>3. calls'[p] = new
    BY <1>0, <1>1 DEF VersionTypes
  <2>4. Cv!LatestOf(versions) \in Cv!Present(versions)' /\ Cv!LatestOf(versions) # d
    <3>1. Cardinality(NewerThan(d)) >= MaxVersions /\ MaxVersions > 0 /\ MaxVersions \in Nat
      BY <1>0, <1>3, VersionsConstants DEF Replaced
    <3>2. NewerThan(d) # {}
      BY <3>1, FS_EmptySet
    <3>3. PICK m \in Cv!Present(versions) : m > d
      BY <3>2 DEF NewerThan
    <3>4. m \in Nat /\ d \in Nat /\ Cv!LatestOf(versions) \in Nat
          /\ m <= Cv!LatestOf(versions) /\ Cv!LatestOf(versions) \in Cv!Present(versions)
      BY <1>3, <3>3, SomeNumbers, LatestNumber, VersionsConstants DEF Cv!Present
    <3>5. Cv!LatestOf(versions) # d
      BY <3>3, <3>4
    <3> QED
      BY <1>6, <3>4, <3>5
  <2>5. Cv!LatestOf(versions)' = Cv!LatestOf(versions)
    <3>1. \A m \in Cv!Present(versions') : m <= Cv!LatestOf(versions)
      BY <1>6, LatestNumber
    <3> QED
      BY <2>4, <3>1, LatestNumber
  <2>6. Cv!LatestOf(versions) \in Cv!VersionNumbers
    BY <2>4 DEF Cv!Present
  <2>7. Agrees'
    BY <1>1, <1>5, <2>2, <2>4, <2>5, <2>6 DEF Agrees, Known
  <2>8. Cardinality(Cv!Present(versions)' \ calls'[p].left) <= MaxVersions
    <3>1. Cv!Present(versions)' \ calls'[p].left = Cv!Present(versions) \ calls[p].left
      BY <1>3, <1>4, <1>6, <2>3
    <3> QED
      BY <2>2, <3>1
  <2>9. versions'[Cv!Max(calls'[p].left)] = Nothing
    BY <1>4, <1>5, <2>3 DEF d
  <2>10. InCall(p)'
    BY <1>1, <1>4, <2>2, <2>3, <2>7, <2>8, <2>9 DEF InCall, Deletes
  <2>11. new.stage # "idle"
    BY <1>4
  <2> QED
    BY <1>0, <1>1, <2>1, <2>10, <2>11, StaysAlone, OthersIdle
<1> QED
  BY <1>7, <1>8, <1>10, <1>11 DEF VersionsInv

\* A deletion returns; the next one follows, or the call ends.
LEMMA DeletedKeeps ==
  ASSUME VersionsInv, NEW p \in Callers, Cv!Deleted(p)
  PROVE  VersionsInv'
<1> DEFINE d == Cv!Max(calls[p].left)
           rest == calls[p].left \ {d}
           new == IF rest = {} THEN Cv!IdleCall ELSE [Cv!IdleCall EXCEPT !.stage = "delete", !.left = rest]
<1>0. VersionTypes /\ CallsFit /\ Replaced /\ calls[p] \in VersionCalls
  BY DEF VersionsInv, VersionTypes
<1>1. /\ calls[p].stage = "deleting"
      /\ disk' = (IF storage = "file" THEN calls[p].write ELSE disk)
      /\ calls' = [calls EXCEPT ![p] = new] /\ failed' = "nothing"
      /\ UNCHANGED <<storage, versions, highest, current, crashes, overlapped, extras>>
  BY DEF Cv!Deleted
<1>2. calls[p].left # {} /\ calls[p].left \in SUBSET Cv!VersionNumbers /\ calls[p].write \in Histories
  BY <1>0, <1>1 DEF CallsFit, Fits, Deletes, VersionCalls
<1>3. d \in calls[p].left
  BY <1>2, LargestNumber
<1> HIDE DEF d
<1>4. /\ rest \in SUBSET Cv!VersionNumbers /\ rest \subseteq calls[p].left
      /\ calls[p].left = rest \cup {d}
  BY <1>2, <1>3
<1>5. /\ Cv!IdleCall \in VersionCalls /\ Cv!IdleCall.stage = "idle" /\ Cv!IdleCall.left = {}
  <2>1. Cv!NoVersions \in Histories
    BY DEF Cv!NoVersions, Histories
  <2> QED
    BY <2>1, VersionsConstants DEF Cv!IdleCall, VersionCalls
<1> HIDE DEF rest
<1>6. /\ new \in VersionCalls /\ new.left = rest
      /\ new.stage = (IF rest = {} THEN "idle" ELSE "delete")
  BY <1>4, <1>5 DEF VersionCalls
<1> HIDE DEF new
<1>7. Cv!Present(versions)' = Cv!Present(versions)
  BY <1>1 DEF Cv!Present
<1>8. VersionTypes'
  BY <1>0, <1>1, <1>2, <1>6 DEF VersionTypes
<1>9. CallsFit'
  <2>1. Fits(new, highest')
    BY <1>6 DEF Fits, Deletes
  <2>2. highest' \in Nat /\ highest' >= highest
    BY <1>0, <1>1, VersionsConstants DEF VersionTypes
  <2> QED
    BY <1>0, <1>1, <1>6, <2>1, <2>2, CallsFitAfter
<1>10. Replaced'
  <2>1. \A q \in Callers : calls'[q].left \subseteq calls[q].left
    BY <1>0, <1>1, <1>4, <1>6 DEF VersionTypes
  <2> QED
    BY <1>0, <1>1, <2>1, SameVersions
<1>11. ASSUME ~overlapped' PROVE Alone'
  <2>1. Alone /\ Cv!Busy(p) /\ InCall(p)
    BY <1>1, <1>11 DEF VersionsInv, Cv!Busy, Alone
  <2>2. /\ Agrees /\ Cardinality(Cv!Present(versions) \ calls[p].left) <= MaxVersions
        /\ versions[d] = Nothing /\ failed = "nothing"
        /\ (storage = "file" => calls[p].write = versions)
    BY <1>1, <2>1 DEF InCall, Deletes, d
  <2>3. Cv!LatestOf(versions)' = Cv!LatestOf(versions)
    BY <1>7 DEF Cv!LatestOf, Cv!Max
  <2>4. Agrees' /\ OnDisk'
    BY <1>1, <2>2, <2>3 DEF Agrees, Known, OnDisk
  <2>5. calls'[p] = new
    BY <1>0, <1>1 DEF VersionTypes
  <2>6. Cv!Present(versions) \ rest = Cv!Present(versions) \ calls[p].left
    BY <1>4, <2>2 DEF Cv!Present
  <2>7. CASE rest = {}
    <3>1. /\ Cardinality(Cv!Present(versions)) \in Nat /\ extras \in Nat
          /\ MaxVersions \in Nat
      <4>1. Cv!Present(versions) \in SUBSET Cv!VersionNumbers
        BY DEF Cv!Present
      <4> QED
        BY <1>0, <4>1, SomeNumbers, VersionsConstants DEF VersionTypes
    <3>2. Cardinality(Cv!Present(versions)) <= MaxVersions
      <4>1. Cv!Present(versions) \ rest = Cv!Present(versions)
        BY <2>7
      <4> QED
        BY <2>2, <2>6, <4>1
    <3>3. KeptFew(0)'
      <4>1. Cardinality(Cv!Present(versions)) <= MaxVersions + extras + 0
        BY <3>1, <3>2
      <4> QED
        BY <1>1, <1>7, <4>1 DEF KeptFew
    <3>4. new.stage = "idle"
      BY <1>6, <2>7
    <3> QED
      BY <1>0, <1>1, <2>1, <2>4, <3>3, <3>4, StaysAlone, OthersIdle
  <2>8. CASE rest # {}
    <3>1. new.stage = "delete" /\ calls'[p].stage = "delete" /\ calls'[p].left = rest
      BY <1>6, <2>5, <2>8
    <3>2. Cardinality(Cv!Present(versions)' \ calls'[p].left) <= MaxVersions
      BY <1>7, <2>2, <2>6, <3>1
    <3>3. InCall(p)'
      BY <1>1, <2>4, <3>1, <3>2 DEF InCall, Deletes
    <3> QED
      BY <1>0, <1>1, <2>1, <3>1, <3>3, StaysAlone, OthersIdle
  <2> QED
    BY <2>7, <2>8
<1> QED
  BY <1>8, <1>9, <1>10, <1>11 DEF VersionsInv

\* A write of the file fails, and the call with it.
LEMMA WriteFailsKeeps ==
  ASSUME VersionsInv, NEW p \in Callers, Cv!WriteFails(p)
  PROVE  VersionsInv'
<1> DEFINE d == Cv!Max(calls[p].left)
           undone == calls[p].left \ {d}
<1>0. VersionTypes /\ CallsFit /\ Replaced /\ calls[p] \in VersionCalls
  BY DEF VersionsInv, VersionTypes
<1>1. /\ calls[p].stage \in {"saving", "deleting"} /\ storage = "file"
      /\ disk' \in {disk, Cv!NoVersions} /\ calls' = [calls EXCEPT ![p] = Cv!IdleCall]
      /\ \/ calls[p].stage = "saving" /\ failed' = "save" /\ extras' = extras + 1
         \/ /\ calls[p].stage = "deleting" /\ failed' = "delete"
            /\ extras' = extras + Cardinality(undone)
      /\ UNCHANGED <<storage, versions, highest, current, crashes, overlapped>>
  BY VersionsLibrary DEF Cv!WriteFails
<1>2. Cv!NoVersions \in Histories
  BY DEF Cv!NoVersions, Histories
<1>3. /\ Cv!IdleCall \in VersionCalls /\ Cv!IdleCall.stage = "idle" /\ Cv!IdleCall.left = {}
  BY <1>2, VersionsConstants DEF Cv!IdleCall, VersionCalls
<1>4. calls[p].left \in SUBSET Cv!VersionNumbers /\ undone \in SUBSET Cv!VersionNumbers
  BY <1>0 DEF VersionCalls
<1> HIDE DEF d, undone
<1>5. /\ IsFiniteSet(undone) /\ Cardinality(undone) \in Nat /\ extras \in Nat /\ MaxVersions \in Nat
  BY <1>0, <1>4, SomeNumbers, VersionsConstants DEF VersionTypes
<1>6. Cv!Present(versions)' = Cv!Present(versions) /\ Cv!LatestOf(versions)' = Cv!LatestOf(versions)
  BY <1>1 DEF Cv!Present, Cv!LatestOf, Cv!Max
<1>7. VersionTypes'
  <2>1. extras' \in Nat /\ disk' \in Histories /\ calls' \in [Callers -> VersionCalls]
    BY <1>0, <1>1, <1>2, <1>3, <1>5 DEF VersionTypes
  <2> QED
    BY <1>0, <1>1, <2>1 DEF VersionTypes
<1>8. CallsFit'
  <2>1. Fits(Cv!IdleCall, highest')
    BY <1>3 DEF Fits, Deletes
  <2>2. highest' \in Nat /\ highest' >= highest
    BY <1>0, <1>1, VersionsConstants DEF VersionTypes
  <2> QED
    BY <1>0, <1>1, <1>3, <2>1, <2>2, CallsFitAfter
<1>9. Replaced'
  <2>1. \A q \in Callers : calls'[q].left \subseteq calls[q].left
    BY <1>0, <1>1, <1>3 DEF VersionTypes
  <2> QED
    BY <1>0, <1>1, <2>1, SameVersions
<1>10. ASSUME ~overlapped' PROVE Alone'
  <2>1. Alone /\ Cv!Busy(p) /\ InCall(p)
    BY <1>1, <1>10 DEF VersionsInv, Cv!Busy, Alone
  <2>2. Agrees' /\ OnDisk'
    BY <1>1, <1>6, <2>1 DEF InCall, Deletes, Agrees, Known, OnDisk
  <2>3. KeptFew(0)'
    <3>1. CASE calls[p].stage = "saving"
      <4>1. KeptFew(1) /\ extras' = extras + 1
        BY <1>1, <2>1, <3>1 DEF InCall
      <4>2. MaxVersions + extras + 1 = MaxVersions + extras' + 0
        BY <1>5, <4>1
      <4> QED
        BY <1>1, <1>6, <4>1, <4>2 DEF KeptFew
    <3>2. CASE calls[p].stage = "deleting"
      <4> DEFINE kept == Cv!Present(versions) \ calls[p].left
      <4>1. versions[d] = Nothing /\ Cardinality(kept) <= MaxVersions /\ extras' = extras + Cardinality(undone)
        BY <1>1, <2>1, <3>2 DEF InCall, Deletes, d
      <4>2. Cv!Present(versions) \subseteq kept \cup undone
        BY <4>1 DEF Cv!Present, undone
      <4>3. Cv!Present(versions) \in SUBSET Cv!VersionNumbers
        BY DEF Cv!Present
      <4>4. kept \in SUBSET Cv!VersionNumbers /\ kept \cup undone \in SUBSET Cv!VersionNumbers
        BY <1>4, <4>3
      <4>5. /\ IsFiniteSet(kept) /\ Cardinality(kept) \in Nat
            /\ IsFiniteSet(kept \cup undone) /\ Cardinality(kept \cup undone) \in Nat
            /\ Cardinality(Cv!Present(versions)) \in Nat
        BY <4>3, <4>4, SomeNumbers
      <4>6. Cardinality(Cv!Present(versions)) <= Cardinality(kept \cup undone)
        BY <4>2, <4>5, FS_Subset
      <4>7. Cardinality(kept \cup undone) <= Cardinality(kept) + Cardinality(undone)
        <5>1. /\ Cardinality(kept \cup undone) = Cardinality(kept) + Cardinality(undone) - Cardinality(kept \cap undone)
          BY <1>5, <4>5, FS_Union
        <5>2. Cardinality(kept \cap undone) \in Nat
          BY <4>5, FS_Intersection, FS_CardinalityType
        <5> HIDE DEF kept
        <5> QED
          BY <1>5, <4>5, <5>1, <5>2
      <4>8. Cardinality(Cv!Present(versions)) <= MaxVersions + extras' + 0
        <5> HIDE DEF kept
        <5> QED
          BY <1>5, <4>1, <4>5, <4>6, <4>7
      <4> QED
        BY <1>6, <4>8 DEF KeptFew
    <3> QED
      BY <1>1, <3>1, <3>2
  <2> QED
    BY <1>0, <1>1, <1>3, <2>1, <2>2, <2>3, StaysAlone, OthersIdle
<1> QED
  BY <1>7, <1>8, <1>9, <1>10 DEF VersionsInv

\* The process ends and starts again.
LEMMA CrashKeeps ==
  ASSUME VersionsInv, Cv!Crash
  PROVE  VersionsInv'
<1> DEFINE writes == {calls[p].write : p \in {q \in Callers : calls[q].stage \in {"saving", "deleting"}}}
<1>0. VersionTypes
  BY DEF VersionsInv
<1>1. /\ storage = "file" /\ storage' = storage
      /\ disk' \in {disk} \cup writes \cup (IF writes = {} THEN {} ELSE {Cv!NoVersions})
      /\ versions' = disk' /\ highest' = Cv!LatestOf(disk')
      /\ current' = [number |-> Cv!LatestOf(disk'), config |->
            IF Cv!Present(disk') = {} THEN Nothing ELSE disk'[Cv!LatestOf(disk')]]
      /\ calls' = [p \in Callers |-> Cv!IdleCall]
      /\ crashes' = crashes + 1 /\ crashes \in Nat
      /\ failed' = "nothing" /\ UNCHANGED <<overlapped, extras>>
  BY <1>0 DEF Cv!Crash, VersionTypes
<1>2. /\ Cv!IdleCall \in VersionCalls /\ Cv!IdleCall.stage = "idle" /\ Cv!IdleCall.left = {}
      /\ Cv!NoVersions \in Histories
  <2>1. Cv!NoVersions \in Histories
    BY DEF Cv!NoVersions, Histories
  <2> QED
    BY <2>1, VersionsConstants DEF Cv!IdleCall, VersionCalls
<1>3. disk' \in Histories
  <2>1. writes \subseteq Histories
    <3>1. \A p \in Callers : calls[p].write \in Histories
      BY <1>0 DEF VersionTypes, VersionCalls
    <3> QED
      BY <3>1
  <2> HIDE DEF writes
  <2> QED
    BY <1>0, <1>1, <1>2, <2>1 DEF VersionTypes
<1> HIDE DEF writes
<1>4. /\ Cv!LatestOf(disk') \in 0 .. MaxNumber
      /\ Cv!Present(disk') = {} => Cv!LatestOf(disk') = 0
      /\ Cv!Present(disk') # {} => Cv!LatestOf(disk') \in Cv!Present(disk')
      /\ \A n \in Cv!Present(disk') : n <= Cv!LatestOf(disk')
  BY LatestNumber
<1>5. \A n \in Cv!Present(disk') : n \in Cv!VersionNumbers /\ n # 0
  BY SomeNumbers DEF Cv!Present
<1>6. crashes' # 0 /\ crashes' \in Nat
  BY <1>1
<1>7. VersionTypes'
  <2>1. current' \in [number : 0 .. MaxNumber, config : Configs \cup {Nothing}]
    <3>1. Cv!Present(disk') # {} => disk'[Cv!LatestOf(disk')] \in Configs \cup {Nothing}
      BY <1>3, <1>4, <1>5 DEF Histories
    <3> QED
      BY <1>1, <1>4, <3>1
  <2>2. calls' \in [Callers -> VersionCalls]
    BY <1>1, <1>2
  <2> QED
    BY <1>0, <1>1, <1>3, <1>4, <1>6, <2>1, <2>2 DEF VersionTypes
<1>8. \A p \in Callers : calls'[p].stage = "idle" /\ calls'[p].left = {} /\ ~Deletes(calls'[p])
  BY <1>1, <1>2 DEF Deletes
<1>9. CallsFit'
  BY <1>8 DEF CallsFit, Fits, Deletes
<1>10. Replaced'
  BY <1>1, <1>4, <1>6, <1>8 DEF Replaced
<1>11. Alone'
  <2>1. Agrees'
    BY <1>1, <1>4 DEF Agrees, Known
  <2>2. OnDisk' /\ KeptFew(0)'
    BY <1>1, <1>6 DEF OnDisk, KeptFew
  <2> QED
    BY <1>8, <2>1, <2>2 DEF Alone, InCall, Cv!Busy, Deletes
<1> QED
  BY <1>7, <1>9, <1>10, <1>11 DEF VersionsInv

LEMMA VersionsSame == VersionsInv /\ UNCHANGED Cv!versionVars => VersionsInv'
<1> SUFFICES ASSUME VersionsInv, UNCHANGED Cv!versionVars PROVE VersionsInv'
  OBVIOUS
<1>1. UNCHANGED <<storage, versions, highest, current, calls, disk, crashes, overlapped, extras, failed>>
  BY DEF Cv!versionVars
<1>2. VersionTypes' /\ CallsFit'
  BY <1>1 DEF VersionsInv, VersionTypes, CallsFit, Fits, Deletes
<1>3. Replaced'
  BY <1>1, SameVersions DEF VersionsInv
<1>4. ~overlapped' => Alone'
  <2>1. Cv!Present(versions)' = Cv!Present(versions)
    BY <1>1 DEF Cv!Present
  <2>12. /\ Agrees' = Agrees /\ Known' = Known /\ OnDisk' = OnDisk
        /\ KeptFew(0)' = KeptFew(0) /\ KeptFew(1)' = KeptFew(1)
        /\ Cv!LatestOf(versions)' = Cv!LatestOf(versions)
    BY <1>1, SameStory
  <2>2. ASSUME NEW p \in Callers, InCall(p) PROVE InCall(p)'
    BY <1>1, <2>1, <2>2, <2>12 DEF InCall, Deletes, Cv!Max
  <2>3. \A p \in Callers : Cv!Busy(p)' = Cv!Busy(p)
    BY <1>1 DEF Cv!Busy
  <2> QED
    BY <1>1, <2>2, <2>3, SameStory DEF VersionsInv, Alone
<1> QED
  BY <1>2, <1>3, <1>4 DEF VersionsInv

LEMMA VersionsNext == VersionsInv /\ [Cv!Next]_(Cv!versionVars) => VersionsInv'
<1> SUFFICES ASSUME VersionsInv, Cv!Next PROVE VersionsInv'
  BY VersionsSame
<1>1. ASSUME NEW p \in Callers, NEW chosen \in Configs, Cv!CreateVersion(p, chosen) PROVE VersionsInv'
  BY <1>1, CreateKeeps
<1>2. ASSUME NEW p \in Callers, NEW n \in Cv!VersionNumbers, Cv!Rollback(p, n) PROVE VersionsInv'
  BY <1>2, RollbackKeeps
<1>3. ASSUME NEW p \in Callers, Cv!TargetLoaded(p) PROVE VersionsInv'
  BY <1>3, LoadedKeeps
<1>4. ASSUME NEW p \in Callers, Cv!Save(p) PROVE VersionsInv'
  BY <1>4, SaveKeeps
<1>5. ASSUME NEW p \in Callers, Cv!Persist(p) PROVE VersionsInv'
  BY <1>5, PersistKeeps
<1>6. ASSUME NEW p \in Callers, Cv!Saved(p) PROVE VersionsInv'
  BY <1>6, SavedKeeps
<1>7. ASSUME NEW p \in Callers, Cv!Delete(p) PROVE VersionsInv'
  BY <1>7, DeleteKeeps
<1>8. ASSUME NEW p \in Callers, Cv!Deleted(p) PROVE VersionsInv'
  BY <1>8, DeletedKeeps
<1>9. ASSUME NEW p \in Callers, Cv!WriteFails(p) PROVE VersionsInv'
  BY <1>9, WriteFailsKeeps
<1>10. ASSUME Cv!Crash PROVE VersionsInv'
  BY <1>10, CrashKeeps
<1> QED
  BY <1>1, <1>2, <1>3, <1>4, <1>5, <1>6, <1>7, <1>8, <1>9, <1>10 DEF Cv!Next

LEMMA VersionsHold == VersionsInv => Cv!TypeOK /\ Cv!KeepsTheNewest /\ Cv!SerialHistory
<1> SUFFICES ASSUME VersionsInv PROVE Cv!TypeOK /\ Cv!KeepsTheNewest /\ Cv!SerialHistory
  OBVIOUS
<1>0. VersionTypes /\ Replaced
  BY DEF VersionsInv
<1>1. Cv!TypeOK
  BY <1>0 DEF VersionTypes, VersionCalls, Histories, Cv!TypeOK
<1>2. Cv!KeepsTheNewest
  BY <1>0, VersionsLibrary DEF Replaced, NewerThan, Cv!KeepsTheNewest
<1>3. Cv!SerialHistory
  <2> SUFFICES ASSUME ~overlapped, \A p \in Callers : ~Cv!Busy(p)
               PROVE  /\ current.number # 0 => versions[current.number] = current.config
                      /\ failed # "save" => current.number = Cv!LatestOf(versions)
                      /\ storage = "file" /\ failed = "nothing" => disk = versions
                      /\ crashes = 0 => Cv!Cardinality(Cv!Present(versions)) <= MaxVersions + extras
    BY DEF Cv!SerialHistory
  <2>1. Agrees /\ OnDisk /\ KeptFew(0)
    BY DEF VersionsInv, Alone
  <2>2. MaxVersions + extras + 0 = MaxVersions + extras
    <3>1. MaxVersions \in Nat /\ extras \in Nat
      BY <1>0, VersionsConstants DEF VersionTypes
    <3> QED
      BY <3>1
  <2> QED
    BY <2>1, <2>2, VersionsLibrary DEF Agrees, Known, OnDisk, KeptFew
<1> QED
  BY <1>1, <1>2, <1>3
-----------------------------------------------------------------------------
(* SqlStore: what the client of a transaction() is in, and what its writes *)
(* have become.  While no function ends a transaction itself, a client     *)
(* that is out is lost or belongs to one call, whose writes it has.        *)

Transacting(t) == transaction[t] \in {"begin", "fn", "commit", "rollback"}
SqlSessions == [state : {"none", "open", "aborted"}, writes : SUBSET Calls]

SqlTypes ==
  /\ connected \in BOOLEAN /\ ending \in BOOLEAN
  /\ out \in SUBSET Clients /\ broken \in SUBSET Clients
  /\ session \in [Clients -> SqlSessions]
  /\ transaction \in [Calls -> Sq!Phases] /\ client \in [Calls -> Clients \cup {NoClient}]
  /\ outcome \in [Calls -> {"none", "ok", "error"}]
  /\ wrote \in SUBSET Calls /\ swallowed \in SUBSET Calls /\ lost \in SUBSET Calls
  /\ byHand \in SUBSET Calls /\ committed \subseteq wrote
  /\ \A c \in Clients : session[c].writes \subseteq wrote
  /\ \A t \in Calls : Transacting(t) => client[t] \in Clients

SqlOwned ==
  /\ \A t, u \in Calls : Transacting(t) /\ Transacting(u) /\ client[t] = client[u] => t = u
  /\ \A t \in Calls : Transacting(t) => client[t] \in out /\ session[client[t]].writes \subseteq {t}
  /\ broken \subseteq out
  /\ \A c \in out : c \in broken \/ \E t \in Calls : Transacting(t) /\ client[t] = c
  /\ \A c \in Clients \ out : session[c].writes = {}

SqlTold ==
  /\ \A t \in wrote : transaction[t] \in {"fn", "commit", "rollback", "over"}
  /\ \A t \in Calls : transaction[t] # "over" => outcome[t] = "none"
  /\ \A t \in Calls : transaction[t] = "fn" /\ client[t] \notin broken =>
       session[client[t]].state # "none"
  /\ \A t \in wrote \ swallowed : transaction[t] \in {"fn", "commit"} =>
       t \in session[client[t]].writes
  /\ \A t \in committed : t \in lost \/ outcome[t] = "ok"
  /\ \A t \in wrote \ swallowed : outcome[t] = "ok" => t \in committed

SqlInv == SqlTypes /\ (byHand = {} => SqlOwned /\ SqlTold)

LEMMA SqlInit == Sq!Init => SqlInv
<1> SUFFICES ASSUME Sq!Init PROVE SqlInv
  OBVIOUS
<1> USE DEF Sq!Init
<1>1. SqlTypes
  BY DEF SqlTypes, SqlSessions, Sq!NoSession, Sq!Phases, Transacting
<1>2. SqlOwned
  BY DEF SqlOwned, Sq!NoSession, Transacting
<1>3. SqlTold
  BY DEF SqlTold
<1> QED
  BY <1>1, <1>2, <1>3 DEF SqlInv

LEMMA SqlTypesKept == SqlInv /\ [Sq!Next]_(Sq!storeVars) => SqlTypes'
<1> SUFFICES ASSUME SqlTypes, [Sq!Next]_(Sq!storeVars) PROVE SqlTypes'
  BY DEF SqlInv
<1> USE DEF SqlTypes, Transacting, Sq!poolVars, Sq!serverVars, Sq!callVars
<1>1. CASE Sq!connect \/ Sq!close \/ Sq!Closed \/ UNCHANGED Sq!storeVars
  BY <1>1 DEF Sq!connect, Sq!close, Sq!Closed, Sq!storeVars
<1>2. ASSUME NEW t \in Calls,
             Sq!beginTransaction(t) \/ Sq!PoolConnect(t) \/ Sq!FnEnds(t)
      PROVE  SqlTypes'
  BY <1>2 DEF Sq!beginTransaction, Sq!PoolConnect, Sq!FnEnds, Sq!Go, Sq!End, Sq!Phases
<1>3. ASSUME NEW t \in Calls, NEW mark \in {"none", "open", "aborted"}, NEW writes \in SUBSET wrote',
             Transacting(t), Sq!SetSession(t, mark, writes), wrote \subseteq wrote', wrote' \in SUBSET Calls
      PROVE  session' \in [Clients -> SqlSessions] /\ \A c \in Clients : session'[c].writes \subseteq wrote'
  <2>1. session' = [session EXCEPT ![client[t]] = [state |-> mark, writes |-> writes]]
    BY <1>3 DEF Sq!SetSession
  <2>2. [state |-> mark, writes |-> writes] \in SqlSessions
    BY <1>3 DEF SqlSessions
  <2> QED
    BY <1>3, <2>1, <2>2
<1>4. ASSUME NEW t \in Calls, Transacting(t), Sq!Breaks(t), wrote' = wrote
      PROVE  /\ session' \in [Clients -> SqlSessions] /\ broken' \in SUBSET Clients
             /\ \A c \in Clients : session'[c].writes \subseteq wrote'
  <2>1. session' = [session EXCEPT ![client[t]] = Sq!NoSession] /\ broken' = broken \cup {client[t]}
    BY <1>4 DEF Sq!Breaks
  <2>2. Sq!NoSession \in SqlSessions /\ Sq!NoSession.writes = {}
    BY DEF Sq!NoSession, SqlSessions
  <2> QED
    BY <1>4, <2>1, <2>2
<1>5. ASSUME NEW t \in Calls, Sq!Begin(t) PROVE SqlTypes'
  <2>1. CASE Sq!SetSession(t, "open", {}) /\ broken' = broken
    BY <1>3, <1>5, <2>1 DEF Sq!Begin, Sq!Go, Sq!End, Sq!Phases
  <2>2. CASE Sq!Breaks(t)
    BY <1>4, <1>5, <2>2 DEF Sq!Begin, Sq!Go, Sq!End, Sq!Phases
  <2> QED
    BY <1>5, <2>1, <2>2 DEF Sq!Begin
<1>6. ASSUME NEW t \in Calls, Sq!Write(t) PROVE SqlTypes'
  <2>1. /\ Transacting(t) /\ wrote' = wrote \cup {t} /\ client[t] \in Clients
        /\ Sq!InSession(t) = session[client[t]]
        /\ UNCHANGED <<connected, ending, out, broken, transaction, client, outcome, swallowed, lost, byHand>>
    BY <1>6 DEF Sq!Write, Sq!InSession
  <2>2. CASE Sq!SetSession(t, "open", Sq!InSession(t).writes \cup {t}) /\ committed' = committed
    BY <1>3, <2>1, <2>2
  <2>3. CASE committed' = committed \cup {t} /\ session' = session
    BY <2>1, <2>3
  <2> QED
    BY <1>6, <2>2, <2>3 DEF Sq!Write
<1>7. ASSUME NEW t \in Calls, Sq!QueryFails(t) PROVE SqlTypes'
  <2>1. /\ Transacting(t) /\ wrote' = wrote
        /\ transaction' \in [Calls -> Sq!Phases] /\ swallowed' \in SUBSET Calls
        /\ \A u \in Calls : Transacting(u)' => Transacting(u)
        /\ UNCHANGED <<connected, ending, out, committed, client, outcome, wrote, lost, byHand>>
    BY <1>7 DEF Sq!QueryFails, Sq!Go, Sq!Phases
  <2>2. CASE Sq!Breaks(t)
    BY <1>4, <2>1, <2>2
  <2>3. CASE broken' = broken /\ (Sq!SetSession(t, "aborted", {}) \/ session' = session)
    BY <1>3, <2>1, <2>3
  <2> QED
    BY <1>7, <2>2, <2>3 DEF Sq!QueryFails
<1>8. ASSUME NEW t \in Calls, Sq!ByHand(t) \/ Sq!Commit(t) \/ Sq!CommitFails(t) \/ Sq!Rollback(t)
      PROVE  SqlTypes'
  <2>1. Transacting(t) /\ client[t] \in Clients /\ Sq!InSession(t).writes \subseteq wrote
    BY <1>8 DEF Sq!ByHand, Sq!Commit, Sq!CommitFails, Sq!Rollback, Sq!InSession
  <2>2. /\ transaction' \in [Calls -> Sq!Phases] /\ outcome' \in [Calls -> {"none", "ok", "error"}]
        /\ \A u \in Calls : Transacting(u)' => Transacting(u)
        /\ UNCHANGED <<connected, ending, client, wrote, swallowed>>
    BY <1>8, <2>1 DEF Sq!ByHand, Sq!Commit, Sq!CommitFails, Sq!Rollback, Sq!Go, Sq!End, Sq!Phases
  <2>3. /\ out' \in SUBSET Clients /\ lost' \in SUBSET Calls /\ byHand' \in SUBSET Calls
        /\ committed' \subseteq wrote
    BY <1>8, <2>1 DEF Sq!ByHand, Sq!Commit, Sq!CommitFails, Sq!Rollback
  <2>4. \/ Sq!SetSession(t, "none", {}) /\ broken' = broken
        \/ Sq!Breaks(t)
    BY <1>8 DEF Sq!ByHand, Sq!Commit, Sq!CommitFails, Sq!Rollback
  <2>5. CASE Sq!SetSession(t, "none", {}) /\ broken' = broken
    BY <1>3, <2>1, <2>2, <2>3, <2>5
  <2>6. CASE Sq!Breaks(t)
    BY <1>4, <2>1, <2>2, <2>3, <2>6
  <2> QED
    BY <2>4, <2>5, <2>6
<1> QED
  BY <1>1, <1>2, <1>5, <1>6, <1>7, <1>8 DEF Sq!Next

\* What is left as it was, whichever step is taken while no function ends a transaction.
LEMMA SqlKept == SqlInv /\ [Sq!Next]_(Sq!storeVars) /\ byHand' = {} => SqlOwned' /\ SqlTold'
<1> SUFFICES ASSUME SqlInv, [Sq!Next]_(Sq!storeVars), byHand' = {} PROVE SqlOwned' /\ SqlTold'
  OBVIOUS
<1> USE DEF Sq!poolVars, Sq!serverVars, Sq!callVars
<1>1. ASSUME byHand' = byHand PROVE SqlOwned /\ SqlTold /\ SqlTypes
  BY <1>1 DEF SqlInv
<1>2. CASE Sq!connect \/ Sq!close \/ Sq!Closed \/ UNCHANGED Sq!storeVars
  <2>1. UNCHANGED <<out, broken, session, committed, transaction, client, outcome, wrote, swallowed, lost, byHand>>
    BY <1>2 DEF Sq!connect, Sq!close, Sq!Closed, Sq!storeVars
  <2> QED
    BY <1>1, <2>1 DEF SqlOwned, SqlTold, Transacting
<1>3. ASSUME NEW t \in Calls, Sq!beginTransaction(t) PROVE SqlOwned' /\ SqlTold'
  <2>1. SqlOwned /\ SqlTold /\ SqlTypes
    BY <1>1, <1>3 DEF Sq!beginTransaction
  <2>2. /\ transaction[t] = "none" /\ transaction' \in {[transaction EXCEPT ![t] = "connecting"], [transaction EXCEPT ![t] = "over"]}
        /\ UNCHANGED <<out, broken, session, committed, client, wrote, swallowed, lost>>
        /\ \/ transaction'[t] # "over" /\ outcome' = outcome
           \/ transaction'[t] = "over" /\ outcome' = [outcome EXCEPT ![t] = "error"]
    BY <1>3, <2>1 DEF Sq!beginTransaction, Sq!Go, Sq!End, SqlTypes
  <2>3. \A u \in Calls : Transacting(u)' = Transacting(u)
    BY <2>1, <2>2 DEF Transacting, SqlTypes
  <2>4. SqlOwned'
    BY <2>1, <2>2, <2>3 DEF SqlOwned
  <2>5. SqlTold'
    BY <2>1, <2>2 DEF SqlTold, SqlTypes
  <2> QED
    BY <2>4, <2>5
<1>4. ASSUME NEW t \in Calls, Sq!PoolConnect(t) PROVE SqlOwned' /\ SqlTold'
  <2>1. SqlOwned /\ SqlTold /\ SqlTypes /\ UNCHANGED <<broken, session, committed, wrote, swallowed, lost>>
    BY <1>1, <1>4 DEF Sq!PoolConnect
  <2>2. CASE Sq!End(t, "error") /\ UNCHANGED <<out, client>>
    <3>1. /\ transaction[t] = "connecting" /\ transaction' = [transaction EXCEPT ![t] = "over"]
          /\ outcome' = [outcome EXCEPT ![t] = "error"]
      BY <1>4, <2>2 DEF Sq!PoolConnect, Sq!End, Sq!Go
    <3>2. \A u \in Calls : Transacting(u)' = Transacting(u)
      BY <2>1, <3>1 DEF Transacting, SqlTypes
    <3>3. SqlOwned'
      BY <2>1, <2>2, <3>2 DEF SqlOwned
    <3>4. SqlTold'
      BY <2>1, <2>2, <3>1 DEF SqlTold, SqlTypes
    <3> QED
      BY <3>3, <3>4
  <2>3. ASSUME NEW c \in Clients \ out, out' = out \cup {c}, client' = [client EXCEPT ![t] = c],
               Sq!Go(t, "begin"), outcome' = outcome
        PROVE  SqlOwned' /\ SqlTold'
    <3>1. transaction[t] = "connecting" /\ transaction' = [transaction EXCEPT ![t] = "begin"]
      BY <1>4, <2>3 DEF Sq!PoolConnect, Sq!Go
    <3>2. /\ \A u \in Calls \ {t} : Transacting(u)' = Transacting(u) /\ client'[u] = client[u]
          /\ ~Transacting(t) /\ Transacting(t)' /\ client'[t] = c
          /\ session[c].writes = {} /\ c \notin broken
      BY <2>1, <2>3, <3>1 DEF Transacting, SqlTypes, SqlOwned
    <3>3. SqlOwned'
      BY <2>1, <2>3, <3>2 DEF SqlOwned
    <3>4. SqlTold'
      BY <2>1, <2>3, <3>1, <3>2 DEF SqlTold, SqlTypes
    <3> QED
      BY <3>3, <3>4
  <2> QED
    BY <1>4, <2>2, <2>3 DEF Sq!PoolConnect
<1>5. ASSUME NEW t \in Calls, Sq!Begin(t) PROVE SqlOwned' /\ SqlTold'
  <2>1. SqlOwned /\ SqlTold /\ SqlTypes /\ UNCHANGED <<out, committed, client, wrote, swallowed, lost>>
    BY <1>1, <1>5 DEF Sq!Begin
  <2>2. transaction[t] = "begin" /\ client[t] \in out /\ client[t] \in Clients /\ t \notin wrote
    BY <1>5, <2>1 DEF Sq!Begin, SqlOwned, SqlTold, SqlTypes, Transacting
  <2>3. \A u \in Calls : Transacting(u) /\ u # t => client[u] # client[t]
    BY <2>1, <2>2 DEF SqlOwned, Transacting
  <2>4. CASE Sq!SetSession(t, "open", {}) /\ Sq!Go(t, "fn") /\ UNCHANGED <<outcome, broken>>
    <3>1. /\ session' = [session EXCEPT ![client[t]] = [state |-> "open", writes |-> {}]]
          /\ transaction' = [transaction EXCEPT ![t] = "fn"]
      BY <2>4 DEF Sq!SetSession, Sq!Go
    <3>2. /\ \A u \in Calls : Transacting(u)' = Transacting(u)
          /\ \A c \in Clients : session'[c].writes \subseteq session[c].writes
          /\ session'[client[t]].state = "open"
          /\ \A u \in Calls : Transacting(u) /\ u # t => session'[client[u]] = session[client[u]]
      BY <2>1, <2>2, <2>3, <3>1 DEF Transacting, SqlTypes
    <3>3. SqlOwned'
      BY <2>1, <2>4, <3>2 DEF SqlOwned, SqlTypes
    <3>4. SqlTold'
      BY <2>1, <2>2, <2>4, <3>1, <3>2 DEF SqlTold, SqlTypes, Transacting
    <3> QED
      BY <3>3, <3>4
  <2>5. CASE Sq!Breaks(t) /\ Sq!End(t, "error")
    <3>1. /\ session' = [session EXCEPT ![client[t]] = Sq!NoSession] /\ broken' = broken \cup {client[t]}
          /\ transaction' = [transaction EXCEPT ![t] = "over"] /\ outcome' = [outcome EXCEPT ![t] = "error"]
      BY <2>5 DEF Sq!Breaks, Sq!End, Sq!Go
    <3>2. /\ \A u \in Calls \ {t} : Transacting(u)' = Transacting(u)
          /\ ~Transacting(t)' /\ Transacting(t)
          /\ \A c \in Clients : session'[c].writes \subseteq session[c].writes
          /\ \A u \in Calls : Transacting(u) /\ u # t => session'[client[u]] = session[client[u]]
      BY <2>1, <2>2, <2>3, <3>1 DEF Transacting, SqlTypes, Sq!NoSession
    <3>3. SqlOwned'
      BY <2>1, <2>2, <3>1, <3>2 DEF SqlOwned, SqlTypes
    <3>4. SqlTold'
      BY <2>1, <2>2, <3>1, <3>2 DEF SqlTold, SqlTypes, Transacting
    <3> QED
      BY <3>3, <3>4
  <2> QED
    BY <1>5, <2>4, <2>5 DEF Sq!Begin
<1>6. ASSUME NEW t \in Calls, Sq!Write(t) PROVE SqlOwned' /\ SqlTold'
  <2>1. SqlOwned /\ SqlTold /\ SqlTypes
        /\ UNCHANGED <<out, broken, transaction, client, outcome, swallowed, lost>>
    BY <1>1, <1>6 DEF Sq!Write
  <2>2. /\ transaction[t] = "fn" /\ client[t] \in out /\ client[t] \in Clients /\ client[t] \notin broken
        /\ wrote' = wrote \cup {t} /\ session[client[t]].writes \subseteq {t}
    BY <1>6, <2>1 DEF Sq!Write, Sq!Works, SqlOwned, SqlTypes, Transacting
  <2>3. \A u \in Calls : Transacting(u) /\ u # t => client[u] # client[t]
    BY <2>1, <2>2 DEF SqlOwned, Transacting
  <2>4. session[client[t]].state # "none"
    BY <2>1, <2>2 DEF SqlTold
  <2>5. Sq!SetSession(t, "open", Sq!InSession(t).writes \cup {t}) /\ committed' = committed
    BY <1>6, <2>4 DEF Sq!Write, Sq!InSession
  <2>6. session' = [session EXCEPT ![client[t]] = [state |-> "open", writes |-> session[client[t]].writes \cup {t}]]
    BY <2>5 DEF Sq!SetSession, Sq!InSession
  <2>7. /\ \A u \in Calls : Transacting(u)' = Transacting(u)
        /\ \A c \in Clients \ {client[t]} : session'[c] = session[c]
        /\ session'[client[t]].writes = {t} /\ session'[client[t]].state = "open"
    BY <2>1, <2>2, <2>6 DEF Transacting, SqlTypes
  <2>8. SqlOwned'
    BY <2>1, <2>2, <2>3, <2>7 DEF SqlOwned, SqlTypes
  <2>9. SqlTold'
    BY <2>1, <2>2, <2>3, <2>5, <2>7 DEF SqlTold, SqlTypes, Transacting
  <2> QED
    BY <2>8, <2>9
<1>7. ASSUME NEW t \in Calls, Sq!QueryFails(t) PROVE SqlOwned' /\ SqlTold'
  <2>1. SqlOwned /\ SqlTold /\ SqlTypes /\ UNCHANGED <<out, committed, client, outcome, wrote, lost>>
    BY <1>1, <1>7 DEF Sq!QueryFails
  <2>2. transaction[t] = "fn" /\ client[t] \in out /\ client[t] \in Clients
    BY <1>7, <2>1 DEF Sq!QueryFails, SqlOwned, SqlTypes, Transacting
  <2>3. \A u \in Calls : Transacting(u) /\ u # t => client[u] # client[t]
    BY <2>1, <2>2 DEF SqlOwned, Transacting
  <2>4. \/ transaction' = [transaction EXCEPT ![t] = "rollback"] /\ swallowed' = swallowed
        \/ transaction' = transaction /\ swallowed' = swallowed \cup {t}
    BY <1>7 DEF Sq!QueryFails, Sq!Go
  <2>5. /\ \A c \in Clients : session'[c].writes \subseteq session[c].writes
        /\ \A c \in Clients \ {client[t]} : session'[c] = session[c]
        /\ broken \subseteq broken' /\ broken' \subseteq broken \cup {client[t]}
        /\ client[t] \notin broken' => session'[client[t]].state # "none"
    <3>1. CASE Sq!Breaks(t)
      BY <2>1, <2>2, <3>1 DEF Sq!Breaks, Sq!NoSession, SqlTypes
    <3>2. CASE Sq!Works(t) /\ broken' = broken
               /\ IF Sq!InSession(t).state = "open" THEN Sq!SetSession(t, "aborted", {}) ELSE session' = session
      BY <2>1, <2>2, <3>2 DEF Sq!Works, Sq!InSession, Sq!SetSession, SqlTypes, SqlTold
    <3> QED
      BY <1>7, <3>1, <3>2 DEF Sq!QueryFails
  <2>6. \A u \in Calls : Transacting(u)' = Transacting(u)
    BY <2>1, <2>2, <2>4 DEF Transacting, SqlTypes
  <2>7. SqlOwned'
    BY <2>1, <2>2, <2>3, <2>5, <2>6 DEF SqlOwned, SqlTypes
  <2>8. SqlTold'
    BY <2>1, <2>2, <2>3, <2>4, <2>5 DEF SqlTold, SqlTypes, Transacting
  <2> QED
    BY <2>7, <2>8
<1>8. ASSUME NEW t \in Calls, Sq!FnEnds(t) PROVE SqlOwned' /\ SqlTold'
  <2>1. /\ SqlOwned /\ SqlTold /\ SqlTypes
        /\ UNCHANGED <<out, broken, session, committed, client, outcome, wrote, swallowed, lost>>
        /\ transaction[t] = "fn"
        /\ \/ transaction' = [transaction EXCEPT ![t] = "commit"]
           \/ transaction' = [transaction EXCEPT ![t] = "rollback"]
    BY <1>1, <1>8 DEF Sq!FnEnds, Sq!Go
  <2>2. \A u \in Calls : Transacting(u)' = Transacting(u)
    BY <2>1 DEF Transacting, SqlTypes
  <2>3. SqlOwned'
    BY <2>1, <2>2 DEF SqlOwned
  <2>4. SqlTold'
    BY <2>1 DEF SqlTold, SqlTypes
  <2> QED
    BY <2>3, <2>4
<1>9. ASSUME NEW t \in Calls, Sq!ByHand(t) PROVE FALSE
  BY <1>9 DEF Sq!ByHand
<1>10. ASSUME NEW t \in Calls, Sq!Commit(t) PROVE SqlOwned' /\ SqlTold'
  <2>1. SqlOwned /\ SqlTold /\ SqlTypes /\ UNCHANGED <<broken, client, wrote, swallowed, lost>>
    BY <1>1, <1>10 DEF Sq!Commit
  <2>2. /\ transaction[t] = "commit" /\ client[t] \in out /\ client[t] \in Clients /\ client[t] \notin broken
        /\ session[client[t]].writes \subseteq {t}
    BY <1>10, <2>1 DEF Sq!Commit, Sq!Works, SqlOwned, SqlTypes, Transacting
  <2>3. \A u \in Calls : Transacting(u) /\ u # t => client[u] # client[t]
    BY <2>1, <2>2 DEF SqlOwned, Transacting
  <2>4. /\ transaction' = [transaction EXCEPT ![t] = "over"] /\ outcome' = [outcome EXCEPT ![t] = "ok"]
        /\ out' = out \ {client[t]} /\ committed' = committed \cup session[client[t]].writes
        /\ session' = [session EXCEPT ![client[t]] = [state |-> "none", writes |-> {}]]
    BY <1>10, <2>2 DEF Sq!Commit, Sq!End, Sq!Go, Sq!InSession, Sq!SetSession
  <2>5. /\ \A c \in Clients : session'[c].writes \subseteq session[c].writes
        /\ \A c \in Clients \ {client[t]} : session'[c] = session[c]
        /\ session'[client[t]].writes = {}
        /\ \A u \in Calls \ {t} : Transacting(u)' = Transacting(u)
        /\ ~Transacting(t)' /\ Transacting(t)
    BY <2>1, <2>2, <2>4 DEF Transacting, SqlTypes
  <2>6. SqlOwned'
    BY <2>1, <2>2, <2>3, <2>4, <2>5 DEF SqlOwned, SqlTypes
  <2>7. SqlTold'
    BY <2>1, <2>2, <2>3, <2>4, <2>5 DEF SqlTold, SqlTypes, Transacting
  <2> QED
    BY <2>6, <2>7
<1>11. ASSUME NEW t \in Calls, Sq!CommitFails(t) PROVE SqlOwned' /\ SqlTold'
  <2>1. SqlOwned /\ SqlTold /\ SqlTypes /\ UNCHANGED <<out, client, outcome, wrote, swallowed>>
    BY <1>1, <1>11 DEF Sq!CommitFails
  <2>2. /\ transaction[t] = "commit" /\ client[t] \in out /\ client[t] \in Clients
        /\ session[client[t]].writes \subseteq {t} /\ transaction' = [transaction EXCEPT ![t] = "rollback"]
    BY <1>11, <2>1 DEF Sq!CommitFails, Sq!Go, SqlOwned, SqlTypes, Transacting
  <2>3. \A u \in Calls : Transacting(u) /\ u # t => client[u] # client[t]
    BY <2>1, <2>2 DEF SqlOwned, Transacting
  <2>4. /\ \A c \in Clients : session'[c].writes \subseteq session[c].writes
        /\ \A c \in Clients \ {client[t]} : session'[c] = session[c]
        /\ broken \subseteq broken' /\ broken' \subseteq broken \cup {client[t]}
        /\ lost \subseteq lost' /\ lost' \subseteq lost \cup {t}
        /\ committed' = committed \/ (t \in lost' /\ committed' = committed \cup session[client[t]].writes)
    <3>1. CASE Sq!Works(t) /\ Sq!SetSession(t, "none", {}) /\ UNCHANGED <<broken, committed, lost>>
      BY <2>1, <2>2, <3>1 DEF Sq!SetSession, SqlTypes
    <3>2. CASE Sq!Breaks(t) /\ lost' = (IF Sq!Works(t) THEN lost \cup {t} ELSE lost)
               /\ (committed' = committed \/ (Sq!Works(t) /\ committed' = committed \cup Sq!InSession(t).writes))
      BY <2>1, <2>2, <3>2 DEF Sq!Breaks, Sq!NoSession, Sq!InSession, SqlTypes
    <3> QED
      BY <1>11, <3>1, <3>2 DEF Sq!CommitFails
  <2>5. \A u \in Calls : Transacting(u)' = Transacting(u)
    BY <2>1, <2>2 DEF Transacting, SqlTypes
  <2>6. SqlOwned'
    BY <2>1, <2>2, <2>3, <2>4, <2>5 DEF SqlOwned, SqlTypes
  <2>7. SqlTold'
    BY <2>1, <2>2, <2>3, <2>4 DEF SqlTold, SqlTypes, Transacting
  <2> QED
    BY <2>6, <2>7
<1>12. ASSUME NEW t \in Calls, Sq!Rollback(t) PROVE SqlOwned' /\ SqlTold'
  <2>1. SqlOwned /\ SqlTold /\ SqlTypes /\ UNCHANGED <<committed, client, wrote, swallowed, lost>>
    BY <1>1, <1>12 DEF Sq!Rollback
  <2>2. /\ transaction[t] = "rollback" /\ client[t] \in out /\ client[t] \in Clients
        /\ transaction' = [transaction EXCEPT ![t] = "over"] /\ outcome' = [outcome EXCEPT ![t] = "error"]
    BY <1>12, <2>1 DEF Sq!Rollback, Sq!Go, Sq!End, SqlOwned, SqlTypes, Transacting
  <2>3. \A u \in Calls : Transacting(u) /\ u # t => client[u] # client[t]
    BY <2>1, <2>2 DEF SqlOwned, Transacting
  <2>4. /\ \A c \in Clients \ {client[t]} : session'[c] = session[c]
        /\ session'[client[t]].writes = {}
        /\ \/ client[t] \notin broken /\ broken' = broken /\ out' = out \ {client[t]}
           \/ broken' = broken \cup {client[t]} /\ out' = out
    BY <1>12, <2>1, <2>2 DEF Sq!Rollback, Sq!Works, Sq!Breaks, Sq!SetSession, Sq!NoSession, SqlTypes
  <2>5. /\ \A u \in Calls \ {t} : Transacting(u)' = Transacting(u)
        /\ ~Transacting(t)' /\ Transacting(t)
    BY <2>1, <2>2 DEF Transacting, SqlTypes
  <2>6. SqlOwned'
    BY <2>1, <2>2, <2>3, <2>4, <2>5 DEF SqlOwned, SqlTypes
  <2>7. SqlTold'
    BY <2>1, <2>2, <2>3, <2>4 DEF SqlTold, SqlTypes, Transacting
  <2> QED
    BY <2>6, <2>7
<1> QED
  BY <1>2, <1>3, <1>4, <1>5, <1>6, <1>7, <1>8, <1>9, <1>10, <1>11, <1>12 DEF Sq!Next

LEMMA SqlNext == SqlInv /\ [Sq!Next]_(Sq!storeVars) => SqlInv'
BY SqlTypesKept, SqlKept DEF SqlInv

LEMMA SqlHolds == SqlInv => Sq!TypeOK /\ Sq!ResultsAreTrue /\ Sq!ClientsReturn
<1> SUFFICES ASSUME SqlInv PROVE Sq!TypeOK /\ Sq!ResultsAreTrue /\ Sq!ClientsReturn
  OBVIOUS
<1>0. SqlTypes /\ (byHand = {} => SqlOwned /\ SqlTold)
  BY DEF SqlInv
<1>1. Sq!TypeOK
  BY <1>0 DEF SqlTypes, SqlSessions, Sq!TypeOK
<1>2. ASSUME byHand = {} PROVE Sq!ResultsAreTrue
  BY <1>0, <1>2 DEF Sq!ResultsAreTrue, SqlTold, SqlTypes
<1>3. ASSUME byHand = {} PROVE Sq!ClientsReturn
  <2>1. \A t \in Calls : t \in Sq!Holding <=> Transacting(t)
    BY DEF Sq!Holding, Transacting
  <2>2. out = {client[t] : t \in Sq!Holding} \cup broken
    BY <1>0, <1>3, <2>1 DEF SqlOwned, Sq!Holding
  <2> QED
    BY <1>0, <1>3, <2>1, <2>2 DEF SqlOwned, Sq!ClientsReturn, Sq!InSession, Sq!Holding
<1> QED
  BY <1>1, <1>2, <1>3 DEF Sq!ResultsAreTrue, Sq!ClientsReturn
-----------------------------------------------------------------------------
(* AsyncHelpers: while fn does not call its own debounced function, the    *)
(* timer that is set is the one the closure knows, and ends a pause after  *)
(* the call it waits from.  The workers of mapReduce() take the items in   *)
(* the order of their numbers, so that "taken" is known from the index.    *)

Timed == helper \in {"debounce", "throttle"}
WaitsFrom == IF helper = "debounce" THEN invokedAt ELSE ranAt
Timers == [id : Nat, due : Nat]

TimerTypes ==
  /\ helper \in {"debounce", "throttle", "mapReduce", "parallel", "series"}
  /\ clock \in 0 .. MaxClock /\ invoked \in 0 .. MaxInvoked /\ invokedAt \in 0 .. clock
  /\ lastCall \in {Ah!LongAgo} \cup 0 .. clock /\ ranAt = lastCall
  /\ timers \in SUBSET Timers
  /\ \A t \in timers : t.id \in 1 .. invoked /\ t.due \in 0 .. clock + Pause
  /\ timeoutId \in 0 .. invoked /\ lastArgs \in 0 .. invoked

TimerKnown ==
  /\ ~Timed => timers = {}
  /\ tangled => helper = "debounce"
  /\ Timed /\ ~tangled => \A t \in timers : t.id = timeoutId /\ t.due = WaitsFrom + Pause
  /\ owed /\ ~tangled => timers # {}
  /\ owed /\ helper = "debounce" => lastArgs # 0
  /\ helper = "throttle" /\ timeoutId # 0 => timers # {}

JobTypes ==
  /\ concurrency \in 0 .. Jobs /\ index \in 1 .. Jobs + 1
  /\ mapping \in SUBSET (1 .. index - 1) /\ results \in SUBSET (1 .. Jobs)
  /\ taken = [i \in 1 .. index - 1 |-> i]
  /\ settled \in {"none", "pending", "resolved", "rejected"}

JobsShared ==
  /\ Cardinality(mapping) <= concurrency
  /\ settled = "none" => index = 1 /\ mapping = {} /\ results = {}
  /\ settled = "pending" => mapping \cup results = 1 .. index - 1
  /\ settled = "resolved" => mapping = {} /\ results = 1 .. Jobs

HelperInv == TimerTypes /\ TimerKnown /\ JobTypes /\ JobsShared

LEMMA HelperConstants ==
  Pause \in Nat /\ Pause > 0 /\ Jobs \in Nat /\ Jobs > 0 /\ MaxInvoked \in Nat /\ MaxClock \in Nat
BY HelpersAssumption DEF Ah!OptionsOK

LEMMA HelperLibrary == \A S : Ah!Cardinality(S) = Cardinality(S)
BY DEF Ah!Cardinality, Cardinality

LEMMA HelperInit == Ah!Init => HelperInv
<1> SUFFICES ASSUME Ah!Init PROVE HelperInv
  OBVIOUS
<1> USE HelperConstants DEF Ah!Init, Ah!None, Ah!LongAgo
<1>1. TimerTypes
  BY DEF TimerTypes
<1>2. TimerKnown
  BY DEF TimerKnown, Timed
<1>3. concurrency \in 0 .. Jobs
  <2>1. /\ helper = "mapReduce" => concurrency \in 0 .. Jobs
        /\ helper = "parallel" => concurrency = Jobs
        /\ helper \notin {"mapReduce", "parallel"} => concurrency = 1
    OBVIOUS
  <2>2. helper \in {"mapReduce", "parallel"} \/ helper \notin {"mapReduce", "parallel"}
    OBVIOUS
  <2> QED
    BY <2>1, <2>2
<1>4. JobTypes
  <2>1. taken = [i \in 1 .. index - 1 |-> i]
    OBVIOUS
  <2> QED
    BY <1>3, <2>1 DEF JobTypes
<1>5. JobsShared
  BY <1>3, FS_EmptySet DEF JobsShared
<1> QED
  BY <1>1, <1>2, <1>4, <1>5 DEF HelperInv

\* A timer that is set now ends within a pause.
LEMMA JobsAlone == HelperInv /\ UNCHANGED Ah!jobVars => JobTypes' /\ JobsShared'
BY DEF HelperInv, Ah!jobVars, JobTypes, JobsShared

LEMMA TimersAlone == HelperInv /\ UNCHANGED <<helper, clock, Ah!timerVars>> => TimerTypes' /\ TimerKnown'
BY DEF HelperInv, Ah!timerVars, TimerTypes, TimerKnown, Timed, WaitsFrom

\* While fn does not call its own debounced function, clearTimeout() leaves no timer.
LEMMA NoOthers ==
  ASSUME HelperInv, Timed, ~tangled
  PROVE  /\ Ah!Others = {}
         /\ timeoutId = 0 => timers = {}
         /\ \A t, u \in timers : t = u
<1> USE DEF HelperInv, TimerTypes, TimerKnown
<1>1. Ah!Others = {}
  BY DEF Ah!Others
<1>2. timeoutId = 0 => timers = {}
  OBVIOUS
<1>3. \A t, u \in timers : t = u
  <2>1. \A t, u \in Timers : t.id = u.id /\ t.due = u.due => t = u
    BY DEF Timers
  <2> QED
    BY <2>1
<1> QED
  BY <1>1, <1>2, <1>3

LEMMA DebounceKeeps ==
  ASSUME HelperInv, Ah!Debounced \/ Ah!Flush \/ Ah!Cancel \/ \E t \in timers : Ah!DebounceTimer(t)
  PROVE  HelperInv'
<1> USE HelperConstants
<1>0. TimerTypes /\ TimerKnown
  BY DEF HelperInv
<1>1. CASE Ah!Debounced
  <2> DEFINE new == [id |-> invoked', due |-> clock + Pause]
  <2>1. /\ helper = "debounce" /\ invoked < MaxInvoked /\ invoked' = invoked + 1 /\ invokedAt' = clock
        /\ lastArgs' = invoked' /\ owed' = TRUE /\ timeoutId' = invoked'
        /\ timers' = Ah!Others \cup {new}
        /\ UNCHANGED <<helper, clock, lastCall, runs, ranAt, tangled, Ah!jobVars>>
    BY <1>1 DEF Ah!Debounced, Ah!Invoke, Ah!Timer
  <2>2. /\ new \in Timers /\ new.id = invoked' /\ new.due = clock + Pause /\ invoked' \in Nat /\ clock \in Nat
        /\ invoked' # 0
    BY <1>0, <2>1 DEF TimerTypes, Timers
  <2> HIDE DEF new
  <2>3. Ah!Others \subseteq timers /\ (~tangled => Ah!Others = {})
    BY <2>1, NoOthers DEF Ah!Others, Timed
  <2>4. TimerTypes'
    <3>1. timers' \in SUBSET Timers
      BY <1>0, <2>1, <2>2, <2>3 DEF TimerTypes
    <3>2. \A t \in timers' : t.id \in 1 .. invoked' /\ t.due \in 0 .. clock' + Pause
      BY <1>0, <2>1, <2>2, <2>3 DEF TimerTypes
    <3>3. invokedAt' \in 0 .. clock' /\ invoked' \in 0 .. MaxInvoked
      BY <1>0, <2>1 DEF TimerTypes
    <3>4. lastCall' \in {Ah!LongAgo} \cup 0 .. clock' /\ ranAt' = lastCall'
      BY <1>0, <2>1 DEF TimerTypes
    <3> QED
      BY <1>0, <2>1, <2>2, <3>1, <3>2, <3>3, <3>4 DEF TimerTypes
  <2>5. TimerKnown'
    BY <1>0, <2>1, <2>2, <2>3 DEF TimerKnown, Timed, WaitsFrom
  <2> QED
    BY <2>1, <2>4, <2>5, JobsAlone DEF HelperInv
<1>2. CASE Ah!Flush
  <2>1. /\ helper = "debounce" /\ timers' = Ah!Others /\ owed' = FALSE
        /\ timeoutId' \in {0, timeoutId} /\ lastArgs' \in {0, lastArgs}
        /\ UNCHANGED <<helper, clock, lastCall, invoked, invokedAt, runs, ranAt, tangled, Ah!jobVars>>
    BY <1>2 DEF Ah!Flush, Ah!None
  <2>2. Ah!Others \subseteq timers /\ (~tangled => Ah!Others = {})
    BY <2>1, NoOthers DEF Ah!Others, Timed
  <2>3. TimerTypes'
    BY <1>0, <2>1, <2>2 DEF TimerTypes
  <2>4. TimerKnown'
    BY <1>0, <2>1, <2>2 DEF TimerKnown, Timed
  <2> QED
    BY <2>1, <2>3, <2>4, JobsAlone DEF HelperInv
<1>3. CASE Ah!Cancel
  <2>1. /\ Timed /\ timers' = Ah!Others /\ timeoutId' = 0 /\ lastArgs' = 0 /\ owed' = FALSE
        /\ UNCHANGED <<helper, clock, lastCall, invoked, invokedAt, runs, ranAt, tangled, Ah!jobVars>>
    BY <1>3 DEF Ah!Cancel, Ah!None, Timed
  <2>2. Ah!Others \subseteq timers /\ (~tangled => Ah!Others = {})
    BY <2>1, NoOthers DEF Ah!Others
  <2>3. TimerTypes'
    BY <1>0, <2>1, <2>2 DEF TimerTypes
  <2>4. TimerKnown'
    BY <1>0, <2>1, <2>2 DEF TimerKnown, Timed
  <2> QED
    BY <2>1, <2>3, <2>4, JobsAlone DEF HelperInv
<1>4. ASSUME NEW t \in timers, Ah!DebounceTimer(t) PROVE HelperInv'
  <2>1. /\ helper = "debounce" /\ timers' = timers \ {t} /\ owed' = (IF lastArgs # 0 THEN FALSE ELSE owed)
        /\ timeoutId' \in {0, timeoutId} /\ lastArgs' \in {0, lastArgs}
        /\ UNCHANGED <<helper, clock, lastCall, invoked, invokedAt, runs, ranAt, tangled, Ah!jobVars>>
    BY <1>4 DEF Ah!DebounceTimer, Ah!None
  <2>2. ~tangled => timers' = {}
    BY <2>1, NoOthers DEF Timed
  <2>3. ~owed'
    BY <1>0, <2>1 DEF TimerKnown
  <2>4. TimerTypes'
    BY <1>0, <2>1 DEF TimerTypes
  <2>5. TimerKnown'
    BY <1>0, <2>1, <2>2, <2>3 DEF TimerKnown, Timed
  <2> QED
    BY <2>1, <2>4, <2>5, JobsAlone DEF HelperInv
<1> QED
  BY <1>1, <1>2, <1>3, <1>4

LEMMA AgainKeeps ==
  ASSUME HelperInv, Ah!DebounceAgain
  PROVE  HelperInv'
<1> USE HelperConstants
<1>0. TimerTypes /\ TimerKnown
  BY DEF HelperInv
<1> DEFINE new == [id |-> invoked', due |-> clock + Pause]
<1>1. /\ helper = "debounce" /\ invoked < MaxInvoked /\ invoked' = invoked + 1 /\ invokedAt' = clock
      /\ timers' \subseteq timers \cup {new}
      /\ timeoutId' = 0 /\ lastArgs' = 0 /\ owed' = FALSE /\ tangled' = TRUE
      /\ UNCHANGED <<helper, clock, lastCall, runs, ranAt, Ah!jobVars>>
  BY DEF Ah!DebounceAgain, Ah!Invoke, Ah!Timer, Ah!Others, Ah!None
<1>2. /\ new \in Timers /\ new.id = invoked' /\ new.due = clock + Pause /\ invoked' \in Nat /\ clock \in Nat
  BY <1>0, <1>1 DEF TimerTypes, Timers
<1> HIDE DEF new
<1>3. TimerTypes'
  <2>1. timers' \in SUBSET Timers
    BY <1>0, <1>1, <1>2 DEF TimerTypes
  <2>2. \A t \in timers' : t.id \in 1 .. invoked' /\ t.due \in 0 .. clock' + Pause
    BY <1>0, <1>1, <1>2 DEF TimerTypes
  <2>3. invokedAt' \in 0 .. clock' /\ invoked' \in 0 .. MaxInvoked
    BY <1>0, <1>1 DEF TimerTypes
  <2>4. lastCall' \in {Ah!LongAgo} \cup 0 .. clock' /\ ranAt' = lastCall'
    BY <1>0, <1>1 DEF TimerTypes
  <2> QED
    BY <1>0, <1>1, <1>2, <2>1, <2>2, <2>3, <2>4 DEF TimerTypes
<1>4. TimerKnown'
  BY <1>1 DEF TimerKnown, Timed
<1> QED
  BY <1>1, <1>3, <1>4, JobsAlone DEF HelperInv

LEMMA ThrottleKeeps ==
  ASSUME HelperInv, Ah!Throttled \/ \E t \in timers : Ah!ThrottleTimer(t)
  PROVE  HelperInv'
<1> USE HelperConstants
<1>0. TimerTypes /\ TimerKnown
  BY DEF HelperInv
<1>1. helper = "throttle" /\ ~tangled /\ Timed
  BY <1>0 DEF Ah!Throttled, Ah!ThrottleTimer, TimerKnown, Timed
<1>2. /\ clock \in Nat /\ clock <= MaxClock /\ invoked \in Nat /\ lastCall \in Int /\ lastCall <= clock
      /\ lastCall >= -Pause /\ ranAt = lastCall
  BY <1>0 DEF TimerTypes, Ah!LongAgo
<1>3. CASE Ah!Throttled
  <2> DEFINE remaining == Pause - (clock - lastCall)
             new == [id |-> invoked', due |-> clock + remaining]
  <2>1. /\ invoked < MaxInvoked /\ invoked' = invoked + 1 /\ invokedAt' = clock
        /\ UNCHANGED <<helper, clock, lastArgs, tangled, Ah!jobVars>>
        /\ remaining <= 0 => /\ timers' = Ah!Others /\ timeoutId' = 0 /\ lastCall' = clock
                             /\ ranAt' = clock /\ owed' = FALSE
        /\ ~(remaining <= 0) =>
             /\ owed' = TRUE /\ UNCHANGED <<lastCall, ranAt>>
             /\ timeoutId # 0 => UNCHANGED <<timers, timeoutId>>
             /\ timeoutId = 0 => timers' = timers \cup {new} /\ timeoutId' = invoked'
    BY <1>3 DEF Ah!Throttled, Ah!Invoke, Ah!Timer, Ah!Run, Ah!None
  <2>2. CASE remaining <= 0
    <3>1. timers' = {}
      BY <1>1, <2>1, <2>2, NoOthers
    <3> HIDE DEF remaining
    <3>2. TimerTypes'
      BY <1>0, <1>2, <2>1, <2>2, <3>1 DEF TimerTypes
    <3>3. TimerKnown'
      BY <1>1, <2>1, <2>2, <3>1 DEF TimerKnown, Timed
    <3> QED
      BY <2>1, <3>2, <3>3, JobsAlone DEF HelperInv
  <2>3. CASE ~(remaining <= 0)
    <3>1. clock + remaining = lastCall + Pause /\ clock + remaining \in 0 .. clock + Pause
      BY <1>2, <2>3
    <3>2. /\ invoked' \in Nat /\ invoked' # 0 /\ new \in Timers
          /\ new.id = invoked' /\ new.due = lastCall + Pause /\ new.due \in 0 .. clock + Pause
      BY <1>2, <2>1, <3>1 DEF Timers
    <3> HIDE DEF remaining, new
    <3>3. timeoutId = 0 => timers = {}
      BY <1>1, NoOthers
    <3>4. TimerTypes'
      <4>1. timers' \in SUBSET Timers /\ timeoutId' \in 0 .. invoked'
        BY <1>0, <1>2, <2>1, <2>3, <3>2 DEF TimerTypes
      <4>2. \A t \in timers' : t.id \in 1 .. invoked' /\ t.due \in 0 .. clock' + Pause
        <5>1. \A t \in timers : t.id \in 1 .. invoked' /\ t.due \in 0 .. clock' + Pause
          BY <1>0, <1>2, <2>1 DEF TimerTypes
        <5>2. new.id \in 1 .. invoked' /\ new.due \in 0 .. clock' + Pause
          BY <1>2, <2>1, <3>2
        <5> QED
          BY <2>1, <2>3, <5>1, <5>2
      <4>3. invokedAt' \in 0 .. clock' /\ invoked' \in 0 .. MaxInvoked /\ lastArgs' \in 0 .. invoked'
        BY <1>0, <2>1 DEF TimerTypes
      <4> QED
        BY <1>0, <2>1, <2>3, <4>1, <4>2, <4>3 DEF TimerTypes
    <3>5. TimerKnown'
      <4>1. \A t \in timers' : t.id = timeoutId' /\ t.due = ranAt' + Pause
        BY <1>0, <1>1, <1>2, <2>1, <2>3, <3>2, <3>3 DEF TimerKnown, WaitsFrom
      <4>2. timers' # {}
        BY <1>0, <1>1, <2>1, <2>3 DEF TimerKnown
      <4>3. helper' = helper /\ tangled' = tangled /\ WaitsFrom' = ranAt'
        BY <1>1, <2>1 DEF WaitsFrom
      <4> QED
        BY <1>1, <4>1, <4>2, <4>3 DEF TimerKnown, Timed
    <3> QED
      BY <2>1, <3>4, <3>5, JobsAlone DEF HelperInv
  <2> QED
    BY <2>2, <2>3
<1>4. ASSUME NEW t \in timers, Ah!ThrottleTimer(t) PROVE HelperInv'
  <2>1. /\ timers' = timers \ {t} /\ timeoutId' = 0 /\ lastCall' = clock /\ ranAt' = clock /\ owed' = FALSE
        /\ UNCHANGED <<helper, clock, lastArgs, invoked, invokedAt, tangled, Ah!jobVars>>
    BY <1>4 DEF Ah!ThrottleTimer, Ah!Run, Ah!None
  <2>2. timers' = {}
    BY <1>1, <2>1, NoOthers
  <2>3. TimerTypes'
    BY <1>0, <1>2, <2>1, <2>2 DEF TimerTypes
  <2>4. TimerKnown'
    BY <1>1, <2>1, <2>2 DEF TimerKnown, Timed
  <2> QED
    BY <2>1, <2>3, <2>4, JobsAlone DEF HelperInv
<1> QED
  BY <1>3, <1>4

LEMMA TickKeeps ==
  ASSUME HelperInv, Ah!Tick
  PROVE  HelperInv'
<1> USE HelperConstants
<1>0. TimerTypes /\ TimerKnown
  BY DEF HelperInv
<1>1. /\ clock < MaxClock /\ clock' = clock + 1
      /\ UNCHANGED <<helper, Ah!timerVars, Ah!jobVars>>
  BY DEF Ah!Tick
<1>2. UNCHANGED <<timers, timeoutId, lastArgs, lastCall, invoked, invokedAt, ranAt, owed, tangled>>
  BY <1>1 DEF Ah!timerVars
<1>3. clock \in Nat /\ clock' \in 0 .. MaxClock /\ \A n \in 0 .. clock : n \in 0 .. clock'
  BY <1>0, <1>1 DEF TimerTypes
<1>4. \A n \in 0 .. clock + Pause : n \in 0 .. clock' + Pause
  BY <1>1, <1>3
<1>5. TimerTypes'
  BY <1>0, <1>1, <1>2, <1>3, <1>4 DEF TimerTypes
<1>6. TimerKnown'
  BY <1>0, <1>1, <1>2 DEF TimerKnown, Timed, WaitsFrom
<1> QED
  BY <1>1, <1>5, <1>6, JobsAlone DEF HelperInv

LEMMA StartKeeps ==
  ASSUME HelperInv, Ah!Start
  PROVE  HelperInv'
<1> USE HelperConstants
<1>0. JobTypes /\ JobsShared
  BY DEF HelperInv
<1>1. /\ settled = "none" /\ UNCHANGED <<helper, clock, Ah!timerVars, concurrency, results>>
      /\ concurrency = 0 => settled' = "rejected" /\ UNCHANGED <<index, mapping, taken>>
      /\ concurrency # 0 => /\ settled' = "pending" /\ index' = concurrency + 1
                            /\ mapping' = 1 .. concurrency /\ taken' = [i \in 1 .. concurrency |-> i]
  BY DEF Ah!Start
<1>2. index = 1 /\ mapping = {} /\ results = {} /\ concurrency \in Nat /\ concurrency <= Jobs
  BY <1>0, <1>1 DEF JobsShared, JobTypes
<1>3. CASE concurrency = 0
  BY <1>0, <1>1, <1>3, TimersAlone DEF HelperInv, JobTypes, JobsShared
<1>4. CASE concurrency # 0
  <2>1. index' \in 1 .. Jobs + 1 /\ index' - 1 = concurrency
    BY <1>1, <1>2, <1>4
  <2>2. Cardinality(1 .. concurrency) = concurrency
    BY <1>2, <1>4, FS_Interval
  <2>3. JobTypes'
    BY <1>0, <1>1, <1>4, <2>1 DEF JobTypes
  <2>4. JobsShared'
    BY <1>1, <1>2, <1>4, <2>1, <2>2 DEF JobsShared
  <2> QED
    BY <1>1, <2>3, <2>4, TimersAlone DEF HelperInv
<1> QED
  BY <1>3, <1>4

LEMMA MappedKeeps ==
  ASSUME HelperInv, NEW i \in mapping, Ah!Mapped(i)
  PROVE  HelperInv'
<1> USE HelperConstants
<1>0. JobTypes /\ JobsShared
  BY DEF HelperInv
<1>1. /\ results' = results \cup {i} /\ UNCHANGED <<helper, clock, Ah!timerVars, concurrency>>
      /\ index <= Jobs => /\ mapping' = (mapping \ {i}) \cup {index}
                          /\ taken' = Append(taken, index) /\ index' = index + 1
      /\ ~(index <= Jobs) => mapping' = mapping \ {i} /\ UNCHANGED <<index, taken>>
      /\ settled' = (IF settled = "pending" /\ mapping' = {} THEN "resolved" ELSE settled)
  BY DEF Ah!Mapped, Ah!Settle
<1>2. /\ index \in Nat /\ index >= 1 /\ index <= Jobs + 1 /\ mapping \in SUBSET (1 .. index - 1)
      /\ i \in 1 .. Jobs /\ concurrency \in Nat
  BY <1>0 DEF JobTypes
<1>3. IsFiniteSet(mapping) /\ Cardinality(mapping) \in Nat /\ Cardinality(mapping \ {i}) = Cardinality(mapping) - 1
  <2>1. IsFiniteSet(1 .. index - 1)
    BY <1>2, FS_Interval
  <2>2. IsFiniteSet(mapping) /\ Cardinality(mapping) \in Nat
    BY <1>2, <2>1, FS_Subset, FS_CardinalityType
  <2> QED
    BY <2>2, FS_RemoveElement
<1>4. settled # "none" /\ settled # "resolved"
  BY <1>0 DEF JobsShared
<1>5. CASE index <= Jobs
  <2>1. index' - 1 = index /\ index' \in 1 .. Jobs + 1 /\ index \in 1 .. index
    BY <1>1, <1>2, <1>5
  <2>2. taken' = [j \in 1 .. index |-> j]
    <3>0. taken' = Append(taken, index)
      BY <1>1, <1>5
    <3>1. taken = [j \in 1 .. index - 1 |-> j] /\ index - 1 \in Nat
      BY <1>0, <1>2 DEF JobTypes
    <3>2. taken \in Seq(Nat) /\ Len(taken) = index - 1
      BY <3>1
    <3>3. taken' \in Seq(Nat) /\ Len(taken') = index
      BY <1>2, <3>0, <3>2
    <3>4. \A j \in 1 .. index : taken'[j] = j
      <4>1. \A j \in 1 .. index - 1 : taken'[j] = taken[j] /\ taken[j] = j
        BY <1>2, <3>1, <3>2, <3>0
      <4>2. taken'[index] = index
        BY <1>2, <3>2, <3>0
      <4> QED
        BY <1>2, <4>1, <4>2
    <3> QED
      BY <3>3, <3>4
  <2>3. mapping' \in SUBSET (1 .. index)
    <3>1. \A j \in 1 .. index - 1 : j \in 1 .. index
      BY <1>2
    <3>2. mapping' = (mapping \ {i}) \cup {index} /\ index \in 1 .. index
      BY <1>1, <1>5, <2>1
    <3>3. mapping \in SUBSET (1 .. index - 1)
      BY <1>2
    <3> QED
      BY <3>1, <3>2, <3>3
  <2>4. JobTypes'
    BY <1>0, <1>1, <1>2, <2>1, <2>2, <2>3 DEF JobTypes
  <2>5. mapping' # {} /\ settled' = settled
    BY <1>1, <1>5
  <2>6. Cardinality(mapping') <= concurrency
    <3>1. IsFiniteSet(mapping \ {i})
      BY <1>3, FS_Subset
    <3>2. mapping' = (mapping \ {i}) \cup {index}
      BY <1>1, <1>5
    <3>3. Cardinality(mapping') = Cardinality(mapping \ {i}) \/ Cardinality(mapping') = Cardinality(mapping \ {i}) + 1
      BY <3>1, <3>2, FS_AddElement
    <3>4. Cardinality(mapping) <= concurrency /\ concurrency' = concurrency
      BY <1>0, <1>1 DEF JobsShared
    <3> QED
      BY <1>2, <1>3, <3>3, <3>4
  <2>7. settled = "pending" => mapping' \cup results' = 1 .. index
    <3>1. 1 .. index = (1 .. index - 1) \cup {index}
      BY <1>2
    <3> QED
      BY <1>0, <1>1, <1>5, <3>1 DEF JobsShared
  <2>8. JobsShared'
    BY <1>1, <1>4, <2>1, <2>5, <2>6, <2>7 DEF JobsShared
  <2> QED
    BY <1>1, <2>4, <2>8, TimersAlone DEF HelperInv
<1>6. CASE ~(index <= Jobs)
  <2>1. index = Jobs + 1 /\ index - 1 = Jobs
    BY <1>2, <1>6
  <2>2. JobTypes'
    BY <1>0, <1>1, <1>2, <1>6 DEF JobTypes
  <2>3. Cardinality(mapping') <= concurrency
    <3>1. mapping' = mapping \ {i}
      BY <1>1, <1>6
    <3>2. Cardinality(mapping') = Cardinality(mapping) - 1
      BY <1>3, <3>1
    <3>3. Cardinality(mapping) <= concurrency
      BY <1>0 DEF JobsShared
    <3> QED
      BY <1>2, <1>3, <3>2, <3>3
  <2>4. settled = "pending" => mapping' \cup results' = 1 .. Jobs
    BY <1>0, <1>1, <1>6, <2>1 DEF JobsShared
  <2>5. JobsShared'
    BY <1>1, <1>4, <1>6, <2>1, <2>3, <2>4 DEF JobsShared
  <2> QED
    BY <1>1, <2>2, <2>5, TimersAlone DEF HelperInv
<1> QED
  BY <1>5, <1>6

LEMMA FailedKeeps ==
  ASSUME HelperInv, NEW i \in mapping, Ah!MapFailed(i)
  PROVE  HelperInv'
<1> USE HelperConstants
<1>0. JobTypes /\ JobsShared
  BY DEF HelperInv
<1>1. /\ mapping' = mapping \ {i} /\ settled' = "rejected"
      /\ UNCHANGED <<helper, clock, Ah!timerVars, concurrency, index, results, taken>>
  BY DEF Ah!MapFailed
<1>2. Cardinality(mapping') <= concurrency
  <2>1. IsFiniteSet(1 .. index - 1)
    BY <1>0, FS_Interval DEF JobTypes
  <2>2. IsFiniteSet(mapping) /\ Cardinality(mapping) \in Nat
    BY <1>0, <2>1, FS_Subset, FS_CardinalityType DEF JobTypes
  <2>3. Cardinality(mapping') = Cardinality(mapping) - 1
    BY <1>1, <2>2, FS_RemoveElement
  <2> QED
    BY <1>0, <2>2, <2>3 DEF JobsShared, JobTypes
<1>3. JobTypes' /\ JobsShared'
  BY <1>0, <1>1, <1>2 DEF JobTypes, JobsShared
<1> QED
  BY <1>1, <1>3, TimersAlone DEF HelperInv

LEMMA HelperNext == HelperInv /\ [Ah!Next]_(Ah!helperVars) => HelperInv'
<1> SUFFICES ASSUME HelperInv, [Ah!Next]_(Ah!helperVars) PROVE HelperInv'
  OBVIOUS
<1>1. CASE UNCHANGED Ah!helperVars
  BY <1>1, TimersAlone, JobsAlone DEF Ah!helperVars, HelperInv
<1>2. CASE Ah!Next
  BY <1>2, DebounceKeeps, AgainKeeps, ThrottleKeeps, TickKeeps, StartKeeps, MappedKeeps, FailedKeeps
  DEF Ah!Next
<1> QED
  BY <1>1, <1>2

LEMMA HelpersHold == HelperInv => Ah!TypeOK /\ Ah!NoCallIsLost /\ Ah!ItemsMappedOnce
<1> SUFFICES ASSUME HelperInv PROVE Ah!TypeOK /\ Ah!NoCallIsLost /\ Ah!ItemsMappedOnce
  OBVIOUS
<1> USE HelperConstants
<1>0. TimerTypes /\ TimerKnown /\ JobTypes /\ JobsShared
  BY DEF HelperInv
<1>1. Ah!TypeOK
  <2>1. mapping \in SUBSET (1 .. Jobs)
    BY <1>0 DEF JobTypes
  <2> QED
    BY <1>0, <2>1 DEF TimerTypes, JobTypes, Ah!TypeOK
<1>2. Ah!NoCallIsLost
  <2> SUFFICES ASSUME owed, ~tangled
               PROVE  \E t \in timers : /\ t.id = timeoutId
                                        /\ t.due <= (IF helper = "debounce" THEN invokedAt ELSE ranAt) + Pause
    BY DEF Ah!NoCallIsLost
  <2>1. PICK t \in timers : TRUE
    BY <1>0 DEF TimerKnown
  <2>2. Timed
    BY <1>0, <2>1 DEF TimerKnown
  <2>3. t.id = timeoutId /\ t.due = WaitsFrom + Pause /\ t.due \in Nat
    BY <1>0, <2>1, <2>2 DEF TimerKnown, TimerTypes
  <2>4. t.due <= WaitsFrom + Pause
    BY <2>3
  <2> QED
    BY <2>1, <2>3, <2>4 DEF WaitsFrom
<1>3. Ah!ItemsMappedOnce
  <2>1. \A i, j \in DOMAIN taken : taken[i] = taken[j] => i = j
    BY <1>0 DEF JobTypes
  <2> QED
    BY <1>0, <2>1, HelperLibrary DEF JobsShared, Ah!ItemsMappedOnce
<1> QED
  BY <1>1, <1>2, <1>3

\* What CallsAreApart says of a step.
LEMMA CallsApart ==
  ASSUME HelperInv, [Ah!Next]_(Ah!helperVars)
  PROVE  /\ helper = "debounce" /\ ~tangled =>
             \A t \in timers \ timers' : t.due <= clock /\ lastArgs # 0 => clock - invokedAt >= Pause
         /\ runs' # runs => clock - ranAt >= Pause
<1> USE HelperConstants
<1>0. TimerTypes /\ TimerKnown
  BY DEF HelperInv
<1>1. clock \in Nat /\ invokedAt \in Nat /\ ranAt \in Int /\ ranAt = lastCall
  BY <1>0 DEF TimerTypes, Ah!LongAgo
<1>2. ASSUME helper = "debounce", ~tangled, NEW t \in timers, t.due <= clock PROVE clock - invokedAt >= Pause
  BY <1>0, <1>1, <1>2 DEF TimerKnown, Timed, WaitsFrom
<1>3. CASE Ah!Throttled
  BY <1>1, <1>2, <1>3 DEF Ah!Throttled, Ah!Run
<1>4. ASSUME NEW t \in timers, Ah!ThrottleTimer(t)
      PROVE  clock - ranAt >= Pause
  <2>1. helper = "throttle" /\ t.due <= clock
    BY <1>4 DEF Ah!ThrottleTimer
  <2>2. t.due = ranAt + Pause
    BY <1>0, <1>4, <2>1 DEF TimerKnown, Timed, WaitsFrom
  <2> QED
    BY <1>1, <2>1, <2>2
<1>5. ASSUME runs' # runs PROVE Ah!Throttled \/ \E t \in timers : Ah!ThrottleTimer(t)
  BY <1>5 DEF Ah!Next, Ah!helperVars, Ah!timerVars, Ah!Debounced, Ah!DebounceAgain, Ah!Flush, Ah!Cancel,
    Ah!Tick, Ah!Start, Ah!DebounceTimer, Ah!Mapped, Ah!MapFailed
<1> QED
  BY <1>2, <1>3, <1>4, <1>5
-----------------------------------------------------------------------------
(* EventBus: a call that a loop owes is to a live entry before it, the     *)
(* wrappers that have run are dead in the Set that the map holds, and the  *)
(* listeners that the one loop of a quiet centre has passed have its value.*)

Entries == [handler : Handlers, once : BOOLEAN, live : BOOLEAN]
Frames == [set : Nat, next : Nat, data : Nat, inHandler : BOOLEAN, due : SUBSET Nat]
Streams == [response : Handlers, kept : BOOLEAN, since : Nat]

SetTypes == sets \in Seq(Seq(Entries)) /\ registered \in 0 .. Len(sets)

FrameTypes ==
  /\ frames \in Seq(Frames)
  /\ \A f \in DOMAIN frames : frames[f].set \in 1 .. Len(sets) /\ frames[f].data <= emits

ValueTypes ==
  /\ emits \in 0 .. MaxEmits /\ broadcast \in 0 .. emits
  /\ heard \in [Handlers -> Nat] /\ \A h \in Handlers : heard[h] <= emits

DepthKept == Len(frames) <= MaxDepth

StreamTypes == streams \in Seq(Streams) /\ (role # "source" => streams = <<>>)

WrappersDead == \A s, i \in Nat : <<s, i>> \in ran =>
  s \in 1 .. Len(sets) /\ i \in 1 .. Len(sets[s]) /\ (s = registered => i \notin Eb!Live(s))

Informed == Len(frames) = 1 /\ frames[1].set = registered /\ frames[1].data = emits
            /\ frames[1].next <= Len(sets[registered]) + 1
            /\ \A i \in Eb!Live(registered) : i < frames[1].next => heard[sets[registered][i].handler] = emits
PassedHaveHeard == role = "center" /\ frames # <<>> /\ ~confused => Informed

BusInv ==
  /\ role \in {"bus", "center", "source"} /\ SetTypes /\ FrameTypes /\ ValueTypes /\ DepthKept /\ StreamTypes
  /\ WrappersDead /\ PassedHaveHeard /\ Eb!NobodyIsSkipped /\ Eb!NamesAreLive /\ Eb!EveryoneIsTold

LEMMA BusConstants == MaxSubscriptions \in Nat /\ MaxDepth \in Nat /\ MaxEmits \in Nat
BY BusAssumption DEF Eb!OptionsOK

LEMMA BusInit == Eb!Init => BusInv
<1> SUFFICES ASSUME Eb!Init PROVE BusInv
  OBVIOUS
<1> USE BusConstants DEF Eb!Init, Eb!NoSet, Eb!Never
<1>1. SetTypes /\ FrameTypes /\ DepthKept /\ StreamTypes
  BY DEF SetTypes, FrameTypes, DepthKept, StreamTypes
<1>2. ValueTypes
  BY DEF ValueTypes
<1>3. WrappersDead /\ PassedHaveHeard
  BY DEF WrappersDead, PassedHaveHeard
<1>4. Eb!NobodyIsSkipped /\ Eb!NamesAreLive
  BY DEF Eb!NobodyIsSkipped, Eb!NamesAreLive
<1>5. Eb!EveryoneIsTold
  BY DEF Eb!EveryoneIsTold, Eb!Connected
<1> QED
  BY <1>1, <1>2, <1>3, <1>4, <1>5 DEF BusInv

LEMMA LiveEntries == SetTypes => \A s \in 1 .. Len(sets) : \A i :
  i \in Eb!Live(s) <=> i \in 1 .. Len(sets[s]) /\ sets[s][i].live
BY DEF SetTypes, Eb!Live

LEMMA LiveEntriesNext == SetTypes' => \A s \in 1 .. Len(sets') : \A i :
  i \in Eb!Live(s)' <=> i \in 1 .. Len(sets'[s]) /\ sets'[s][i].live
BY DEF SetTypes, Eb!Live

\* What Add() does: all entries stay as they are, and there is one more, in the Set that
\* the map holds then.
LEMMA Adding ==
  ASSUME SetTypes, NEW h \in Handlers, NEW o \in BOOLEAN, Eb!Add(h, o)
  PROVE  /\ SetTypes' /\ registered' # 0 /\ Len(sets') >= Len(sets)
         /\ registered = 0 => registered' = Len(sets) + 1
         /\ registered # 0 => registered' = registered
         /\ \A s \in 1 .. Len(sets) : /\ Len(sets'[s]) >= Len(sets[s])
                                      /\ \A i \in 1 .. Len(sets[s]) : sets'[s][i] = sets[s][i]
         /\ \E i \in 1 .. Len(sets'[registered']) : sets'[registered'][i].live
<1> DEFINE entry == [handler |-> h, once |-> o, live |-> TRUE]
<1>1. entry \in Entries /\ entry.live
  BY DEF Entries
<1>2. /\ registered = 0 => sets' = Append(sets, <<entry>>) /\ registered' = Len(sets) + 1
      /\ registered # 0 => sets' = [sets EXCEPT ![registered] = Append(@, entry)] /\ registered' = registered
  BY DEF Eb!Add, Eb!NoSet
<1> HIDE DEF entry
<1>3. sets \in Seq(Seq(Entries)) /\ registered \in Nat /\ registered <= Len(sets) /\ Len(sets) \in Nat
  BY DEF SetTypes
<1>4. CASE registered = 0
  <2> DEFINE line == <<entry>>
  <2>1. line \in Seq(Entries) /\ Len(line) = 1 /\ line[1] = entry
    BY <1>1
  <2>0. sets' = Append(sets, line) /\ registered' = Len(sets) + 1
    BY <1>2, <1>4
  <2> HIDE DEF line
  <2>2. /\ sets' \in Seq(Seq(Entries)) /\ Len(sets') = Len(sets) + 1 /\ sets'[Len(sets) + 1] = line
        /\ \A s \in 1 .. Len(sets) : sets'[s] = sets[s]
    <3>1. /\ Append(sets, line) \in Seq(Seq(Entries)) /\ Len(Append(sets, line)) = Len(sets) + 1
          /\ \A s \in 1 .. Len(sets) : Append(sets, line)[s] = sets[s]
          /\ Append(sets, line)[Len(sets) + 1] = line
      BY <1>3, <2>1, AppendProperties
    <3> QED
      BY <2>0, <3>1
  <2>3. SetTypes' /\ registered' \in 1 .. Len(sets')
    BY <1>3, <2>0, <2>2 DEF SetTypes
  <2>4. 1 \in 1 .. Len(sets'[registered']) /\ sets'[registered'][1].live
    <3>1. sets'[registered'] = line
      BY <2>0, <2>2
    <3> QED
      BY <1>1, <2>1, <3>1
  <2>5. \A s \in 1 .. Len(sets) : Len(sets'[s]) >= Len(sets[s])
    <3>1. \A s \in 1 .. Len(sets) : Len(sets[s]) \in Nat
      BY <1>3
    <3> QED
      BY <2>2, <3>1
  <2> QED
    BY <1>3, <1>4, <2>0, <2>2, <2>3, <2>4, <2>5
<1>5. CASE registered # 0
  <2> DEFINE r == registered
  <2>1. r \in 1 .. Len(sets) /\ sets[r] \in Seq(Entries) /\ sets' = [sets EXCEPT ![r] = Append(sets[r], entry)]
    BY <1>2, <1>3, <1>5
  <2>2. /\ Append(sets[r], entry) \in Seq(Entries) /\ Len(Append(sets[r], entry)) = Len(sets[r]) + 1
        /\ Len(sets[r]) \in Nat /\ Append(sets[r], entry)[Len(sets[r]) + 1] = entry
        /\ \A i \in 1 .. Len(sets[r]) : Append(sets[r], entry)[i] = sets[r][i]
    BY <1>1, <2>1
  <2>3. /\ sets' \in Seq(Seq(Entries)) /\ Len(sets') = Len(sets) /\ sets'[r] = Append(sets[r], entry)
        /\ \A s \in 1 .. Len(sets) : s # r => sets'[s] = sets[s]
    BY <1>3, <2>1, <2>2
  <2>4. SetTypes' /\ registered' = r /\ r \in 1 .. Len(sets')
    BY <1>2, <1>3, <1>5, <2>1, <2>3 DEF SetTypes
  <2>5. Len(sets[r]) + 1 \in 1 .. Len(sets'[r]) /\ sets'[r][Len(sets[r]) + 1].live
    BY <1>1, <2>2, <2>3
  <2>6. ASSUME NEW s \in 1 .. Len(sets)
        PROVE  Len(sets'[s]) >= Len(sets[s]) /\ \A i \in 1 .. Len(sets[s]) : sets'[s][i] = sets[s][i]
    <3>1. Len(sets[s]) \in Nat
      BY <1>3
    <3>2. CASE s = r
      <4>1. Len(sets'[r]) = Len(sets[r]) + 1 /\ \A i \in 1 .. Len(sets[r]) : sets'[r][i] = sets[r][i]
        BY <2>2, <2>3
      <4> QED
        BY <2>2, <3>2, <4>1
    <3>3. CASE s # r
      BY <2>3, <3>1, <3>3
    <3> QED
      BY <3>2, <3>3
  <2> QED
    BY <1>3, <1>5, <2>3, <2>4, <2>5, <2>6
<1> QED
  BY <1>4, <1>5

\* What Delete() does: one entry of the Set that the map holds is dead.
LEMMA Deleting ==
  ASSUME SetTypes, registered # 0, NEW e \in 1 .. Len(sets[registered]), Eb!Delete(e)
  PROVE  /\ SetTypes' /\ Len(sets') = Len(sets)
         /\ registered' = (IF role = "bus" /\ Eb!Current = {e} THEN 0 ELSE registered)
         /\ \A s \in 1 .. Len(sets) :
              /\ Len(sets'[s]) = Len(sets[s])
              /\ \A i \in 1 .. Len(sets[s]) : sets'[s][i].handler = sets[s][i].handler
              /\ Eb!Live(s)' = IF s = registered THEN Eb!Live(s) \ {e} ELSE Eb!Live(s)
<1> DEFINE r == registered
           dead == [sets[r][e] EXCEPT !.live = FALSE]
           set == [sets[r] EXCEPT ![e] = dead]
<1>1. sets \in Seq(Seq(Entries)) /\ r \in 1 .. Len(sets) /\ sets[r] \in Seq(Entries) /\ sets[r][e] \in Entries
  BY DEF SetTypes
<1>2. dead \in Entries /\ dead.handler = sets[r][e].handler /\ ~dead.live
  BY <1>1 DEF Entries
<1>3. /\ sets' = [sets EXCEPT ![r] = set]
      /\ registered' = (IF role = "bus" /\ Eb!Current = {e} THEN 0 ELSE registered)
  BY DEF Eb!Delete, Eb!NoSet
<1> HIDE DEF dead
<1>4. /\ set \in Seq(Entries) /\ Len(set) = Len(sets[r]) /\ set[e] = dead
      /\ \A i \in 1 .. Len(sets[r]) : i # e => set[i] = sets[r][i]
  BY <1>1, <1>2
<1> HIDE DEF set
<1>5. /\ sets' \in Seq(Seq(Entries)) /\ Len(sets') = Len(sets) /\ sets'[r] = set
      /\ \A s \in 1 .. Len(sets) : s # r => sets'[s] = sets[s]
  BY <1>1, <1>3, <1>4
<1>6. SetTypes'
  BY <1>1, <1>3, <1>5 DEF SetTypes
<1>7. ASSUME NEW s \in 1 .. Len(sets)
      PROVE  /\ Len(sets'[s]) = Len(sets[s])
             /\ \A i \in 1 .. Len(sets[s]) : sets'[s][i].handler = sets[s][i].handler
             /\ Eb!Live(s)' = IF s = registered THEN Eb!Live(s) \ {e} ELSE Eb!Live(s)
  <2>1. CASE s = r
    <3>1. \A i : i \in Eb!Live(s)' <=> i \in Eb!Live(s) /\ i # e
      BY <1>2, <1>4, <1>5, <1>6, <2>1, LiveEntries, LiveEntriesNext
    <3> QED
      BY <1>2, <1>4, <1>5, <2>1, <3>1
  <2>2. CASE s # r
    BY <1>5, <1>6, <2>2, LiveEntries, LiveEntriesNext
  <2> QED
    BY <2>1, <2>2
<1> QED
  BY <1>3, <1>5, <1>6, <1>7

\* What Forgive() does: only what loops owe.
Forgiven(those, s, i) ==
  /\ those \in Seq(Frames) /\ Len(those) = Len(frames)
  /\ \A f \in 1 .. Len(frames) :
       /\ those[f].set = frames[f].set /\ those[f].next = frames[f].next /\ those[f].data = frames[f].data
       /\ those[f].due = IF frames[f].set = s THEN frames[f].due \ {i} ELSE frames[f].due

LEMMA Forgiving ==
  ASSUME frames \in Seq(Frames), NEW s, NEW i
  PROVE  Forgiven(Eb!Forgive(s, i), s, i)
<1> DEFINE F(f) == IF frames[f].set = s THEN [frames[f] EXCEPT !.due = @ \ {i}] ELSE frames[f]
<1>1. ASSUME NEW f \in 1 .. Len(frames)
      PROVE  /\ F(f) \in Frames /\ F(f).set = frames[f].set /\ F(f).next = frames[f].next
             /\ F(f).data = frames[f].data
             /\ F(f).due = IF frames[f].set = s THEN frames[f].due \ {i} ELSE frames[f].due
  <2>1. frames[f] \in Frames
    OBVIOUS
  <2> QED
    BY <2>1 DEF Frames
<1>2. Eb!Forgive(s, i) = [f \in 1 .. Len(frames) |-> F(f)]
  BY DEF Eb!Forgive
<1> HIDE DEF F
<1>3. /\ Eb!Forgive(s, i) \in Seq(Frames) /\ Len(Eb!Forgive(s, i)) = Len(frames)
      /\ \A f \in 1 .. Len(frames) : Eb!Forgive(s, i)[f] = F(f)
  <2>0. \A f \in 1 .. Len(frames) : F(f) \in Frames
    BY <1>1
  <2>1. Len(frames) \in Nat /\ \A f \in 1 .. Len(frames) : F(f) \in Frames
    BY <2>0, LenProperties
  <2>2. Eb!Forgive(s, i) \in [1 .. Len(frames) -> Frames] /\ DOMAIN Eb!Forgive(s, i) = 1 .. Len(frames)
    BY <1>2, <2>1
  <2>3. Eb!Forgive(s, i) \in Seq(Frames)
    BY <2>1, <2>2, SeqDef
  <2>4. Len(Eb!Forgive(s, i)) = Len(frames)
    <3>1. Len(Eb!Forgive(s, i)) \in Nat /\ 1 .. Len(Eb!Forgive(s, i)) = 1 .. Len(frames)
      BY <2>2, <2>3, LenProperties
    <3>2. \A m, n \in Nat : (\A k \in Nat : k \in 1 .. m <=> k \in 1 .. n) => m = n
      <4> SUFFICES ASSUME NEW m \in Nat, NEW n \in Nat, \A k \in Nat : k \in 1 .. m <=> k \in 1 .. n
                   PROVE  m = n
        OBVIOUS
      <4>1. m = 0 \/ m \in 1 .. n
        OBVIOUS
      <4>2. n = 0 \/ n \in 1 .. m
        OBVIOUS
      <4> QED
        BY <4>1, <4>2
    <3> QED
      BY <2>1, <3>1, <3>2
  <2> QED
    BY <1>2, <2>3, <2>4
<1> QED
  BY <1>1, <1>3 DEF Forgiven

\* What the loops do has nothing to do with the clients of a source.
LEMMA StreamsAlone ==
  BusInv /\ UNCHANGED <<role, emits, broadcast, heard, streams>> => ValueTypes' /\ StreamTypes' /\ Eb!EveryoneIsTold'
BY DEF BusInv, ValueTypes, StreamTypes, Eb!EveryoneIsTold, Eb!Connected

LEMMA AddKeeps ==
  ASSUME BusInv, NEW h \in Handlers, NEW o \in BOOLEAN, Eb!Add(h, o),
         UNCHANGED <<role, frames, emits, heard, ran, confused, streams, broadcast>>
  PROVE  BusInv'
<1>0. SetTypes /\ FrameTypes /\ DepthKept /\ WrappersDead /\ PassedHaveHeard /\ Eb!NobodyIsSkipped
  BY DEF BusInv
<1>1. /\ SetTypes' /\ registered' # 0 /\ Len(sets') >= Len(sets)
      /\ registered = 0 => registered' = Len(sets) + 1
      /\ registered # 0 => registered' = registered
      /\ \A s \in 1 .. Len(sets) : /\ Len(sets'[s]) >= Len(sets[s])
                                   /\ \A i \in 1 .. Len(sets[s]) : sets'[s][i] = sets[s][i]
      /\ \E i \in 1 .. Len(sets'[registered']) : sets'[registered'][i].live
  BY <1>0, Adding
<1>2. /\ Len(sets) \in Nat /\ Len(sets') \in Nat /\ registered \in 0 .. Len(sets)
      /\ \A s \in 1 .. Len(sets) : s \in 1 .. Len(sets') /\ Len(sets[s]) \in Nat /\ Len(sets'[s]) \in Nat
  <2>1. /\ Len(sets) \in Nat /\ registered \in 0 .. Len(sets)
        /\ \A s \in 1 .. Len(sets) : Len(sets[s]) \in Nat
    BY <1>0 DEF SetTypes
  <2>2. Len(sets') \in Nat /\ \A s \in 1 .. Len(sets') : Len(sets'[s]) \in Nat
    BY <1>1 DEF SetTypes
  <2>3. \A s \in 1 .. Len(sets) : s \in 1 .. Len(sets')
    BY <1>1, <2>1, <2>2
  <2> QED
    BY <2>1, <2>2, <2>3
<1>3. \A s \in 1 .. Len(sets) : \A i \in 1 .. Len(sets[s]) :
        i \in 1 .. Len(sets'[s]) /\ (i \in Eb!Live(s)' <=> i \in Eb!Live(s))
  BY <1>0, <1>1, <1>2, LiveEntries, LiveEntriesNext
<1>4. FrameTypes' /\ DepthKept'
  BY <1>0, <1>2 DEF FrameTypes, DepthKept
<1>5. WrappersDead'
  <2> SUFFICES ASSUME NEW s \in Nat, NEW i \in Nat, <<s, i>> \in ran
               PROVE  s \in 1 .. Len(sets') /\ i \in 1 .. Len(sets'[s]) /\ (s = registered' => i \notin Eb!Live(s)')
    BY DEF WrappersDead
  <2>1. s \in 1 .. Len(sets) /\ i \in 1 .. Len(sets[s]) /\ (s = registered => i \notin Eb!Live(s))
    BY <1>0 DEF WrappersDead
  <2>2. s = registered' => s = registered
    BY <1>1, <1>2, <2>1
  <2> QED
    BY <1>2, <1>3, <2>1, <2>2
<1>6. PassedHaveHeard'
  <2> SUFFICES ASSUME role = "center", frames # <<>>, ~confused PROVE Informed'
    BY DEF PassedHaveHeard
  <2>1. Informed
    BY <1>0 DEF PassedHaveHeard
  <2>2. Len(frames) = 1 /\ frames[1].set = registered /\ frames[1].data = emits
    BY <2>1 DEF Informed
  <2>3. registered \in 1 .. Len(sets) /\ registered' = registered /\ frames[1].next \in Nat
    <3>1. 1 \in DOMAIN frames /\ frames[1] \in Frames /\ frames[1].set \in 1 .. Len(sets)
      BY <1>0, <2>2 DEF FrameTypes
    <3>2. frames[1].next \in Nat
      BY <3>1 DEF Frames
    <3> QED
      BY <1>1, <1>2, <2>2, <3>1, <3>2
  <2>4. frames[1].next <= Len(sets'[registered]) + 1
    BY <1>1, <1>2, <2>1, <2>3 DEF Informed
  <2>5. ASSUME NEW i \in Eb!Live(registered)', i < frames[1].next
        PROVE  heard[sets'[registered][i].handler] = emits
    <3>1. i \in 1 .. Len(sets'[registered])
      BY <1>1, <1>2, <2>3, <2>5, LiveEntriesNext
    <3>2. i \in 1 .. Len(sets[registered])
      BY <1>2, <2>1, <2>3, <2>5, <3>1 DEF Informed
    <3>3. i \in Eb!Live(registered) /\ sets'[registered][i] = sets[registered][i]
      BY <1>1, <1>3, <2>3, <2>5, <3>2
    <3> QED
      BY <2>1, <2>5, <3>3 DEF Informed
  <2> QED
    BY <2>2, <2>3, <2>4, <2>5 DEF Informed
<1>7. Eb!NobodyIsSkipped'
  <2> SUFFICES ASSUME NEW f \in DOMAIN frames, NEW i \in frames[f].due
               PROVE  frames[f].next <= i /\ i \in Eb!Live(frames[f].set)'
    BY DEF Eb!NobodyIsSkipped
  <2>1. frames[f].next <= i /\ i \in Eb!Live(frames[f].set) /\ frames[f].set \in 1 .. Len(sets)
    BY <1>0 DEF Eb!NobodyIsSkipped, FrameTypes
  <2>2. i \in 1 .. Len(sets[frames[f].set])
    BY <1>0, <2>1, LiveEntries
  <2> QED
    BY <1>3, <2>1, <2>2
<1>8. Eb!NamesAreLive'
  <2>1. registered' \in 1 .. Len(sets')
    BY <1>1, <1>2 DEF SetTypes
  <2>2. PICK i \in 1 .. Len(sets'[registered']) : sets'[registered'][i].live
    BY <1>1
  <2>3. i \in Eb!Current'
    BY <1>1, <2>1, <2>2 DEF SetTypes, Eb!Current, Eb!Live, Eb!NoSet
  <2> QED
    BY <2>3 DEF Eb!NamesAreLive
<1>9. ValueTypes' /\ StreamTypes' /\ Eb!EveryoneIsTold' /\ role' \in {"bus", "center", "source"}
  BY StreamsAlone DEF BusInv
<1> QED
  BY <1>1, <1>4, <1>5, <1>6, <1>7, <1>8, <1>9 DEF BusInv

\* A bus that deletes an entry drops the Set, or has another one in it.
LEMMA DeleteNames ==
  ASSUME SetTypes, NEW r, r = registered, r # 0, NEW e \in Eb!Live(r), Eb!Delete(e), role' = role
  PROVE  Eb!NamesAreLive'
<1>1. r \in 1 .. Len(sets) /\ e \in 1 .. Len(sets[registered])
  BY LiveEntries DEF SetTypes
<1>2. /\ registered' = (IF role = "bus" /\ Eb!Current = {e} THEN 0 ELSE registered)
      /\ \A s \in 1 .. Len(sets) : Eb!Live(s)' = IF s = registered THEN Eb!Live(s) \ {e} ELSE Eb!Live(s)
  BY <1>1, Deleting
<1>3. Eb!Current = Eb!Live(r)
  BY DEF Eb!Current, Eb!NoSet
<1> SUFFICES ASSUME role = "bus", registered' # 0 PROVE Eb!Current' # {}
  BY DEF Eb!NamesAreLive, Eb!NoSet
<1>4. registered' = r /\ Eb!Live(r) # {e}
  BY <1>2, <1>3
<1>5. Eb!Current' = Eb!Live(r)'
  BY <1>4 DEF Eb!Current, Eb!NoSet, Eb!Live
<1>6. Eb!Live(r)' = Eb!Live(r) \ {e}
  BY <1>1, <1>2
<1> QED
  BY <1>4, <1>5, <1>6

LEMMA DeadKeeps ==
  ASSUME SetTypes, WrappersDead, NEW r, r = registered, r # 0, NEW e \in Eb!Live(r), Eb!Delete(e),
         role' = role, ran' \subseteq ran \cup {<<r, e>>}
  PROVE  SetTypes' /\ Eb!NamesAreLive' /\ WrappersDead'
<1>1. r \in 1 .. Len(sets) /\ e \in 1 .. Len(sets[registered])
  BY LiveEntries DEF SetTypes
<1>2. /\ SetTypes' /\ Len(sets') = Len(sets) /\ registered' \in {0, r}
      /\ \A s \in 1 .. Len(sets) :
           /\ Len(sets'[s]) = Len(sets[s])
           /\ Eb!Live(s)' = IF s = registered THEN Eb!Live(s) \ {e} ELSE Eb!Live(s)
  BY <1>1, Deleting
<1>3. WrappersDead'
  <2> SUFFICES ASSUME NEW s \in Nat, NEW i \in Nat, <<s, i>> \in ran'
               PROVE  s \in 1 .. Len(sets') /\ i \in 1 .. Len(sets'[s]) /\ (s = registered' => i \notin Eb!Live(s)')
    BY DEF WrappersDead
  <2>1. CASE <<s, i>> \in ran
    <3>1. s \in 1 .. Len(sets) /\ i \in 1 .. Len(sets[s]) /\ (s = registered => i \notin Eb!Live(s))
      BY <2>1 DEF WrappersDead
    <3>2. s = registered' => s = registered
      BY <1>2, <3>1
    <3> QED
      BY <1>2, <3>1, <3>2
  <2>2. CASE s = r /\ i = e
    BY <1>1, <1>2, <2>2
  <2> QED
    BY <2>1, <2>2
<1> QED
  BY <1>2, <1>3, DeleteNames

LEMMA OffKeeps ==
  ASSUME BusInv, NEW h \in Handlers, Eb!off(h)
  PROVE  BusInv'
<1>0. SetTypes /\ FrameTypes /\ DepthKept /\ WrappersDead /\ PassedHaveHeard /\ Eb!NobodyIsSkipped
  BY DEF BusInv
<1>1. PICK e \in Eb!EntryOf(h) : Eb!Delete(e) /\ frames' = Eb!Forgive(registered, e)
  BY DEF Eb!off
<1>2. UNCHANGED <<role, emits, heard, ran, confused, streams, broadcast>>
  BY DEF Eb!off, Eb!sourceVars
<1>3. PICK r : r = registered
  OBVIOUS
<1>4. r # 0 /\ e \in Eb!Live(r) /\ r \in 1 .. Len(sets) /\ e \in 1 .. Len(sets[registered])
  <2>1. r # 0 /\ e \in Eb!Live(r)
    BY <1>1, <1>3 DEF Eb!EntryOf, Eb!Current, Eb!NoSet
  <2> QED
    BY <1>0, <1>3, <2>1, LiveEntries DEF SetTypes
<1>5. SetTypes' /\ Eb!NamesAreLive' /\ WrappersDead'
  BY <1>0, <1>1, <1>2, <1>3, <1>4, DeadKeeps
<1>6. /\ Len(sets') = Len(sets)
      /\ registered' = (IF role = "bus" /\ Eb!Current = {e} THEN 0 ELSE registered)
      /\ \A s \in 1 .. Len(sets) :
           /\ Len(sets'[s]) = Len(sets[s])
           /\ \A i \in 1 .. Len(sets[s]) : sets'[s][i].handler = sets[s][i].handler
           /\ Eb!Live(s)' = IF s = registered THEN Eb!Live(s) \ {e} ELSE Eb!Live(s)
  BY <1>0, <1>1, <1>3, <1>4, Deleting
<1>7. /\ frames' \in Seq(Frames) /\ Len(frames') = Len(frames) /\ Len(frames) \in Nat
      /\ \A f \in 1 .. Len(frames) :
           /\ frames'[f].set = frames[f].set /\ frames'[f].next = frames[f].next
           /\ frames'[f].data = frames[f].data
           /\ frames'[f].due = IF frames[f].set = r THEN frames[f].due \ {e} ELSE frames[f].due
  <2>1. frames \in Seq(Frames) /\ Len(frames) \in Nat
    BY <1>0 DEF FrameTypes
  <2>2. frames' = Eb!Forgive(r, e)
    BY <1>1, <1>3
  <2>3. Forgiven(Eb!Forgive(r, e), r, e)
    BY <2>1, Forgiving
  <2> QED
    BY <2>1, <2>2, <2>3 DEF Forgiven
<1>8. FrameTypes' /\ DepthKept'
  <2>1. \A f \in 1 .. Len(frames) : frames[f].set \in 1 .. Len(sets) /\ frames[f].data <= emits
    BY <1>0 DEF FrameTypes
  <2>2. DOMAIN frames' = 1 .. Len(frames)
    BY <1>7
  <2>3. \A f \in DOMAIN frames' : frames'[f].set \in 1 .. Len(sets') /\ frames'[f].data <= emits'
    BY <1>2, <1>6, <1>7, <2>1, <2>2
  <2> QED
    BY <1>0, <1>7, <2>3 DEF FrameTypes, DepthKept
<1>9. PassedHaveHeard'
  <2> SUFFICES ASSUME role = "center", frames' # <<>>, ~confused PROVE Informed'
    BY <1>2 DEF PassedHaveHeard
  <2>1. Informed
    <3>1. frames # <<>>
      BY <1>7
    <3> QED
      BY <1>0, <3>1 DEF PassedHaveHeard
  <2>2. Len(frames) = 1 /\ frames[1].set = r /\ frames[1].data = emits /\ frames[1].next <= Len(sets[r]) + 1
    BY <1>3, <2>1 DEF Informed
  <2>3. registered' = r
    BY <1>3, <1>6
  <2>4. Len(frames') = 1 /\ frames'[1].set = r /\ frames'[1].data = emits' /\ frames'[1].next <= Len(sets'[r]) + 1
        /\ frames'[1].next = frames[1].next
    BY <1>2, <1>4, <1>6, <1>7, <2>2
  <2>5. ASSUME NEW i \in Eb!Live(r)', i < frames[1].next PROVE heard[sets'[r][i].handler] = emits
    <3>1. i \in Eb!Live(r)
      BY <1>4, <1>6, <2>5
    <3>2. sets'[r][i].handler = sets[r][i].handler
      BY <1>0, <1>4, <1>6, <3>1, LiveEntries
    <3>3. heard[sets[r][i].handler] = emits
      BY <1>3, <2>1, <2>5, <3>1 DEF Informed
    <3> QED
      BY <3>2, <3>3
  <2>6. \A i \in Eb!Live(registered)' : i \in Eb!Live(r)'
    BY <2>3 DEF Eb!Live
  <2> QED
    BY <1>2, <2>3, <2>4, <2>5, <2>6 DEF Informed
<1>10. Eb!NobodyIsSkipped'
  <2> SUFFICES ASSUME NEW f \in DOMAIN frames', NEW i \in frames'[f].due
               PROVE  frames'[f].next <= i /\ \A s : s = frames'[f].set => i \in Eb!Live(s)'
    BY DEF Eb!NobodyIsSkipped, Eb!Live
  <2>1. f \in DOMAIN frames /\ f \in 1 .. Len(frames)
    BY <1>7
  <2>2. i \in frames[f].due /\ (frames[f].set = r => i # e)
    BY <1>7, <2>1
  <2>3. frames[f].next <= i /\ i \in Eb!Live(frames[f].set) /\ frames[f].set \in 1 .. Len(sets)
    BY <1>0, <2>1, <2>2 DEF Eb!NobodyIsSkipped, FrameTypes
  <2> QED
    BY <1>3, <1>6, <1>7, <2>1, <2>2, <2>3
<1>11. ValueTypes' /\ StreamTypes' /\ Eb!EveryoneIsTold' /\ role' \in {"bus", "center", "source"}
  BY <1>2, StreamsAlone DEF BusInv
<1> QED
  BY <1>5, <1>8, <1>9, <1>10, <1>11 DEF BusInv

LEMMA ClearKeeps ==
  ASSUME BusInv, Eb!clear
  PROVE  BusInv'
<1>1. role = "bus" /\ registered' = 0 /\ UNCHANGED <<role, sets, frames, emits, heard, ran, confused, streams, broadcast>>
  BY DEF Eb!clear, Eb!sourceVars, Eb!NoSet
<1>2. SetTypes' /\ FrameTypes' /\ DepthKept'
  BY <1>1 DEF BusInv, SetTypes, FrameTypes, DepthKept
<1>3. WrappersDead'
  BY <1>1 DEF BusInv, WrappersDead
<1>4. PassedHaveHeard' /\ Eb!NamesAreLive'
  BY <1>1 DEF PassedHaveHeard, Eb!NamesAreLive, Eb!NoSet
<1>5. Eb!NobodyIsSkipped'
  BY <1>1 DEF BusInv, Eb!NobodyIsSkipped, Eb!Live
<1> QED
  BY <1>1, <1>2, <1>3, <1>4, <1>5, StreamsAlone DEF BusInv

LEMMA EmitKeeps ==
  ASSUME BusInv, Eb!emit
  PROVE  BusInv'
<1> USE BusConstants
<1>0. SetTypes /\ FrameTypes /\ ValueTypes /\ StreamTypes /\ WrappersDead /\ PassedHaveHeard /\ Eb!NobodyIsSkipped
      /\ Eb!NamesAreLive /\ Eb!EveryoneIsTold
  BY DEF BusInv
<1> DEFINE new == [set |-> registered, next |-> 1, data |-> emits', inHandler |-> FALSE, due |-> Eb!Current]
<1>1. /\ role # "source" /\ registered # 0 /\ emits < MaxEmits /\ Len(frames) < MaxDepth /\ emits' = emits + 1
      /\ frames' = Append(frames, new) /\ (frames # <<>> => confused')
      /\ UNCHANGED <<role, sets, registered, heard, ran, streams, broadcast>>
  BY DEF Eb!emit, Eb!UserCode, Eb!NoSet, Eb!sourceVars
<1>2. /\ registered \in 1 .. Len(sets) /\ emits \in Nat /\ emits' \in 0 .. MaxEmits
      /\ frames \in Seq(Frames) /\ Len(frames) \in Nat /\ Eb!Current = Eb!Live(registered)
  BY <1>0, <1>1 DEF SetTypes, FrameTypes, ValueTypes, Eb!Current, Eb!NoSet
<1>3. \A i \in Eb!Current : i \in Nat /\ 1 <= i
  BY <1>0, <1>2, LiveEntries
<1>4. /\ new \in Frames /\ new.set = registered /\ new.next = 1 /\ new.data = emits' /\ new.due = Eb!Current
  BY <1>1, <1>2, <1>3 DEF Frames
<1> HIDE DEF new
<1>5. /\ frames' \in Seq(Frames) /\ Len(frames') = Len(frames) + 1 /\ frames'[Len(frames) + 1] = new
      /\ \A f \in 1 .. Len(frames) : frames'[f] = frames[f]
  BY <1>1, <1>2, <1>4, AppendProperties
<1>6. DOMAIN frames' = 1 .. Len(frames) \cup {Len(frames) + 1}
  BY <1>2, <1>5
<1>7. SetTypes' /\ WrappersDead' /\ Eb!NamesAreLive'
  BY <1>0, <1>1 DEF SetTypes, WrappersDead, Eb!NamesAreLive, Eb!Current, Eb!Live
<1>8. FrameTypes' /\ DepthKept'
  <2>1. \A f \in 1 .. Len(frames) : frames[f].set \in 1 .. Len(sets) /\ frames[f].data \in Nat /\ frames[f].data <= emits
    <3>1. \A f \in 1 .. Len(frames) : frames[f].set \in 1 .. Len(sets) /\ frames[f].data <= emits
      BY <1>0 DEF FrameTypes
    <3>2. \A f \in 1 .. Len(frames) : frames[f] \in Frames
      BY <1>2
    <3> QED
      BY <3>1, <3>2 DEF Frames
  <2>2. \A f \in DOMAIN frames' : frames'[f].set \in 1 .. Len(sets) /\ frames'[f].data <= emits'
    <3>1. ASSUME NEW f \in 1 .. Len(frames) PROVE frames'[f].set \in 1 .. Len(sets) /\ frames'[f].data <= emits'
      <4>1. frames[f].data \in Nat /\ frames[f].data <= emits /\ frames'[f] = frames[f] /\ frames[f].set \in 1 .. Len(sets)
        BY <1>5, <2>1, <3>1
      <4> QED
        BY <1>1, <1>2, <4>1
    <3>2. new.set \in 1 .. Len(sets) /\ new.data <= emits'
      BY <1>1, <1>2, <1>4
    <3> QED
      BY <1>5, <1>6, <3>1, <3>2
  <2>3. Len(frames') <= MaxDepth
    BY <1>1, <1>2, <1>5
  <2> QED
    BY <1>1, <1>5, <2>2, <2>3 DEF FrameTypes, DepthKept
<1>9. PassedHaveHeard'
  <2> SUFFICES ASSUME ~confused' PROVE Informed'
    BY DEF PassedHaveHeard
  <2>1. frames = <<>> /\ Len(frames) = 0
    BY <1>1
  <2>2. Len(frames') = 1 /\ frames'[1] = new
    BY <1>5, <2>1
  <2>3. 1 <= Len(sets[registered]) + 1 /\ \A i \in Eb!Live(registered) : ~(i < 1)
    <3>1. Len(sets[registered]) \in Nat
      BY <1>0, <1>2 DEF SetTypes
    <3> QED
      BY <1>2, <1>3, <3>1
  <2>4. Eb!Live(registered)' = Eb!Live(registered)
    BY <1>1 DEF Eb!Live
  <2> QED
    BY <1>1, <1>4, <2>2, <2>3, <2>4 DEF Informed
<1>10. Eb!NobodyIsSkipped'
  <2> SUFFICES ASSUME NEW f \in DOMAIN frames', NEW i \in frames'[f].due
               PROVE  frames'[f].next <= i /\ i \in Eb!Live(frames'[f].set)
    BY <1>1 DEF Eb!NobodyIsSkipped, Eb!Live
  <2>1. CASE f \in 1 .. Len(frames)
    BY <1>0, <1>2, <1>5, <2>1 DEF Eb!NobodyIsSkipped
  <2>2. CASE f = Len(frames) + 1
    BY <1>2, <1>3, <1>4, <1>5, <2>2
  <2> QED
    BY <1>6, <2>1, <2>2
<1>11. ValueTypes'
  <2>1. \A m, n \in Nat : m <= n => m <= n + 1
    OBVIOUS
  <2>2. broadcast' \in 0 .. emits' /\ \A h \in Handlers : heard'[h] <= emits'
    BY <1>0, <1>1, <1>2, <2>1 DEF ValueTypes
  <2> QED
    BY <1>0, <1>1, <1>2, <2>2 DEF ValueTypes
<1>12. StreamTypes' /\ Eb!EveryoneIsTold'
  BY <1>0, <1>1 DEF StreamTypes, Eb!EveryoneIsTold, Eb!Connected
<1> QED
  BY <1>1, <1>7, <1>8, <1>9, <1>10, <1>11, <1>12 DEF BusInv

LEMMA ReturnKeeps ==
  ASSUME BusInv, Eb!return
  PROVE  BusInv'
<1>0. SetTypes /\ FrameTypes /\ DepthKept /\ WrappersDead /\ PassedHaveHeard /\ Eb!NobodyIsSkipped /\ Eb!NamesAreLive
  BY DEF BusInv
<1> DEFINE n == Len(frames)
           new == [frames[n] EXCEPT !.inHandler = FALSE]
<1>1. /\ frames # <<>> /\ frames' = [frames EXCEPT ![n] = new]
      /\ UNCHANGED <<role, sets, registered, emits, heard, ran, confused, streams, broadcast>>
  BY DEF Eb!return, Eb!ChangeTop, Eb!Top, Eb!sourceVars
<1>2. frames \in Seq(Frames) /\ n \in 1 .. n /\ n \in Nat /\ frames[n] \in Frames
  BY <1>0, <1>1 DEF FrameTypes
<1>3. /\ new \in Frames /\ new.set = frames[n].set /\ new.next = frames[n].next /\ new.data = frames[n].data
      /\ new.due = frames[n].due
  BY <1>2 DEF Frames
<1> HIDE DEF new
<1>4. frames' \in Seq(Frames) /\ Len(frames') = n /\ frames'[n] = new /\ \A f \in 1 .. n : f # n => frames'[f] = frames[f]
  BY <1>1, <1>2, <1>3
<1>5. \A f \in 1 .. n : /\ frames'[f].set = frames[f].set /\ frames'[f].next = frames[f].next
                        /\ frames'[f].data = frames[f].data /\ frames'[f].due = frames[f].due
  BY <1>3, <1>4
<1>6. DOMAIN frames' = 1 .. n /\ DOMAIN frames = 1 .. n
  BY <1>2, <1>4
<1> HIDE DEF n
<1>7. SetTypes' /\ WrappersDead' /\ Eb!NamesAreLive'
  BY <1>0, <1>1 DEF SetTypes, WrappersDead, Eb!NamesAreLive, Eb!Current, Eb!Live
<1>8. FrameTypes' /\ DepthKept'
  <2>1. \A f \in 1 .. n : frames[f].set \in 1 .. Len(sets) /\ frames[f].data <= emits
    BY <1>0, <1>6 DEF FrameTypes
  <2>2. \A f \in DOMAIN frames' : frames'[f].set \in 1 .. Len(sets') /\ frames'[f].data <= emits'
    BY <1>1, <1>5, <1>6, <2>1
  <2> QED
    BY <1>0, <1>4, <2>2 DEF FrameTypes, DepthKept, n
<1>9. PassedHaveHeard'
  <2> SUFFICES ASSUME role = "center", ~confused PROVE Informed'
    BY <1>1 DEF PassedHaveHeard
  <2>1. Informed
    BY <1>0, <1>1 DEF PassedHaveHeard
  <2>2. n = 1
    BY <2>1 DEF Informed, n
  <2>3. /\ Len(frames') = 1 /\ frames'[1].set = frames[1].set /\ frames'[1].next = frames[1].next
        /\ frames'[1].data = frames[1].data
    BY <1>2, <1>4, <1>5, <2>2
  <2> QED
    BY <1>1, <2>1, <2>3 DEF Informed, Eb!Live
<1>10. Eb!NobodyIsSkipped'
  <2> SUFFICES ASSUME NEW f \in DOMAIN frames', NEW i \in frames'[f].due
               PROVE  frames'[f].next <= i /\ i \in Eb!Live(frames'[f].set)
    BY <1>1 DEF Eb!NobodyIsSkipped, Eb!Live
  <2> QED
    BY <1>0, <1>5, <1>6 DEF Eb!NobodyIsSkipped
<1>11. ValueTypes' /\ StreamTypes' /\ Eb!EveryoneIsTold' /\ role' \in {"bus", "center", "source"}
  BY <1>1, StreamsAlone DEF BusInv
<1> QED
  BY <1>7, <1>8, <1>9, <1>10, <1>11 DEF BusInv

\* The loop that ends, or that a handler throws out of.
LEMMA LeaveKeeps ==
  ASSUME BusInv, Eb!throw \/ Eb!finish
  PROVE  BusInv'
<1>0. SetTypes /\ FrameTypes /\ DepthKept /\ WrappersDead /\ PassedHaveHeard /\ Eb!NobodyIsSkipped /\ Eb!NamesAreLive
  BY DEF BusInv
<1>1. /\ frames # <<>> /\ frames' = SubSeq(frames, 1, Len(frames) - 1) /\ (confused => confused')
      /\ UNCHANGED <<role, sets, registered, emits, heard, ran, streams, broadcast>>
  BY DEF Eb!throw, Eb!finish, Eb!sourceVars
<1>2. frames \in Seq(Frames) /\ Len(frames) \in Nat /\ Len(frames) > 0
  BY <1>0, <1>1 DEF FrameTypes
<1>3. /\ frames' \in Seq(Frames) /\ Len(frames') = Len(frames) - 1
      /\ \A f \in 1 .. Len(frames) - 1 : frames'[f] = frames[f]
  <2> DEFINE n == Len(frames) - 1
  <2>1. 1 \in 1 .. Len(frames) + 1 /\ n \in 1 - 1 .. Len(frames) /\ n - 1 + 1 = n /\ n \in Nat
    BY <1>2
  <2>2. /\ SubSeq(frames, 1, n) \in Seq(Frames) /\ Len(SubSeq(frames, 1, n)) = n - 1 + 1
        /\ \A f \in 1 .. n - 1 + 1 : SubSeq(frames, 1, n)[f] = frames[1 + f - 1]
    BY <1>2, <2>1, SubSeqProperties
  <2>3. \A f \in 1 .. n : 1 + f - 1 = f
    BY <2>1
  <2> QED
    BY <1>1, <2>1, <2>2, <2>3
<1>4. DOMAIN frames' = 1 .. Len(frames) - 1 /\ \A f \in DOMAIN frames' : f \in DOMAIN frames /\ frames'[f] = frames[f]
  BY <1>2, <1>3
<1>5. SetTypes' /\ WrappersDead' /\ Eb!NamesAreLive'
  BY <1>0, <1>1 DEF SetTypes, WrappersDead, Eb!NamesAreLive, Eb!Current, Eb!Live
<1>6. FrameTypes'
  BY <1>0, <1>1, <1>3, <1>4 DEF FrameTypes
<1>7. DepthKept'
  <2>1. MaxDepth \in Nat /\ Len(frames) <= MaxDepth
    BY <1>0, BusConstants DEF DepthKept
  <2>2. Len(frames') <= MaxDepth
    BY <1>2, <1>3, <2>1
  <2> QED
    BY <2>2 DEF DepthKept
<1>8. PassedHaveHeard'
  <2> SUFFICES ASSUME role = "center", ~confused PROVE frames' = <<>>
    BY <1>1 DEF PassedHaveHeard
  <2>1. Len(frames) = 1
    BY <1>0, <1>1 DEF PassedHaveHeard, Informed
  <2> QED
    BY <1>3, <2>1
<1>9. Eb!NobodyIsSkipped'
  BY <1>0, <1>1, <1>4 DEF Eb!NobodyIsSkipped, Eb!Live
<1>10. ValueTypes' /\ StreamTypes' /\ Eb!EveryoneIsTold' /\ role' \in {"bus", "center", "source"}
  BY <1>1, StreamsAlone DEF BusInv
<1> QED
  BY <1>5, <1>6, <1>7, <1>8, <1>9, <1>10 DEF BusInv

\* The call of entry e by loop n, the innermost, over Set s: what it does to Sets and loops.
Called(e, n, s) ==
  /\ n \in 1 .. n /\ n \in Nat /\ s \in 1 .. Len(sets) /\ frames[n].next <= e
  /\ \A j \in Eb!Live(s) : frames[n].next <= j => e <= j
  /\ UNCHANGED <<role, emits, confused, streams, broadcast>>
  /\ heard' = IF role = "center" THEN [heard EXCEPT ![sets[s][e].handler] = frames[n].data] ELSE heard
  /\ SetTypes' /\ Eb!NamesAreLive' /\ WrappersDead'
  /\ Len(sets') = Len(sets) /\ (role = "center" => registered' = registered)
  /\ \A k \in 1 .. Len(sets) :
       /\ Len(sets'[k]) = Len(sets[k]) /\ Eb!Live(k)' \subseteq Eb!Live(k)
       /\ \A i \in 1 .. Len(sets[k]) : sets'[k][i].handler = sets[k][i].handler
  /\ frames' \in Seq(Frames) /\ Len(frames') = n
  /\ \A f \in 1 .. n :
       /\ frames'[f].set = frames[f].set /\ frames'[f].data = frames[f].data
       /\ frames'[f].next = IF f = n THEN e + 1 ELSE frames[f].next
       /\ \A i \in frames'[f].due : /\ i \in frames[f].due /\ (f = n => i # e)
                                    /\ \A k : k = frames[f].set /\ i \in Eb!Live(k) => i \in Eb!Live(k)'

LEMMA PastFrame ==
  ASSUME NEW g \in Frames, NEW e \in Nat
  PROVE  /\ Eb!Past(g, e) \in Frames /\ Eb!Past(g, e).set = g.set /\ Eb!Past(g, e).next = e + 1
         /\ Eb!Past(g, e).data = g.data /\ Eb!Past(g, e).due = g.due \ {e}
<1>1. e + 1 \in Nat /\ g.due \ {e} \in SUBSET Nat
  BY DEF Frames
<1> DEFINE next == e + 1
           due == g.due \ {e}
<1>2. Eb!Past(g, e) = [g EXCEPT !.next = next, !.inHandler = TRUE, !.due = due]
  BY DEF Eb!Past
<1> HIDE DEF next, due
<1>3. Eb!Past(g, e) = [set |-> g.set, next |-> next, data |-> g.data, inHandler |-> TRUE, due |-> due]
  BY <1>2 DEF Frames
<1>4. next \in Nat /\ due \in SUBSET Nat /\ g.set \in Nat /\ g.data \in Nat
  BY <1>1 DEF next, due, Frames
<1>5. Eb!Past(g, e) \in Frames
  BY <1>3, <1>4 DEF Frames
<1> QED
  BY <1>3, <1>5 DEF next, due

LEMMA CallEffect ==
  ASSUME BusInv, NEW n, n = Len(frames), NEW s, s = frames[n].set, Eb!call
  PROVE  \E e \in Eb!Live(s) : Called(e, n, s)
<1>0. SetTypes /\ FrameTypes /\ WrappersDead /\ Eb!NamesAreLive
  BY DEF BusInv
<1>1. frames # <<>> /\ frames \in Seq(Frames)
  BY <1>0 DEF Eb!call, FrameTypes
<1>2. n \in 1 .. n /\ n \in Nat /\ s \in 1 .. Len(sets) /\ frames[n] \in Frames /\ s \in Nat
  <2>1. Len(frames) \in Nat /\ Len(frames) # 0
    BY <1>1, EmptySeq, LenProperties
  <2>2. n \in 1 .. Len(frames)
    BY <2>1
  <2>3. frames[n] \in Frames /\ s \in 1 .. Len(sets)
    BY <1>0, <1>1, <2>2 DEF FrameTypes
  <2> QED
    BY <2>1, <2>3 DEF Frames
<1>3. PICK e \in Eb!Ahead :
        /\ \A j \in Eb!Ahead : e <= j
        /\ Eb!Unwrap(e)
        /\ frames' = [(IF sets[s][e].once THEN Eb!Forgive(s, e) ELSE frames) EXCEPT ![n] = Eb!Past(@, e)]
        /\ heard' = IF role = "center" THEN [heard EXCEPT ![sets[s][e].handler] = frames[n].data] ELSE heard
        /\ ran' = IF sets[s][e].once THEN ran \cup {<<s, e>>} ELSE ran
  BY DEF Eb!call, Eb!Top
<1>4. UNCHANGED <<role, emits, confused, streams, broadcast>>
  BY DEF Eb!call, Eb!sourceVars
<1>5. /\ e \in Eb!Live(s) /\ frames[n].next <= e
      /\ \A j \in Eb!Live(s) : frames[n].next <= j => e <= j
  BY <1>3 DEF Eb!Ahead, Eb!Top
<1>6. e \in 1 .. Len(sets[s]) /\ e \in Nat
  BY <1>0, <1>2, <1>5, LiveEntries
<1> DEFINE unwrapped == sets[s][e].once
           G == IF unwrapped THEN Eb!Forgive(s, e) ELSE frames
           new == Eb!Past(G[n], e)
<1>7. frames' = [G EXCEPT ![n] = new]
  BY <1>3
<1>8. /\ G \in Seq(Frames) /\ Len(G) = n
      /\ \A f \in 1 .. n : /\ G[f].set = frames[f].set /\ G[f].next = frames[f].next /\ G[f].data = frames[f].data
                           /\ \A i \in G[f].due : i \in frames[f].due /\ (unwrapped /\ frames[f].set = s => i # e)
  <2>1. CASE unwrapped
    <3>1. G = Eb!Forgive(s, e)
      BY <2>1
    <3>2. Forgiven(Eb!Forgive(s, e), s, e)
      BY <1>1, Forgiving
    <3> HIDE DEF G, unwrapped
    <3> QED
      BY <3>1, <3>2 DEF Forgiven
  <2>2. CASE ~unwrapped
    BY <1>1, <2>2
  <2> QED
    BY <2>1, <2>2
<1> HIDE DEF G
<1>9. /\ new \in Frames /\ new.set = G[n].set /\ new.next = e + 1 /\ new.data = G[n].data /\ new.due = G[n].due \ {e}
  <2>1. G[n] \in Frames
    BY <1>2, <1>8
  <2> QED
    BY <1>6, <2>1, PastFrame
<1> HIDE DEF new
<1>10. frames' \in Seq(Frames) /\ Len(frames') = n /\ frames'[n] = new /\ \A f \in 1 .. n : f # n => frames'[f] = G[f]
  BY <1>2, <1>7, <1>8, <1>9
<1>11. \A f \in 1 .. n :
         /\ frames'[f].set = frames[f].set /\ frames'[f].data = frames[f].data
         /\ frames'[f].next = IF f = n THEN e + 1 ELSE frames[f].next
         /\ \A i \in frames'[f].due :
              i \in frames[f].due /\ (f = n => i # e) /\ (unwrapped /\ frames[f].set = s => i # e)
  BY <1>8, <1>9, <1>10
<1> HIDE DEF unwrapped
<1>12. /\ SetTypes' /\ Eb!NamesAreLive' /\ WrappersDead'
       /\ Len(sets') = Len(sets) /\ (role = "center" => registered' = registered)
       /\ \A k \in 1 .. Len(sets) :
            /\ Len(sets'[k]) = Len(sets[k]) /\ Eb!Live(k)' \subseteq Eb!Live(k)
            /\ \A i \in 1 .. Len(sets[k]) : sets'[k][i].handler = sets[k][i].handler
            /\ \A i \in Eb!Live(k) : (unwrapped /\ k = s => i # e) => i \in Eb!Live(k)'
  <2>1. CASE unwrapped /\ registered = s
    <3>1. Eb!Delete(e)
      BY <1>3, <2>1 DEF Eb!Unwrap, Eb!Top, unwrapped
    <3>2. SetTypes' /\ Eb!NamesAreLive' /\ WrappersDead'
      BY <1>0, <1>2, <1>3, <1>4, <1>5, <2>1, <3>1, DeadKeeps DEF unwrapped
    <3>3. /\ Len(sets') = Len(sets)
          /\ registered' = (IF role = "bus" /\ Eb!Current = {e} THEN 0 ELSE registered)
          /\ \A k \in 1 .. Len(sets) :
               /\ Len(sets'[k]) = Len(sets[k])
               /\ \A i \in 1 .. Len(sets[k]) : sets'[k][i].handler = sets[k][i].handler
               /\ Eb!Live(k)' = IF k = registered THEN Eb!Live(k) \ {e} ELSE Eb!Live(k)
      BY <1>0, <1>2, <1>6, <2>1, <3>1, Deleting
    <3> QED
      BY <2>1, <3>2, <3>3
  <2>2. CASE ~(unwrapped /\ registered = s)
    <3>1. UNCHANGED <<sets, registered>>
      BY <1>3, <2>2 DEF Eb!Unwrap, Eb!Top, unwrapped
    <3>2. SetTypes' /\ Eb!NamesAreLive'
      BY <1>0, <1>4, <3>1 DEF SetTypes, Eb!NamesAreLive, Eb!Current, Eb!Live
    <3>3. \A k : Eb!Live(k)' = Eb!Live(k)
      BY <3>1 DEF Eb!Live
    <3>4. WrappersDead'
      <4> SUFFICES ASSUME NEW k \in Nat, NEW i \in Nat, <<k, i>> \in ran'
                   PROVE  k \in 1 .. Len(sets) /\ i \in 1 .. Len(sets[k]) /\ (k = registered => i \notin Eb!Live(k))
        BY <3>1, <3>3 DEF WrappersDead
      <4>1. CASE <<k, i>> \in ran
        BY <1>0, <4>1 DEF WrappersDead
      <4>2. CASE <<k, i>> \notin ran
        <5>1. unwrapped /\ k = s /\ i = e
          BY <1>3, <4>2 DEF unwrapped
        <5> QED
          BY <1>2, <1>6, <2>2, <5>1
      <4> QED
        BY <4>1, <4>2
    <3> QED
      BY <3>1, <3>2, <3>3, <3>4
  <2> QED
    BY <2>1, <2>2
<1>13. ASSUME NEW f \in 1 .. n, NEW i \in frames'[f].due, NEW k, k = frames[f].set, i \in Eb!Live(k)
       PROVE  i \in Eb!Live(k)'
  <2>1. k \in 1 .. Len(sets)
    BY <1>0, <1>1, <1>13 DEF FrameTypes
  <2> QED
    BY <1>11, <1>12, <1>13, <2>1
<1>14. Called(e, n, s)
  <2>1. \A f \in 1 .. n :
          /\ frames'[f].set = frames[f].set /\ frames'[f].data = frames[f].data
          /\ frames'[f].next = IF f = n THEN e + 1 ELSE frames[f].next
          /\ \A i \in frames'[f].due : /\ i \in frames[f].due /\ (f = n => i # e)
                                       /\ \A k : k = frames[f].set /\ i \in Eb!Live(k) => i \in Eb!Live(k)'
    BY <1>11, <1>13
  <2>2. heard' = IF role = "center" THEN [heard EXCEPT ![sets[s][e].handler] = frames[n].data] ELSE heard
    BY <1>3
  <2>3. /\ SetTypes' /\ Eb!NamesAreLive' /\ WrappersDead'
        /\ Len(sets') = Len(sets) /\ (role = "center" => registered' = registered)
        /\ \A k \in 1 .. Len(sets) :
             /\ Len(sets'[k]) = Len(sets[k]) /\ Eb!Live(k)' \subseteq Eb!Live(k)
             /\ \A i \in 1 .. Len(sets[k]) : sets'[k][i].handler = sets[k][i].handler
    BY <1>12
  <2>4. frames' \in Seq(Frames) /\ Len(frames') = n
    BY <1>10
  <2> QED
    BY <1>2, <1>4, <1>5, <2>1, <2>2, <2>3, <2>4, Zenon DEF Called
<1> QED
  BY <1>5, <1>14

LEMMA CallKeeps ==
  ASSUME BusInv, Eb!call
  PROVE  BusInv'
<1>0. SetTypes /\ FrameTypes /\ ValueTypes /\ DepthKept /\ StreamTypes /\ PassedHaveHeard /\ Eb!NobodyIsSkipped
      /\ Eb!EveryoneIsTold /\ role \in {"bus", "center", "source"}
  BY DEF BusInv
<1>1. PICK n : n = Len(frames)
  OBVIOUS
<1>2. PICK s : s = frames[n].set
  OBVIOUS
<1>3. PICK e \in Eb!Live(s) : Called(e, n, s)
  BY <1>1, <1>2, CallEffect
<1>4. /\ n \in 1 .. n /\ n \in Nat /\ s \in 1 .. Len(sets) /\ frames[n].next <= e
      /\ \A j \in Eb!Live(s) : frames[n].next <= j => e <= j
  BY <1>3 DEF Called
<1>5. /\ UNCHANGED <<role, emits, confused, streams, broadcast>>
      /\ heard' = IF role = "center" THEN [heard EXCEPT ![sets[s][e].handler] = frames[n].data] ELSE heard
      /\ SetTypes' /\ Eb!NamesAreLive' /\ WrappersDead'
      /\ Len(sets') = Len(sets) /\ (role = "center" => registered' = registered)
  BY <1>3 DEF Called
<1>6. \A k \in 1 .. Len(sets) :
        /\ Len(sets'[k]) = Len(sets[k]) /\ Eb!Live(k)' \subseteq Eb!Live(k)
        /\ \A i \in 1 .. Len(sets[k]) : sets'[k][i].handler = sets[k][i].handler
  BY <1>3 DEF Called
<1>7. /\ frames' \in Seq(Frames) /\ Len(frames') = n
      /\ \A f \in 1 .. n :
           /\ frames'[f].set = frames[f].set /\ frames'[f].data = frames[f].data
           /\ frames'[f].next = IF f = n THEN e + 1 ELSE frames[f].next
  BY <1>3 DEF Called
<1>8. \A f \in 1 .. n : \A i \in frames'[f].due :
        /\ i \in frames[f].due /\ (f = n => i # e)
        /\ \A k : k = frames[f].set /\ i \in Eb!Live(k) => i \in Eb!Live(k)'
  BY <1>3 DEF Called
<1>9. /\ DOMAIN frames = 1 .. n /\ DOMAIN frames' = 1 .. n /\ frames \in Seq(Frames)
      /\ e \in 1 .. Len(sets[s]) /\ e \in Nat /\ sets[s] \in Seq(Entries) /\ sets[s][e].handler \in Handlers
  <2>1. e \in 1 .. Len(sets[s]) /\ e \in Nat
    BY <1>0, <1>3, <1>4, LiveEntries
  <2>2. sets[s] \in Seq(Entries) /\ sets[s][e] \in Entries
    BY <1>0, <1>4, <2>1 DEF SetTypes
  <2>3. frames \in Seq(Frames) /\ DOMAIN frames = 1 .. n /\ DOMAIN frames' = 1 .. n
    BY <1>0, <1>1, <1>7 DEF FrameTypes
  <2> QED
    BY <2>1, <2>2, <2>3 DEF Entries
<1>10. \A f \in 1 .. n : frames[f] \in Frames /\ frames[f].set \in 1 .. Len(sets) /\ frames[f].data \in Nat /\ frames[f].data <= emits
  <2>1. \A f \in 1 .. n : frames[f].set \in 1 .. Len(sets) /\ frames[f].data <= emits
    BY <1>0, <1>9 DEF FrameTypes
  <2>2. \A f \in 1 .. n : frames[f] \in Frames
    BY <1>1, <1>9
  <2> QED
    BY <2>1, <2>2 DEF Frames
<1>11. FrameTypes' /\ DepthKept'
  <2>1. \A f \in DOMAIN frames' : frames'[f].set \in 1 .. Len(sets') /\ frames'[f].data <= emits'
    BY <1>5, <1>7, <1>9, <1>10
  <2> QED
    BY <1>0, <1>1, <1>7, <2>1 DEF FrameTypes, DepthKept
<1>12. ValueTypes'
  <2>1. heard' \in [Handlers -> Nat] /\ \A h \in Handlers : heard'[h] <= emits
    <3>1. CASE role = "center"
      BY <1>0, <1>4, <1>5, <1>9, <1>10, <3>1 DEF ValueTypes
    <3>2. CASE role # "center"
      BY <1>0, <1>5, <3>2 DEF ValueTypes
    <3> QED
      BY <3>1, <3>2
  <2> QED
    BY <1>0, <1>5, <2>1 DEF ValueTypes
<1>13. StreamTypes' /\ Eb!EveryoneIsTold'
  <2>1. CASE role = "center"
    BY <1>0, <1>5, <2>1 DEF StreamTypes, Eb!EveryoneIsTold, Eb!Connected
  <2>2. CASE role # "center"
    BY <1>0, <1>5, <2>2 DEF StreamTypes, Eb!EveryoneIsTold, Eb!Connected
  <2> QED
    BY <2>1, <2>2
<1>14. Eb!NobodyIsSkipped'
  <2> SUFFICES ASSUME NEW f \in 1 .. n, NEW i \in frames'[f].due
               PROVE  frames'[f].next <= i /\ \A k : k = frames'[f].set => i \in Eb!Live(k)'
    BY <1>9 DEF Eb!NobodyIsSkipped, Eb!Live
  <2>1. i \in frames[f].due /\ frames[f].next <= i /\ i \in Eb!Live(frames[f].set)
    BY <1>0, <1>8, <1>9 DEF Eb!NobodyIsSkipped
  <2>2. \A k : k = frames'[f].set => i \in Eb!Live(k)'
    BY <1>7, <1>8, <2>1
  <2>3. frames'[f].next <= i
    <3>1. CASE f = n
      <4>1. e <= i /\ i # e /\ i \in Nat
        <5>1. i \in Nat
          BY <1>0, <1>2, <1>4, <2>1, <3>1, LiveEntries
        <5> QED
          BY <1>2, <1>4, <1>8, <2>1, <3>1, <5>1
      <4>2. frames'[f].next = e + 1
        BY <1>7, <3>1
      <4> QED
        BY <1>9, <4>1, <4>2
    <3>2. CASE f # n
      BY <1>7, <2>1, <3>2
    <3> QED
      BY <3>1, <3>2
  <2> QED
    BY <2>2, <2>3
<1>15. PassedHaveHeard'
  <2> SUFFICES ASSUME role = "center", ~confused PROVE Informed'
    BY <1>5 DEF PassedHaveHeard
  <2>1. Informed
    <3>1. frames # <<>>
      BY <1>1, <1>4
    <3> QED
      BY <1>0, <3>1 DEF PassedHaveHeard
  <2>2. n = 1 /\ s = registered /\ registered' = s /\ frames[1].data = emits
    BY <1>1, <1>2, <1>5, <2>1 DEF Informed
  <2>3. /\ Len(frames') = 1 /\ frames'[1].set = s /\ frames'[1].data = emits' /\ frames'[1].next = e + 1
        /\ frames'[1].next <= Len(sets'[s]) + 1
    <3>1. Len(sets'[s]) = Len(sets[s]) /\ Len(sets[s]) \in Nat
      BY <1>4, <1>6, <1>9
    <3>2. frames'[1].next = e + 1 /\ frames'[1].set = s /\ frames'[1].data = emits' /\ Len(frames') = 1
      BY <1>2, <1>4, <1>5, <1>7, <2>2
    <3> QED
      BY <1>9, <3>1, <3>2
  <2>4. /\ heard' = [heard EXCEPT ![sets[s][e].handler] = emits] /\ heard \in [Handlers -> Nat]
    BY <1>0, <1>5, <2>2 DEF ValueTypes
  <2>5. ASSUME NEW i \in Eb!Live(s)', i < e + 1 PROVE heard'[sets'[s][i].handler] = emits
    <3>1. i \in Eb!Live(s) /\ i \in 1 .. Len(sets[s]) /\ i \in Nat
      BY <1>0, <1>4, <1>6, <2>5, LiveEntries
    <3>2. sets'[s][i].handler = sets[s][i].handler /\ sets[s][i] \in Entries
      BY <1>4, <1>6, <1>9, <3>1
    <3>3. sets[s][i].handler \in Handlers
      BY <3>2 DEF Entries
    <3>4. CASE i = e
      BY <1>9, <2>4, <3>2, <3>4
    <3>5. CASE i # e
      <4>1. ~(frames[1].next <= i)
        BY <1>4, <1>9, <2>2, <2>5, <3>1, <3>5
      <4>2. i < frames[1].next
        <5>1. frames[1] \in Frames
          BY <1>4, <1>10, <2>2
        <5>2. frames[1].next \in Nat
          BY <5>1 DEF Frames
        <5> QED
          BY <3>1, <4>1, <5>2
      <4>3. heard[sets[s][i].handler] = emits
        BY <2>1, <2>2, <3>1, <4>2 DEF Informed
      <4> QED
        BY <2>4, <3>2, <3>3, <4>3
    <3> QED
      BY <3>4, <3>5
  <2>6. \A i \in Eb!Live(registered)' : i \in Eb!Live(s)'
    BY <2>2 DEF Eb!Live
  <2> QED
    BY <1>5, <2>2, <2>3, <2>5, <2>6 DEF Informed
<1> QED
  BY <1>0, <1>5, <1>11, <1>12, <1>13, <1>14, <1>15 DEF BusInv

\* What the clients of a source do has nothing to do with Sets and loops.
LEMMA LoopsAlone ==
  BusInv /\ UNCHANGED <<role, sets, registered, frames, ran, confused>> /\ emits' \in Nat /\ emits' >= emits
         /\ (role = "source" \/ UNCHANGED <<emits, heard>>) =>
    /\ SetTypes' /\ FrameTypes' /\ DepthKept' /\ WrappersDead' /\ PassedHaveHeard'
    /\ Eb!NobodyIsSkipped' /\ Eb!NamesAreLive' /\ role' \in {"bus", "center", "source"}
<1> SUFFICES ASSUME BusInv, UNCHANGED <<role, sets, registered, frames, ran, confused>>, emits' \in Nat, emits' >= emits,
                    role = "source" \/ UNCHANGED <<emits, heard>>
             PROVE  /\ SetTypes' /\ FrameTypes' /\ DepthKept' /\ WrappersDead' /\ PassedHaveHeard'
                    /\ Eb!NobodyIsSkipped' /\ Eb!NamesAreLive' /\ role' \in {"bus", "center", "source"}
  OBVIOUS
<1>0. SetTypes /\ FrameTypes /\ ValueTypes /\ DepthKept /\ WrappersDead /\ PassedHaveHeard
      /\ Eb!NobodyIsSkipped /\ Eb!NamesAreLive /\ role \in {"bus", "center", "source"}
  BY DEF BusInv
<1>1. SetTypes' /\ DepthKept' /\ Eb!NobodyIsSkipped' /\ Eb!NamesAreLive' /\ WrappersDead'
  BY <1>0 DEF SetTypes, DepthKept, Eb!NobodyIsSkipped, Eb!NamesAreLive, Eb!Current, Eb!Live, WrappersDead
<1>2. FrameTypes'
  <2>1. CASE UNCHANGED emits
    BY <1>0, <2>1 DEF FrameTypes
  <2>2. CASE emits' # emits
    <3>1. \A f \in DOMAIN frames : frames[f] \in Frames /\ frames[f].set \in 1 .. Len(sets) /\ frames[f].data <= emits
      BY <1>0 DEF FrameTypes
    <3>2. emits \in Nat
      BY <1>0 DEF ValueTypes
    <3>3. \A f \in DOMAIN frames : frames[f].set \in 1 .. Len(sets) /\ frames[f].data <= emits'
      <4>1. \A f \in DOMAIN frames : frames[f].data \in Nat /\ frames[f].data <= emits /\ frames[f].set \in 1 .. Len(sets)
        BY <3>1 DEF Frames
      <4> QED
        BY <3>2, <4>1
    <3> QED
      BY <1>0, <3>3 DEF FrameTypes
  <2> QED
    BY <2>1, <2>2
<1>3. PassedHaveHeard'
  BY <1>0 DEF PassedHaveHeard, Informed, Eb!Live
<1> QED
  BY <1>0, <1>1, <1>2, <1>3

LEMMA JoinKeeps ==
  ASSUME BusInv, NEW h \in Handlers, Eb!addClient(h) \/ Eb!Disconnect(h)
  PROVE  BusInv'
<1>0. ValueTypes /\ StreamTypes /\ Eb!EveryoneIsTold
  BY DEF BusInv
<1>1. /\ UNCHANGED <<role, sets, registered, frames, emits, heard, ran, confused, broadcast>> /\ role = "source"
  BY DEF Eb!addClient, Eb!Disconnect
<1>2. /\ emits \in Nat /\ broadcast \in 0 .. emits /\ ValueTypes'
  BY <1>0, <1>1 DEF ValueTypes
<1>3. StreamTypes' /\ Eb!EveryoneIsTold'
  <2>1. CASE Eb!Disconnect(h)
    BY <1>0, <1>1, <2>1 DEF Eb!Disconnect, StreamTypes, Eb!EveryoneIsTold, Eb!Connected
  <2>2. CASE Eb!addClient(h)
    <3> DEFINE new == [response |-> h, kept |-> h \notin gone, since |-> emits]
    <3>1. streams' = Append(streams, new) /\ streams \in Seq(Streams) /\ Len(streams) \in Nat
      BY <1>0, <2>2 DEF Eb!addClient, StreamTypes
    <3>2. new \in Streams /\ new.since = emits
      BY <1>2 DEF Streams
    <3> HIDE DEF new
    <3>3. /\ streams' \in Seq(Streams) /\ Len(streams') = Len(streams) + 1 /\ streams'[Len(streams) + 1] = new
          /\ \A i \in 1 .. Len(streams) : streams'[i] = streams[i]
      BY <3>1, <3>2, AppendProperties
    <3>4. DOMAIN streams = 1 .. Len(streams) /\ DOMAIN streams' = 1 .. Len(streams) \cup {Len(streams) + 1}
      BY <3>1, <3>3
    <3>5. ~(emits < broadcast)
      BY <1>2
    <3>6. Eb!EveryoneIsTold'
      BY <1>0, <1>1, <3>2, <3>3, <3>4, <3>5 DEF Eb!EveryoneIsTold, Eb!Connected
    <3> QED
      BY <1>1, <3>3, <3>6 DEF StreamTypes
  <2> QED
    BY <2>1, <2>2
<1> QED
  BY <1>1, <1>2, <1>3, LoopsAlone DEF BusInv

\* Clients that are not kept any longer.
LEMMA Dropping ==
  ASSUME StreamTypes, NEW clients
  PROVE  /\ Eb!Without(clients) \in Seq(Streams) /\ DOMAIN Eb!Without(clients) = DOMAIN streams
         /\ \A i \in DOMAIN streams :
              /\ Eb!Without(clients)[i].response = streams[i].response
              /\ Eb!Without(clients)[i].since = streams[i].since
              /\ Eb!Without(clients)[i].kept => streams[i].kept /\ i \notin clients
         /\ streams = <<>> => Eb!Without(clients) = <<>>
<1> DEFINE F(i) == [streams[i] EXCEPT !.kept = @ /\ i \notin clients]
<1>1. streams \in Seq(Streams) /\ Len(streams) \in Nat /\ DOMAIN streams = 1 .. Len(streams)
  BY DEF StreamTypes
<1>2. ASSUME NEW i \in 1 .. Len(streams)
      PROVE  /\ F(i) \in Streams /\ F(i).response = streams[i].response
             /\ F(i).since = streams[i].since /\ (F(i).kept => streams[i].kept /\ i \notin clients)
  <2>1. streams[i] \in Streams
    BY <1>1
  <2> QED
    BY <2>1 DEF Streams
<1>3. Eb!Without(clients) = [i \in 1 .. Len(streams) |-> F(i)]
  BY <1>1 DEF Eb!Without
<1> HIDE DEF F
<1>4. \A i \in 1 .. Len(streams) : F(i) \in Streams
  BY <1>2
<1>5. Eb!Without(clients) \in [1 .. Len(streams) -> Streams] /\ DOMAIN Eb!Without(clients) = 1 .. Len(streams)
  BY <1>3, <1>4
<1>6. Eb!Without(clients) \in Seq(Streams)
  BY <1>1, <1>5, SeqDef
<1>7. streams = <<>> => Eb!Without(clients) = <<>>
  BY <1>1, <1>5, <1>6
<1> QED
  BY <1>1, <1>2, <1>3, <1>5, <1>6, <1>7

\* Who has been told what: a write that succeeds is the last that a response got.
LEMMA Hearing ==
  ASSUME ValueTypes, emits' = emits + 1, NEW clients, Eb!Hear(clients)
  PROVE  /\ heard' \in [Handlers -> Nat]
         /\ \A h \in Handlers : heard'[h] <= emits' /\ heard'[h] >= heard[h] /\ heard'[h] \in {heard[h], emits'}
         /\ \A i \in clients : streams[i].response \in Handlers => heard'[streams[i].response] = emits'
<1>1. emits \in Nat /\ heard \in [Handlers -> Nat] /\ \A h \in Handlers : heard[h] \in Nat /\ heard[h] <= emits
  BY DEF ValueTypes
<1>2. heard' = [h \in Handlers |-> IF \E i \in clients : streams[i].response = h THEN emits' ELSE heard[h]]
  BY DEF Eb!Hear
<1>3. \A h \in Handlers : /\ heard'[h] \in {heard[h], emits'}
                          /\ (\E i \in clients : streams[i].response = h) => heard'[h] = emits'
  BY <1>2
<1>4. emits' \in Nat /\ emits' >= emits
  BY <1>1
<1>5. \A h \in Handlers : heard'[h] \in Nat /\ heard'[h] <= emits' /\ heard'[h] >= heard[h]
  BY <1>1, <1>3, <1>4
<1>6. heard' \in [Handlers -> Nat]
  BY <1>2, <1>5
<1> QED
  BY <1>3, <1>5, <1>6

\* A write to some clients, after which some are kept no longer.
LEMMA WriteKeeps ==
  ASSUME BusInv, NEW those, NEW dropped, role = "source",
         emits < MaxEmits, emits' = emits + 1, Eb!Hear(those), streams' = Eb!Without(dropped),
         UNCHANGED <<role, sets, registered, frames, ran, confused>>,
         broadcast' = broadcast \/ (broadcast' = emits' /\ Eb!Connected \ dropped \subseteq those)
  PROVE  BusInv'
<1> USE BusConstants
<1>0. ValueTypes /\ StreamTypes /\ Eb!EveryoneIsTold
  BY DEF BusInv
<1>1. emits \in Nat /\ emits' \in 0 .. MaxEmits /\ emits' \in Nat /\ emits' >= emits /\ broadcast \in Nat /\ broadcast <= emits
      /\ broadcast' \in 0 .. emits' /\ heard \in [Handlers -> Nat]
  BY <1>0 DEF ValueTypes
<1>2. /\ heard' \in [Handlers -> Nat]
      /\ \A h \in Handlers : heard'[h] <= emits' /\ heard'[h] >= heard[h] /\ heard'[h] \in {heard[h], emits'}
      /\ \A i \in those : streams[i].response \in Handlers => heard'[streams[i].response] = emits'
  BY <1>0, Hearing
<1>3. ValueTypes'
  BY <1>1, <1>2 DEF ValueTypes
<1>4. /\ streams' \in Seq(Streams) /\ DOMAIN streams' = DOMAIN streams
      /\ \A i \in DOMAIN streams :
           /\ streams'[i].response = streams[i].response
           /\ streams'[i].since = streams[i].since
           /\ streams'[i].kept => streams[i].kept /\ i \notin dropped
  BY <1>0, Dropping
<1>5. StreamTypes'
  BY <1>4 DEF StreamTypes
<1>6. Eb!EveryoneIsTold'
  <2> SUFFICES ASSUME NEW i \in DOMAIN streams, streams'[i].kept, streams[i].since < broadcast'
               PROVE  heard'[streams[i].response] >= broadcast'
    BY <1>4 DEF Eb!EveryoneIsTold, Eb!Connected
  <2>1. i \in Eb!Connected \ dropped
    BY <1>4 DEF Eb!Connected
  <2>2. streams[i].response \in Handlers
    <3>1. streams[i] \in Streams
      BY <1>0 DEF StreamTypes
    <3> QED
      BY <3>1 DEF Streams
  <2>3. heard[streams[i].response] \in Nat /\ heard'[streams[i].response] \in Nat
        /\ heard'[streams[i].response] >= heard[streams[i].response]
    BY <1>1, <1>2, <2>2
  <2>4. CASE broadcast' = broadcast
    <3>1. heard[streams[i].response] >= broadcast
      BY <1>0, <2>1, <2>4 DEF Eb!EveryoneIsTold
    <3> QED
      BY <1>1, <2>3, <2>4, <3>1
  <2>5. CASE broadcast' = emits' /\ Eb!Connected \ dropped \subseteq those
    <3>1. heard'[streams[i].response] = emits'
      BY <1>2, <2>1, <2>2, <2>5
    <3> QED
      BY <1>1, <2>3, <2>5, <3>1
  <2> QED
    BY <2>4, <2>5
<1> QED
  BY <1>1, <1>3, <1>5, <1>6, LoopsAlone DEF BusInv

LEMMA RemoveKeeps ==
  ASSUME BusInv, NEW i \in DOMAIN streams, Eb!removeClient(i)
  PROVE  BusInv'
<1>0. ValueTypes /\ StreamTypes /\ Eb!EveryoneIsTold
  BY DEF BusInv
<1>1. streams' = Eb!Without({i}) /\ UNCHANGED <<role, sets, registered, frames, emits, heard, ran, confused, broadcast>>
  BY DEF Eb!removeClient
<1>2. /\ streams' \in Seq(Streams) /\ DOMAIN streams' = DOMAIN streams
      /\ \A j \in DOMAIN streams :
           /\ streams'[j].response = streams[j].response
           /\ streams'[j].since = streams[j].since
           /\ streams'[j].kept => streams[j].kept /\ j \notin {i}
      /\ streams = <<>> => streams' = <<>>
  BY <1>0, <1>1, Dropping
<1>3. ValueTypes' /\ StreamTypes' /\ emits' \in Nat /\ emits' >= emits
  BY <1>0, <1>1, <1>2 DEF ValueTypes, StreamTypes
<1>4. Eb!EveryoneIsTold'
  BY <1>0, <1>1, <1>2 DEF Eb!EveryoneIsTold, Eb!Connected
<1> QED
  BY <1>1, <1>3, <1>4, LoopsAlone DEF BusInv

LEMMA SourceKeeps ==
  ASSUME BusInv, Eb!send \/ Eb!closeAll \/ \E i \in DOMAIN streams : Eb!sendTo(i)
  PROVE  BusInv'
<1>1. CASE Eb!send
  <2>1. /\ role = "source" /\ emits < MaxEmits /\ emits' = emits + 1 /\ broadcast' = emits'
        /\ streams' = Eb!Without(Eb!Refusing) /\ Eb!Hear(Eb!Connected \ Eb!Refusing)
        /\ UNCHANGED <<role, sets, registered, frames, ran, confused>>
    BY <1>1 DEF Eb!send
  <2> QED
    BY <2>1, WriteKeeps
<1>2. ASSUME NEW i \in Eb!Connected PROVE role = "source"
  BY <1>2 DEF BusInv, StreamTypes, Eb!Connected
<1>3. CASE Eb!closeAll
  <2>1. /\ Eb!Connected # {} /\ emits < MaxEmits /\ emits' = emits + 1 /\ broadcast' = broadcast
        /\ streams' = Eb!Without(Eb!Connected) /\ Eb!Hear(Eb!Connected \ Eb!Refusing)
        /\ UNCHANGED <<role, sets, registered, frames, ran, confused>>
    BY <1>3 DEF Eb!closeAll
  <2>2. role = "source"
    BY <1>2, <2>1
  <2> QED
    BY <2>1, <2>2, WriteKeeps
<1>4. ASSUME NEW i \in DOMAIN streams, Eb!sendTo(i) PROVE BusInv'
  <2>1. /\ i \in Eb!Connected /\ emits < MaxEmits /\ emits' = emits + 1 /\ broadcast' = broadcast
        /\ streams' = Eb!Without({i} \cap Eb!Refusing) /\ Eb!Hear({i} \ Eb!Refusing)
        /\ UNCHANGED <<role, sets, registered, frames, ran, confused>>
    BY <1>4 DEF Eb!sendTo
  <2>2. role = "source"
    BY <1>2, <2>1
  <2> QED
    BY <2>1, <2>2, WriteKeeps
<1> QED
  BY <1>1, <1>3, <1>4

LEMMA BusRests == BusInv /\ UNCHANGED Eb!busVars => BusInv'
<1> SUFFICES ASSUME BusInv, UNCHANGED Eb!busVars PROVE BusInv'
  OBVIOUS
<1>1. UNCHANGED <<role, sets, registered, frames, emits, heard, ran, confused, streams, broadcast>>
  BY DEF Eb!busVars, Eb!sourceVars
<1>2. emits' \in Nat /\ emits' >= emits
  BY <1>1 DEF BusInv, ValueTypes
<1> QED
  BY <1>1, <1>2, LoopsAlone, StreamsAlone DEF BusInv

LEMMA BusNext == BusInv /\ [Eb!Next]_(Eb!busVars) => BusInv'
<1> SUFFICES ASSUME BusInv, [Eb!Next]_(Eb!busVars) PROVE BusInv'
  OBVIOUS
<1>1. ASSUME NEW h \in Handlers, Eb!on(h) \/ Eb!once(h) PROVE BusInv'
  <2>1. /\ Eb!Add(h, FALSE) \/ Eb!Add(h, TRUE)
        /\ UNCHANGED <<role, frames, emits, heard, ran, confused, streams, broadcast>>
    BY <1>1 DEF Eb!on, Eb!once, Eb!sourceVars
  <2> QED
    BY <2>1, AddKeeps
<1> QED
  BY <1>1, BusRests, OffKeeps, ClearKeeps, EmitKeeps, CallKeeps, ReturnKeeps, LeaveKeeps, JoinKeeps,
     RemoveKeeps, SourceKeeps DEF Eb!Next

\* A loop goes on only by a call.
LEMMA LoopsGoOn ==
  ASSUME BusInv, Eb!Next, ~Eb!call, NEW f \in DOMAIN frames, f \in DOMAIN frames'
  PROVE  frames'[f].next = frames[f].next
<1>1. frames \in Seq(Frames) /\ Len(frames) \in Nat /\ DOMAIN frames = 1 .. Len(frames)
  BY DEF BusInv, FrameTypes
<1>2. CASE UNCHANGED frames
  BY <1>2
<1>3. ASSUME NEW h \in Handlers, Eb!off(h) PROVE frames'[f].next = frames[f].next
  <2>1. PICK e : frames' = Eb!Forgive(registered, e)
    BY <1>3 DEF Eb!off
  <2>2. Forgiven(Eb!Forgive(registered, e), registered, e)
    BY <1>1, Forgiving
  <2> QED
    BY <1>1, <2>1, <2>2 DEF Forgiven
<1>4. CASE Eb!emit
  <2>1. PICK new : frames' = Append(frames, new)
    BY <1>4 DEF Eb!emit
  <2>2. frames'[f] = frames[f]
    BY <1>1, <2>1
  <2> QED
    BY <2>2
<1>5. CASE Eb!return
  <2> DEFINE n == Len(frames)
             new == [frames[n] EXCEPT !.inHandler = FALSE]
  <2>1. frames' = [frames EXCEPT ![n] = new]
    BY <1>5 DEF Eb!return, Eb!ChangeTop, Eb!Top
  <2>2. new.next = frames[n].next
    <3>1. frames[n] \in Frames
      BY <1>1
    <3> QED
      BY <3>1 DEF Frames
  <2> HIDE DEF new
  <2> QED
    BY <1>1, <2>1, <2>2
<1>6. CASE Eb!throw \/ Eb!finish
  <2>1. frames' = SubSeq(frames, 1, Len(frames) - 1) /\ frames # <<>>
    BY <1>6 DEF Eb!throw, Eb!finish
  <2>2. Len(frames) > 0
    BY <1>1, <2>1
  <2>3. DOMAIN frames' = 1 .. Len(frames) - 1 /\ \A i \in 1 .. Len(frames) - 1 : frames'[i] = frames[i]
    BY <1>1, <2>1, <2>2
  <2> QED
    BY <2>3
<1> QED
  BY <1>2, <1>3, <1>4, <1>5, <1>6 DEF Eb!Next, Eb!on, Eb!once, Eb!clear, Eb!addClient, Eb!Disconnect, Eb!sendTo,
     Eb!removeClient, Eb!send, Eb!closeAll

\* What OnceIsOnce says of a step.
LEMMA OnceOnly ==
  ASSUME BusInv, [Eb!Next]_(Eb!busVars), NEW f \in DOMAIN frames', f \in DOMAIN frames,
         frames'[f].next > frames[f].next, NEW s, s = frames[f].set, s = registered,
         NEW i, i = frames'[f].next - 1
  PROVE  <<s, i>> \notin ran
<1>0. SetTypes /\ FrameTypes /\ WrappersDead
  BY DEF BusInv
<1>1. frames[f].next \in Nat
  <2>1. frames[f] \in Frames
    BY <1>0 DEF FrameTypes
  <2> QED
    BY <2>1 DEF Frames
<1>2. Eb!call
  <2>1. frames'[f].next # frames[f].next
    BY <1>1
  <2>2. Eb!Next
    BY <2>1 DEF Eb!busVars
  <2> QED
    BY <2>1, <2>2, LoopsGoOn
<1>3. PICK n : n = Len(frames)
  OBVIOUS
<1>4. PICK k : k = frames[n].set
  OBVIOUS
<1>5. PICK e \in Eb!Live(k) : Called(e, n, k)
  BY <1>2, <1>3, <1>4, CallEffect
<1>6. k \in 1 .. Len(sets) /\ \A g \in 1 .. n : frames'[g].next = IF g = n THEN e + 1 ELSE frames[g].next
  BY <1>5 DEF Called
<1>7. f \in 1 .. n
  BY <1>0, <1>3 DEF FrameTypes
<1>8. f = n /\ frames'[f].next = e + 1
  BY <1>1, <1>6, <1>7
<1>9. s = k /\ s \in Nat
  <2>1. s = k
    BY <1>4, <1>8
  <2>2. Len(sets) \in Nat
    BY <1>0 DEF SetTypes
  <2> QED
    BY <1>6, <2>1, <2>2
<1>10. e \in Nat /\ i = e
  <2>1. e \in Nat
    BY <1>0, <1>5, <1>6, LiveEntries
  <2> QED
    BY <1>8, <2>1
<1> QED
  BY <1>0, <1>5, <1>9, <1>10 DEF WrappersDead

\* What ListenersAgree says of a step.
LEMMA AllInformed ==
  ASSUME BusInv, [Eb!Next]_(Eb!busVars), role = "center", Len(frames) = 1, frames' = <<>>, ~confused',
         NEW h \in Eb!Subscribed, NEW i \in Eb!EntryOf(h)
  PROVE  heard[h] = emits
<1>0. SetTypes /\ FrameTypes /\ PassedHaveHeard
  BY DEF BusInv
<1>1. frames \in Seq(Frames) /\ frames # <<>> /\ Len(frames') = 0
  <2>1. frames \in Seq(Frames)
    BY <1>0 DEF FrameTypes
  <2> QED
    BY <2>1
<1>2. Eb!finish
  <2>1. ~(UNCHANGED frames)
    BY <1>1
  <2>2. ASSUME NEW g \in Handlers, Eb!off(g) PROVE FALSE
    <3>1. PICK e : frames' = Eb!Forgive(registered, e)
      BY <2>2 DEF Eb!off
    <3>2. Forgiven(Eb!Forgive(registered, e), registered, e)
      BY <1>1, Forgiving
    <3> QED
      BY <1>1, <3>1, <3>2 DEF Forgiven
  <2>3. ~Eb!emit
    <3> SUFFICES ASSUME NEW new, frames' = Append(frames, new) PROVE FALSE
      BY DEF Eb!emit
    <3> QED
      BY <1>1
  <2>4. ~Eb!call
    <3> SUFFICES ASSUME Eb!call PROVE FALSE
      OBVIOUS
    <3>1. PICK n : n = Len(frames)
      OBVIOUS
    <3>2. PICK s : s = frames[n].set
      OBVIOUS
    <3>3. PICK e : Called(e, n, s)
      BY <3>1, <3>2, CallEffect
    <3> QED
      BY <1>1, <3>1, <3>3 DEF Called
  <2>5. ~Eb!return
    <3> SUFFICES ASSUME NEW frame, frames' = [frames EXCEPT ![Len(frames)] = frame] PROVE FALSE
      BY DEF Eb!return, Eb!ChangeTop
    <3>1. DOMAIN frames' = 1 .. 1
      BY <1>1
    <3> QED
      BY <1>1, <3>1
  <2>6. ~Eb!throw
    BY DEF Eb!throw
  <2> QED
    BY <2>1, <2>2, <2>3, <2>4, <2>5, <2>6 DEF Eb!Next, Eb!busVars, Eb!on, Eb!once, Eb!clear, Eb!addClient,
       Eb!Disconnect, Eb!sendTo, Eb!removeClient, Eb!send, Eb!closeAll
<1>3. ~confused /\ Eb!Ahead = {}
  BY <1>2 DEF Eb!finish
<1>4. Informed
  BY <1>0, <1>1, <1>3 DEF PassedHaveHeard
<1>5. i \in Eb!Live(registered) /\ sets[registered][i].handler = h /\ registered \in 1 .. Len(sets)
  BY <1>0 DEF Eb!EntryOf, Eb!Current, Eb!NoSet, SetTypes
<1>6. frames[1].set = registered /\ frames[1].next \in Nat /\ i \in Nat
  <2>1. frames[1] \in Frames
    BY <1>1
  <2> QED
    BY <1>0, <1>4, <1>5, <2>1, LiveEntries DEF Informed, Frames
<1>7. ~(i >= frames[1].next)
  BY <1>3, <1>5, <1>6 DEF Eb!Ahead, Eb!Top
<1>8. i < frames[1].next
  BY <1>6, <1>7
<1> QED
  BY <1>4, <1>5, <1>8 DEF Informed

\* The subscriptions that were ever made have a name each, and are as many as those.
LEMMA BusLibrary == \A S : Eb!Cardinality(S) = Cardinality(S)
BY DEF Eb!Cardinality, Cardinality

LEMMA PairsDescribed ==
  ASSUME NEW Q \in Seq(Seq(Entries))
  PROVE  \A x : x \in UNION {{s} \X DOMAIN Q[s] : s \in DOMAIN Q} <=>
                \E s \in 1 .. Len(Q) : \E i \in 1 .. Len(Q[s]) : x = <<s, i>>
<1>1. DOMAIN Q = 1 .. Len(Q) /\ \A s \in 1 .. Len(Q) : DOMAIN Q[s] = 1 .. Len(Q[s])
  OBVIOUS
<1>2. \A s : \A x : x \in {s} \X DOMAIN Q[s] <=> \E i \in DOMAIN Q[s] : x = <<s, i>>
  OBVIOUS
<1> QED
  BY <1>1, <1>2

LEMMA NamesDescribed == SetTypes => \A x :
  x \in Eb!EntryNames <=> \E s \in 1 .. Len(sets) : \E i \in 1 .. Len(sets[s]) : x = <<s, i>>
BY PairsDescribed, Zenon DEF SetTypes, Eb!EntryNames

LEMMA NamesDescribedNext == SetTypes' => \A x :
  x \in Eb!EntryNames' <=> \E s \in 1 .. Len(sets') : \E i \in 1 .. Len(sets'[s]) : x = <<s, i>>
BY PairsDescribed, Zenon DEF SetTypes, Eb!EntryNames

LEMMA NamesSame ==
  ASSUME SetTypes, SetTypes', Len(sets') = Len(sets),
         \A s \in 1 .. Len(sets) : Len(sets'[s]) = Len(sets[s])
  PROVE  Eb!EntryNames' = Eb!EntryNames
<1>1. \A x : x \in Eb!EntryNames' <=> x \in Eb!EntryNames
  BY NamesDescribed, NamesDescribedNext
<1> QED
  BY <1>1

\* Add() makes one more.
LEMMA NamesAdded ==
  ASSUME SetTypes, SetTypes', NEW h, NEW o, Eb!Add(h, o)
  PROVE  \E x : x \notin Eb!EntryNames /\ Eb!EntryNames' = Eb!EntryNames \cup {x}
<1> DEFINE entry == [handler |-> h, once |-> o, live |-> TRUE]
           n == Len(sets)
<1>0. /\ sets \in Seq(Seq(Entries)) /\ n \in Nat /\ DOMAIN sets = 1 .. n /\ registered \in 0 .. n
      /\ \A s \in 1 .. n : sets[s] \in Seq(Entries) /\ Len(sets[s]) \in Nat
  BY DEF SetTypes
<1> HIDE DEF entry
<1>1. CASE registered = 0
  <2>1. sets' = Append(sets, <<entry>>)
    BY <1>1 DEF Eb!Add, Eb!NoSet, entry
  <2>2. Len(sets') = n + 1 /\ sets'[n + 1] = <<entry>> /\ \A s \in 1 .. n : sets'[s] = sets[s]
    BY <1>0, <2>1
  <2>3. Len(sets'[n + 1]) = 1
    BY <2>2
  <2> HIDE DEF n
  <2>4. \A x : x \in Eb!EntryNames' <=> x \in Eb!EntryNames \/ x = <<n + 1, 1>>
    <3>1. ASSUME NEW x, x \in Eb!EntryNames' PROVE x \in Eb!EntryNames \/ x = <<n + 1, 1>>
      <4>0. PICK s \in 1 .. n + 1 : \E i \in 1 .. Len(sets'[s]) : x = <<s, i>>
        BY <2>2, <3>1, NamesDescribedNext
      <4>1. PICK i \in 1 .. Len(sets'[s]) : x = <<s, i>>
        BY <4>0
      <4>2. CASE s = n + 1
        <5>1. i \in 1 .. 1
          BY <2>3, <4>1, <4>2
        <5> QED
          BY <4>1, <4>2, <5>1
      <4>3. CASE s # n + 1
        <5>1. s \in 1 .. n /\ sets'[s] = sets[s]
          BY <1>0, <2>2, <4>0, <4>1, <4>3
        <5> QED
          BY <4>0, <4>1, <5>1, NamesDescribed DEF n
      <4> QED
        BY <4>2, <4>3
    <3>2. ASSUME NEW x, x \in Eb!EntryNames PROVE x \in Eb!EntryNames'
      <4>0. PICK s \in 1 .. n : \E i \in 1 .. Len(sets[s]) : x = <<s, i>>
        BY <3>2, NamesDescribed DEF n
      <4>1. PICK i \in 1 .. Len(sets[s]) : x = <<s, i>>
        BY <4>0
      <4>2. s \in 1 .. n + 1 /\ sets'[s] = sets[s]
        BY <1>0, <2>2, <4>0, <4>1
      <4> QED
        BY <2>2, <4>0, <4>1, <4>2, NamesDescribedNext
    <3>3. <<n + 1, 1>> \in Eb!EntryNames'
      <4>1. n + 1 \in 1 .. Len(sets') /\ 1 \in 1 .. Len(sets'[n + 1])
        BY <1>0, <2>2, <2>3
      <4> QED
        BY <4>1, NamesDescribedNext
    <3> QED
      BY <3>1, <3>2, <3>3
  <2>5. <<n + 1, 1>> \notin Eb!EntryNames
    BY <1>0, NamesDescribed DEF n
  <2> QED
    BY <2>4, <2>5
<1>2. CASE registered # 0
  <2> DEFINE r == registered
             k == Len(sets[r]) + 1
  <2>1. sets' = [sets EXCEPT ![r] = Append(sets[r], entry)]
    BY <1>2 DEF Eb!Add, Eb!NoSet, entry
  <2>2. r \in 1 .. n /\ k \in Nat /\ k >= 1
    BY <1>0, <1>2
  <2>3. /\ Len(sets') = n /\ Len(sets'[r]) = k /\ \A s \in 1 .. n : s # r => sets'[s] = sets[s]
    BY <1>0, <2>1, <2>2
  <2>4. Len(sets[r]) = k - 1
    BY <2>2
  <2> HIDE DEF n, k, r
  <2>5. \A x : x \in Eb!EntryNames' <=> x \in Eb!EntryNames \/ x = <<r, k>>
    <3>1. ASSUME NEW x, x \in Eb!EntryNames' PROVE x \in Eb!EntryNames \/ x = <<r, k>>
      <4>0. PICK s \in 1 .. n : \E i \in 1 .. Len(sets'[s]) : x = <<s, i>>
        BY <2>3, <3>1, NamesDescribedNext
      <4>1. PICK i \in 1 .. Len(sets'[s]) : x = <<s, i>>
        BY <4>0
      <4>2. CASE s = r /\ i = k
        BY <4>0, <4>1, <4>2
      <4>3. CASE ~(s = r /\ i = k)
        <5>1. i \in 1 .. Len(sets[s])
          BY <1>0, <2>2, <2>3, <2>4, <4>0, <4>1, <4>3
        <5> QED
          BY <4>0, <4>1, <5>1, NamesDescribed DEF n
      <4> QED
        BY <4>2, <4>3
    <3>2. ASSUME NEW x, x \in Eb!EntryNames PROVE x \in Eb!EntryNames'
      <4>0. PICK s \in 1 .. n : \E i \in 1 .. Len(sets[s]) : x = <<s, i>>
        BY <3>2, NamesDescribed DEF n
      <4>1. PICK i \in 1 .. Len(sets[s]) : x = <<s, i>>
        BY <4>0
      <4>2. i \in 1 .. Len(sets'[s])
        BY <1>0, <2>2, <2>3, <2>4, <4>0, <4>1
      <4> QED
        BY <2>3, <4>0, <4>1, <4>2, NamesDescribedNext
    <3>3. <<r, k>> \in Eb!EntryNames'
      <4>1. r \in 1 .. Len(sets') /\ k \in 1 .. Len(sets'[r])
        BY <2>2, <2>3
      <4> QED
        BY <4>1, NamesDescribedNext
    <3> QED
      BY <3>1, <3>2, <3>3
  <2>6. <<r, k>> \notin Eb!EntryNames
    <3>1. ~(k \in 1 .. Len(sets[r]))
      BY <2>2, <2>4
    <3> QED
      BY <3>1, NamesDescribed
  <2> QED
    BY <2>5, <2>6
<1> QED
  BY <1>1, <1>2

EntriesBounded == IsFiniteSet(Eb!EntryNames) /\ Cardinality(Eb!EntryNames) <= MaxSubscriptions

LEMMA EntriesInit == Eb!Init => EntriesBounded
<1> SUFFICES ASSUME Eb!Init PROVE EntriesBounded
  OBVIOUS
<1>1. Eb!EntryNames = {}
  BY DEF Eb!Init, Eb!EntryNames
<1> QED
  BY <1>1, BusConstants, FS_EmptySet DEF EntriesBounded

LEMMA EntriesNext == BusInv /\ EntriesBounded /\ [Eb!Next]_(Eb!busVars) => EntriesBounded'
<1> SUFFICES ASSUME BusInv, EntriesBounded, [Eb!Next]_(Eb!busVars) PROVE EntriesBounded'
  OBVIOUS
<1>0. SetTypes /\ SetTypes'
  BY BusNext DEF BusInv
<1>1. ASSUME UNCHANGED sets PROVE EntriesBounded'
  BY <1>1 DEF EntriesBounded, Eb!EntryNames
<1>2. ASSUME NEW h \in Handlers, Eb!on(h) \/ Eb!once(h) PROVE EntriesBounded'
  <2>1. PICK o \in BOOLEAN : Eb!Add(h, o)
    BY <1>2 DEF Eb!on, Eb!once
  <2>2. PICK x : x \notin Eb!EntryNames /\ Eb!EntryNames' = Eb!EntryNames \cup {x}
    BY <1>0, <2>1, NamesAdded
  <2>3. Cardinality(Eb!EntryNames) < MaxSubscriptions
    BY <2>1, BusLibrary DEF Eb!Add, Eb!Entries
  <2>4. /\ IsFiniteSet(Eb!EntryNames') /\ Cardinality(Eb!EntryNames') = Cardinality(Eb!EntryNames) + 1
        /\ Cardinality(Eb!EntryNames) \in Nat
    BY <2>2, FS_AddElement, FS_CardinalityType DEF EntriesBounded
  <2> QED
    BY <2>3, <2>4, BusConstants DEF EntriesBounded
<1>3. ASSUME registered # 0, NEW e \in Eb!Live(registered), Eb!Delete(e) PROVE EntriesBounded'
  <2>1. e \in 1 .. Len(sets[registered])
    BY <1>0, <1>3 DEF SetTypes, Eb!Live
  <2>2. Len(sets') = Len(sets) /\ \A s \in 1 .. Len(sets) : Len(sets'[s]) = Len(sets[s])
    BY <1>0, <1>3, <2>1, Deleting
  <2>3. Eb!EntryNames' = Eb!EntryNames
    BY <1>0, <2>2, NamesSame
  <2> QED
    BY <2>3 DEF EntriesBounded
<1>4. ASSUME NEW h \in Handlers, Eb!off(h) PROVE EntriesBounded'
  <2>1. PICK e \in Eb!EntryOf(h) : Eb!Delete(e)
    BY <1>4 DEF Eb!off
  <2>2. registered # 0 /\ e \in Eb!Live(registered)
    BY <2>1 DEF Eb!EntryOf, Eb!Current, Eb!NoSet
  <2> QED
    BY <1>3, <2>1, <2>2
<1>5. CASE Eb!call
  <2>1. PICK e \in Eb!Ahead : Eb!Unwrap(e)
    BY <1>5 DEF Eb!call
  <2>2. CASE UNCHANGED sets
    BY <1>1, <2>2
  <2>3. CASE registered = Eb!Top.set /\ Eb!Delete(e)
    <3>1. e \in Eb!Live(registered)
      BY <2>1, <2>3 DEF Eb!Ahead
    <3>2. registered # 0
      <4>1. Eb!Top.set \in 1 .. Len(sets)
        BY <1>5 DEF BusInv, FrameTypes, Eb!call, Eb!Top
      <4> QED
        BY <1>0, <2>3, <4>1 DEF SetTypes
    <3> QED
      BY <1>3, <2>3, <3>1, <3>2
  <2> QED
    BY <2>1, <2>2, <2>3 DEF Eb!Unwrap
<1> QED
  BY <1>1, <1>2, <1>4, <1>5 DEF Eb!Next, Eb!busVars, Eb!clear, Eb!emit, Eb!return, Eb!throw, Eb!finish,
     Eb!addClient, Eb!Disconnect, Eb!sendTo, Eb!removeClient, Eb!send, Eb!closeAll

LEMMA BusTypesHold == BusInv /\ EntriesBounded => Eb!TypeOK
BY BusLibrary DEF BusInv, SetTypes, ValueTypes, DepthKept, EntriesBounded, Eb!TypeOK, Eb!Entries
-----------------------------------------------------------------------------
(* TimeoutBudget: headers under way name what was left of the deadline     *)
(* they come from when they were written, their age ago; no deadline is    *)
(* further away than the time that somebody allowed at first.              *)

DeadlineRecords == [expiresAt : Nat, parent : Nat, remote : BOOLEAN, transit : Nat, cascade : Nat]
HeaderRecords == [from : Nat, remaining : Nat, cascade : Nat, age : Nat]

BudgetTypes ==
  /\ instant \in 0 .. MaxNow /\ deadlines \in Seq(DeadlineRecords) /\ headers \in HeaderRecords
  /\ tracked \in SUBSET Tb!Made /\ racing \in SUBSET Tb!Made

Rooted == \A d \in Tb!Made : deadlines[d].parent < d /\ deadlines[d].cascade < d

HeadersKnown == headers # Tb!NoHeaders =>
  /\ headers.from \in Tb!Made /\ headers.cascade < headers.from
  /\ headers.remaining = 0
     \/ headers.remaining + instant = deadlines[headers.from].expiresAt + headers.age

Allowed(n) == \E timeout \in Timeouts \cup {0} : n <= timeout
NothingFar ==
  /\ \A d \in Tb!Made : \E timeout \in Timeouts \cup {0} : deadlines[d].expiresAt <= instant + timeout
  /\ Allowed(headers.remaining)

BudgetInv == BudgetTypes /\ Rooted /\ HeadersKnown /\ NothingFar /\ Tb!ChainShrinks

LEMMA BudgetConstants ==
  /\ Timeouts \in SUBSET Nat /\ Buffer \in Nat /\ Buffer > 0
  /\ HeaderBuffer \in Nat /\ MaxTransit \in Nat /\ MaxNow \in Nat /\ MaxDeadlines \in Nat
BY DeadlinesAssumption DEF Tb!OptionsOK

LEMMA BudgetInit == Tb!Init => BudgetInv
<1> SUFFICES ASSUME Tb!Init PROVE BudgetInv
  OBVIOUS
<1> USE BudgetConstants
<1>1. instant = 0 /\ deadlines = <<>> /\ tracked = {} /\ racing = {} /\ Tb!Made = {}
  BY DEF Tb!Init, Tb!Made
<1>2. headers \in HeaderRecords /\ headers = Tb!NoHeaders /\ headers.remaining = 0
  BY DEF Tb!Init, Tb!NoHeaders, Tb!NoParent, HeaderRecords
<1>3. BudgetTypes /\ Rooted
  BY <1>1, <1>2 DEF BudgetTypes, Rooted
<1>4. HeadersKnown /\ NothingFar
  BY <1>1, <1>2 DEF HeadersKnown, NothingFar, Allowed
<1>5. Tb!ChainShrinks
  BY <1>1 DEF Tb!ChainShrinks
<1> QED
  BY <1>3, <1>4, <1>5 DEF BudgetInv

LEMMA DeadlinesMade == BudgetTypes =>
  /\ Len(deadlines) \in Nat /\ Tb!Made = 1 .. Len(deadlines)
  /\ \A d \in Tb!Made : deadlines[d] \in DeadlineRecords
BY DEF BudgetTypes, Tb!Made

\* While time stands still, what was said of the deadlines that are there still holds.
LEMMA SameDeadlines ==
  ASSUME BudgetInv, UNCHANGED <<instant, deadlines>>
  PROVE  /\ Rooted' /\ Tb!ChainShrinks' /\ Tb!Made' = Tb!Made
         /\ \A d \in Tb!Made : \E timeout \in Timeouts \cup {0} : deadlines'[d].expiresAt <= instant' + timeout
BY DEF BudgetInv, Rooted, NothingFar, Tb!ChainShrinks, Tb!isExpired, Tb!Made

\* A deadline is made, which is rooted and not far, and ends as ChainShrinks says.
Well(new, d) ==
  /\ new \in DeadlineRecords /\ new.parent < d /\ new.cascade < d
  /\ \E timeout \in Timeouts \cup {0} : new.expiresAt <= instant + timeout
  /\ new.parent # 0 /\ new.remote =>
       new.expiresAt <= deadlines[new.parent].expiresAt + (new.transit - HeaderBuffer) \/ instant >= new.expiresAt
  /\ new.parent # 0 /\ ~new.remote => new.expiresAt + Buffer <= deadlines[new.parent].expiresAt

LEMMA MakingKeeps ==
  ASSUME BudgetInv, NEW new, Well(new, Len(deadlines) + 1), deadlines' = Append(deadlines, new), instant' = instant
  PROVE  /\ deadlines' \in Seq(DeadlineRecords) /\ Tb!Made' = Tb!Made \cup {Len(deadlines) + 1}
         /\ \A d \in Tb!Made : deadlines'[d] = deadlines[d]
         /\ Rooted' /\ Tb!ChainShrinks'
         /\ \A d \in Tb!Made' : \E timeout \in Timeouts \cup {0} : deadlines'[d].expiresAt <= instant' + timeout
<1> USE BudgetConstants
<1>0. BudgetTypes /\ Rooted /\ Tb!ChainShrinks
  BY DEF BudgetInv
<1>1. /\ Len(deadlines) \in Nat /\ Tb!Made = 1 .. Len(deadlines) /\ deadlines \in Seq(DeadlineRecords)
      /\ \A d \in Tb!Made : deadlines[d] \in DeadlineRecords
  BY <1>0, DeadlinesMade DEF BudgetTypes
<1> DEFINE latest == Len(deadlines) + 1
<1>2. new \in DeadlineRecords
  BY DEF Well
<1>3. /\ deadlines' \in Seq(DeadlineRecords) /\ Len(deadlines') = latest /\ deadlines'[latest] = new
      /\ \A d \in 1 .. Len(deadlines) : deadlines'[d] = deadlines[d]
  BY <1>1, <1>2, AppendProperties
<1>4. Tb!Made' = Tb!Made \cup {latest} /\ latest \notin Tb!Made /\ latest \in Nat
  <2>1. DOMAIN deadlines' = 1 .. latest
    BY <1>3
  <2> QED
    BY <1>1, <2>1 DEF Tb!Made
<1> HIDE DEF latest
<1>5. Rooted'
  BY <1>0, <1>1, <1>3, <1>4 DEF Rooted, Well, latest
<1>6. \A d \in Tb!Made' : \E timeout \in Timeouts \cup {0} : deadlines'[d].expiresAt <= instant' + timeout
  <2>1. \A d \in Tb!Made : \E timeout \in Timeouts \cup {0} : deadlines'[d].expiresAt <= instant' + timeout
    BY <1>1, <1>3 DEF BudgetInv, NothingFar
  <2>2. \E timeout \in Timeouts \cup {0} : deadlines'[latest].expiresAt <= instant' + timeout
    BY <1>3 DEF Well
  <2> QED
    BY <1>4, <2>1, <2>2
<1>7. Tb!ChainShrinks'
  <2> SUFFICES ASSUME NEW d \in Tb!Made', deadlines'[d].parent # 0
               PROVE  IF deadlines'[d].remote
                      THEN \/ deadlines'[d].expiresAt <=
                                deadlines'[deadlines'[d].parent].expiresAt + (deadlines'[d].transit - HeaderBuffer)
                           \/ instant >= deadlines'[d].expiresAt
                      ELSE deadlines'[d].expiresAt + Buffer <= deadlines'[deadlines'[d].parent].expiresAt
    BY DEF Tb!ChainShrinks, Tb!NoParent, Tb!isExpired
  <2>1. CASE d \in Tb!Made
    <3>1. deadlines'[d] = deadlines[d]
      BY <1>1, <1>3, <2>1
    <3>2. deadlines[d].parent \in Tb!Made
      <4>1. deadlines[d].parent \in Nat /\ deadlines[d].parent < d
        BY <1>0, <1>1, <2>1 DEF Rooted, DeadlineRecords
      <4> QED
        BY <1>1, <2>1, <3>1, <4>1
    <3>3. deadlines'[deadlines[d].parent] = deadlines[deadlines[d].parent]
      BY <1>1, <1>3, <3>2
    <3> QED
      BY <1>0, <2>1, <3>1, <3>3 DEF Tb!ChainShrinks, Tb!NoParent, Tb!isExpired
  <2>2. CASE d = latest
    <3>1. deadlines'[d] = new
      BY <1>3, <2>2
    <3>2. new.parent \in Tb!Made
      <4>1. new.parent \in Nat /\ new.parent < latest
        BY <1>2 DEF Well, DeadlineRecords, latest
      <4> QED
        BY <1>1, <3>1, <4>1 DEF latest
    <3>3. deadlines'[new.parent] = deadlines[new.parent]
      BY <1>1, <1>3, <3>2
    <3> QED
      BY <3>1, <3>3 DEF Well
  <2> QED
    BY <1>4, <2>1, <2>2
<1> QED
  BY <1>3, <1>1, <1>4, <1>5, <1>6, <1>7 DEF latest

LEMMA RemainingTime ==
  ASSUME BudgetInv, NEW d \in Tb!Made
  PROVE  /\ deadlines[d].expiresAt \in Nat /\ instant \in Nat /\ Tb!remainingMs(d) \in Nat
         /\ Tb!remainingMs(d) > 0 => Tb!remainingMs(d) + instant = deadlines[d].expiresAt
         /\ Allowed(Tb!remainingMs(d))
<1> USE BudgetConstants
<1>1. deadlines[d] \in DeadlineRecords /\ instant \in Nat
  BY DeadlinesMade DEF BudgetInv, BudgetTypes
<1>2. deadlines[d].expiresAt \in Nat
  BY <1>1 DEF DeadlineRecords
<1>3. /\ Tb!remainingMs(d) \in Nat
      /\ Tb!remainingMs(d) > 0 => Tb!remainingMs(d) + instant = deadlines[d].expiresAt
  BY <1>1, <1>2 DEF Tb!remainingMs, Tb!Positive
<1>4. PICK timeout \in Timeouts \cup {0} : deadlines[d].expiresAt <= instant + timeout
  BY DEF BudgetInv, NothingFar
<1>5. timeout \in Nat
  BY <1>4
<1>6. Tb!remainingMs(d) <= timeout
  BY <1>1, <1>2, <1>3, <1>4, <1>5
<1> QED
  BY <1>1, <1>2, <1>3, <1>4, <1>6 DEF Allowed

LEMMA FirstKeeps ==
  ASSUME BudgetInv, NEW timeout \in Timeouts, Tb!Create(timeout)
  PROVE  BudgetInv'
<1> USE BudgetConstants
<1>0. BudgetTypes /\ NothingFar
  BY DEF BudgetInv
<1> DEFINE latest == Len(deadlines) + 1
           new == [expiresAt |-> instant + timeout, parent |-> 0, remote |-> FALSE, transit |-> 0, cascade |-> 0]
<1>1. /\ Tb!Made = {} /\ deadlines' = Append(deadlines, new) /\ tracked' = {latest}
      /\ UNCHANGED <<instant, headers, racing>>
  BY DEF Tb!Create, Tb!New, Tb!Latest, Tb!NoParent
<1>2. instant \in Nat /\ timeout \in Nat /\ Len(deadlines) \in Nat
  BY <1>0, DeadlinesMade DEF BudgetTypes
<1>3. Well(new, latest)
  BY <1>2 DEF Well, DeadlineRecords
<1> HIDE DEF new
<1>4. /\ deadlines' \in Seq(DeadlineRecords) /\ Tb!Made' = Tb!Made \cup {latest}
      /\ Rooted' /\ Tb!ChainShrinks'
      /\ \A d \in Tb!Made' : \E t \in Timeouts \cup {0} : deadlines'[d].expiresAt <= instant' + t
  BY <1>1, <1>3, MakingKeeps
<1>5. BudgetTypes'
  BY <1>0, <1>1, <1>4 DEF BudgetTypes
<1>6. HeadersKnown' /\ NothingFar'
  BY <1>0, <1>1, <1>4 DEF BudgetInv, HeadersKnown, NothingFar, Allowed
<1> QED
  BY <1>4, <1>5, <1>6 DEF BudgetInv

LEMMA DownstreamKeeps ==
  ASSUME BudgetInv, NEW p \in Tb!Made, Tb!CreateDownstream(p)
  PROVE  BudgetInv'
<1> USE BudgetConstants
<1>0. BudgetTypes /\ NothingFar /\ Rooted /\ HeadersKnown
  BY DEF BudgetInv
<1> DEFINE latest == Len(deadlines) + 1
           new == [expiresAt |-> instant + (Tb!remainingMs(p) - Buffer), parent |-> p, remote |-> FALSE,
                   transit |-> 0, cascade |-> deadlines[p].cascade + 1]
<1>1. /\ Tb!remainingMs(p) > Buffer /\ deadlines' = Append(deadlines, new)
      /\ tracked' \subseteq tracked \cup {latest} /\ UNCHANGED <<instant, headers, racing>>
  BY DEF Tb!CreateDownstream, Tb!New, Tb!Latest
<1>2. /\ deadlines[p].expiresAt \in Nat /\ instant \in Nat /\ Tb!remainingMs(p) \in Nat
      /\ Tb!remainingMs(p) + instant = deadlines[p].expiresAt
  BY <1>1, RemainingTime
<1>3. /\ instant + (Tb!remainingMs(p) - Buffer) = deadlines[p].expiresAt - Buffer
      /\ deadlines[p].expiresAt - Buffer \in Nat
  BY <1>1, <1>2
<1>4. /\ Len(deadlines) \in Nat /\ p \in Nat /\ p # 0 /\ p < latest /\ deadlines[p].cascade \in Nat
      /\ deadlines[p].cascade < p
  BY <1>0, DeadlinesMade DEF Rooted, DeadlineRecords
<1>5. new \in DeadlineRecords /\ new.parent = p /\ ~new.remote /\ new.cascade = deadlines[p].cascade + 1
      /\ new.expiresAt = deadlines[p].expiresAt - Buffer
  BY <1>3, <1>4 DEF DeadlineRecords
<1> HIDE DEF new
<1>6. Well(new, latest)
  <2>1. PICK timeout \in Timeouts \cup {0} : deadlines[p].expiresAt <= instant + timeout
    BY <1>0 DEF NothingFar
  <2>2. new.expiresAt <= instant + timeout /\ timeout \in Nat
    BY <1>2, <1>5, <2>1
  <2>3. new.parent < latest /\ new.cascade < latest
    BY <1>4, <1>5
  <2>4. new.expiresAt + Buffer <= deadlines[new.parent].expiresAt
    BY <1>2, <1>5
  <2> QED
    BY <1>5, <2>1, <2>2, <2>3, <2>4 DEF Well
<1>7. /\ deadlines' \in Seq(DeadlineRecords) /\ Tb!Made' = Tb!Made \cup {latest}
      /\ \A d \in Tb!Made : deadlines'[d] = deadlines[d]
      /\ Rooted' /\ Tb!ChainShrinks'
      /\ \A d \in Tb!Made' : \E t \in Timeouts \cup {0} : deadlines'[d].expiresAt <= instant' + t
  BY <1>1, <1>6, MakingKeeps
<1>8. BudgetTypes'
  BY <1>0, <1>1, <1>7 DEF BudgetTypes
<1>9. HeadersKnown' /\ NothingFar'
  BY <1>0, <1>1, <1>7 DEF HeadersKnown, NothingFar, Allowed
<1> QED
  BY <1>7, <1>8, <1>9 DEF BudgetInv

LEMMA ToHeadersKeeps ==
  ASSUME BudgetInv, NEW p \in Tb!Made, Tb!ToHeaders(p)
  PROVE  BudgetInv'
<1> USE BudgetConstants
<1>0. BudgetTypes /\ NothingFar /\ Rooted
  BY DEF BudgetInv
<1> DEFINE new == [from |-> p, remaining |-> Tb!remainingMs(p), cascade |-> deadlines[p].cascade, age |-> 0]
<1>1. headers' = new /\ UNCHANGED <<instant, deadlines, tracked, racing>>
  BY DEF Tb!ToHeaders
<1>2. /\ deadlines[p].expiresAt \in Nat /\ instant \in Nat /\ Tb!remainingMs(p) \in Nat
      /\ Tb!remainingMs(p) > 0 => Tb!remainingMs(p) + instant = deadlines[p].expiresAt
      /\ Allowed(Tb!remainingMs(p))
  BY RemainingTime
<1>3. p \in Nat /\ deadlines[p].cascade \in Nat /\ deadlines[p].cascade < p
  BY <1>0, DeadlinesMade DEF Rooted, DeadlineRecords
<1>4. new \in HeaderRecords /\ new.from = p /\ new.remaining = Tb!remainingMs(p)
      /\ new.cascade = deadlines[p].cascade /\ new.age = 0
  BY <1>2, <1>3 DEF HeaderRecords
<1> HIDE DEF new
<1>5. Rooted' /\ Tb!ChainShrinks' /\ Tb!Made' = Tb!Made
  BY <1>1, SameDeadlines
<1>6. BudgetTypes'
  BY <1>0, <1>1, <1>4, <1>5 DEF BudgetTypes
<1>7. HeadersKnown'
  BY <1>1, <1>2, <1>3, <1>4, <1>5 DEF HeadersKnown
<1>8. NothingFar'
  BY <1>0, <1>1, <1>2, <1>4, <1>5 DEF NothingFar, Allowed
<1> QED
  BY <1>5, <1>6, <1>7, <1>8 DEF BudgetInv

LEMMA FromHeadersKeeps ==
  ASSUME BudgetInv, Tb!FromHeaders
  PROVE  BudgetInv'
<1> USE BudgetConstants
<1>0. BudgetTypes /\ NothingFar /\ Rooted /\ HeadersKnown
  BY DEF BudgetInv
<1> DEFINE latest == Len(deadlines) + 1
           p == headers.from
           time == Tb!Positive(headers.remaining - HeaderBuffer)
           new == [expiresAt |-> instant + time, parent |-> p, remote |-> TRUE,
                   transit |-> headers.age, cascade |-> headers.cascade + 1]
<1>1. /\ headers # Tb!NoHeaders /\ deadlines' = Append(deadlines, new)
      /\ headers' = Tb!NoHeaders /\ UNCHANGED <<instant, tracked, racing>>
  BY DEF Tb!FromHeaders, Tb!New
<1>2. /\ p \in Tb!Made /\ headers.cascade < p
      /\ headers.remaining = 0 \/ headers.remaining + instant = deadlines[p].expiresAt + headers.age
  BY <1>0, <1>1 DEF HeadersKnown
<1>3. /\ headers.remaining \in Nat /\ headers.cascade \in Nat /\ headers.age \in Nat /\ instant \in Nat
      /\ deadlines[p].expiresAt \in Nat
  BY <1>0, <1>2, RemainingTime DEF BudgetTypes, HeaderRecords
<1>4. time \in Nat /\ time <= headers.remaining /\ (time = 0 \/ time = headers.remaining - HeaderBuffer)
  BY <1>3 DEF Tb!Positive
<1>5. Len(deadlines) \in Nat /\ p \in Nat /\ p < latest
  BY <1>0, <1>2, DeadlinesMade
<1> HIDE DEF time, p
<1>6. new \in DeadlineRecords /\ new.parent = p /\ new.remote /\ new.cascade = headers.cascade + 1
      /\ new.expiresAt = instant + time /\ new.transit = headers.age
  BY <1>3, <1>4, <1>5 DEF DeadlineRecords
<1> HIDE DEF new
<1>7. Well(new, latest)
  <2>1. PICK timeout \in Timeouts \cup {0} : headers.remaining <= timeout
    BY <1>0 DEF NothingFar, Allowed
  <2>2. new.expiresAt <= instant + timeout
    <3>1. timeout \in Nat
      BY <2>1
    <3> QED
      BY <1>3, <1>4, <1>6, <2>1, <3>1
  <2>3. new.parent < latest /\ new.cascade < latest
    BY <1>2, <1>3, <1>5, <1>6
  <2>4. new.expiresAt <= deadlines[p].expiresAt + (headers.age - HeaderBuffer) \/ instant >= new.expiresAt
    BY <1>2, <1>3, <1>4, <1>6
  <2> QED
    BY <1>6, <2>1, <2>2, <2>3, <2>4 DEF Well
<1>8. /\ deadlines' \in Seq(DeadlineRecords) /\ Tb!Made' = Tb!Made \cup {latest}
      /\ Rooted' /\ Tb!ChainShrinks'
      /\ \A d \in Tb!Made' : \E t \in Timeouts \cup {0} : deadlines'[d].expiresAt <= instant' + t
  BY <1>1, <1>7, MakingKeeps
<1>9. headers' \in HeaderRecords /\ headers'.remaining = 0
  BY <1>1 DEF Tb!NoHeaders, Tb!NoParent, HeaderRecords
<1>10. BudgetTypes'
  BY <1>0, <1>1, <1>8, <1>9 DEF BudgetTypes
<1>11. HeadersKnown'
  BY <1>1 DEF HeadersKnown, Tb!NoHeaders
<1>12. NothingFar'
  BY <1>8, <1>9 DEF NothingFar, Allowed
<1> QED
  BY <1>8, <1>10, <1>11, <1>12 DEF BudgetInv

\* The headers arrive where the deadline is known, or not at all.
LEMMA FindKeeps ==
  ASSUME BudgetInv, Tb!FindTracked
  PROVE  BudgetInv'
<1>0. BudgetTypes /\ NothingFar
  BY DEF BudgetInv
<1>1. headers' = Tb!NoHeaders /\ UNCHANGED <<instant, deadlines, tracked, racing>>
  BY DEF Tb!FindTracked
<1>2. headers' \in HeaderRecords /\ headers'.remaining = 0
  BY <1>1 DEF Tb!NoHeaders, Tb!NoParent, HeaderRecords
<1>3. Rooted' /\ Tb!ChainShrinks' /\ Tb!Made' = Tb!Made
  BY <1>1, SameDeadlines
<1>4. BudgetTypes'
  BY <1>0, <1>1, <1>2, <1>3 DEF BudgetTypes
<1>5. HeadersKnown' /\ NothingFar'
  BY <1>0, <1>1, <1>2, <1>3 DEF HeadersKnown, NothingFar, Allowed, Tb!NoHeaders
<1> QED
  BY <1>3, <1>4, <1>5 DEF BudgetInv

\* Races and the clean-up of what has expired leave the deadlines alone.
LEMMA BookkeepingKeeps ==
  ASSUME BudgetInv, UNCHANGED <<instant, deadlines, headers>>,
         tracked' \subseteq tracked, racing' \subseteq Tb!Made
  PROVE  BudgetInv'
<1>0. BudgetTypes /\ NothingFar /\ HeadersKnown
  BY DEF BudgetInv
<1>1. Rooted' /\ Tb!ChainShrinks' /\ Tb!Made' = Tb!Made
  BY SameDeadlines
<1>2. BudgetTypes'
  BY <1>0, <1>1 DEF BudgetTypes
<1>3. HeadersKnown' /\ NothingFar'
  BY <1>0, <1>1 DEF HeadersKnown, NothingFar, Allowed, Tb!NoHeaders
<1> QED
  BY <1>1, <1>2, <1>3 DEF BudgetInv

\* What has expired stays so, and headers under way grow older with the clock.
LEMMA BudgetTickKeeps ==
  ASSUME BudgetInv, Tb!Tick
  PROVE  BudgetInv'
<1> USE BudgetConstants
<1>0. BudgetTypes /\ NothingFar /\ HeadersKnown /\ Rooted /\ Tb!ChainShrinks
  BY DEF BudgetInv
<1>1. /\ instant < MaxNow /\ instant' = instant + 1 /\ UNCHANGED <<deadlines, tracked, racing>>
      /\ headers = Tb!NoHeaders => headers' = headers
      /\ headers # Tb!NoHeaders => headers' = [headers EXCEPT !.age = headers.age + 1]
  BY DEF Tb!Tick
<1>2. /\ instant \in Nat /\ instant' \in 0 .. MaxNow /\ headers \in HeaderRecords
      /\ headers.remaining \in Nat /\ headers.age \in Nat
  BY <1>0, <1>1 DEF BudgetTypes, HeaderRecords
<1>3. Tb!Made' = Tb!Made
  BY <1>1 DEF Tb!Made
<1>4. \A d \in Tb!Made : deadlines[d].expiresAt \in Nat
  BY RemainingTime
<1>5. /\ headers' \in HeaderRecords /\ headers'.from = headers.from
      /\ headers'.remaining = headers.remaining /\ headers'.cascade = headers.cascade
      /\ headers # Tb!NoHeaders => headers'.age = headers.age + 1
  BY <1>1, <1>2 DEF HeaderRecords
<1>6. BudgetTypes'
  BY <1>0, <1>1, <1>2, <1>3, <1>5 DEF BudgetTypes
<1>7. Rooted'
  BY <1>0, <1>1, <1>3 DEF Rooted
<1>8. HeadersKnown'
  <2> SUFFICES ASSUME headers' # Tb!NoHeaders
               PROVE  /\ headers'.from \in Tb!Made /\ headers'.cascade < headers'.from
                      /\ headers'.remaining = 0
                         \/ headers'.remaining + instant' = deadlines[headers'.from].expiresAt + headers'.age
    BY <1>1, <1>3 DEF HeadersKnown, Tb!NoHeaders, Tb!NoParent
  <2>1. headers # Tb!NoHeaders
    BY <1>1
  <2>2. /\ headers.from \in Tb!Made /\ headers.cascade < headers.from
        /\ headers.remaining = 0 \/ headers.remaining + instant = deadlines[headers.from].expiresAt + headers.age
    BY <1>0, <2>1 DEF HeadersKnown
  <2>3. deadlines[headers.from].expiresAt \in Nat
    BY <1>4, <2>2
  <2> QED
    BY <1>1, <1>2, <1>5, <2>1, <2>2, <2>3
<1>9. NothingFar'
  <2>1. ASSUME NEW d \in Tb!Made
        PROVE  \E timeout \in Timeouts \cup {0} : deadlines[d].expiresAt <= instant' + timeout
    <3>1. PICK timeout \in Timeouts \cup {0} : deadlines[d].expiresAt <= instant + timeout
      BY <1>0 DEF NothingFar
    <3>2. timeout \in Nat /\ deadlines[d].expiresAt \in Nat
      BY <1>4, <3>1
    <3> QED
      BY <1>1, <1>2, <3>1, <3>2
  <2> QED
    BY <1>0, <1>1, <1>3, <1>5, <2>1 DEF NothingFar, Allowed
<1>10. Tb!ChainShrinks'
  <2>1. \A d \in Tb!Made : Tb!isExpired(d) => instant' >= deadlines[d].expiresAt
    BY <1>1, <1>2, <1>4 DEF Tb!isExpired
  <2> QED
    BY <1>0, <1>1, <1>3, <2>1 DEF Tb!ChainShrinks, Tb!isExpired
<1> QED
  BY <1>6, <1>7, <1>8, <1>9, <1>10 DEF BudgetInv

LEMMA BudgetNext == BudgetInv /\ [Tb!Next]_(Tb!budgetVars) => BudgetInv'
<1> SUFFICES ASSUME BudgetInv, [Tb!Next]_(Tb!budgetVars) PROVE BudgetInv'
  OBVIOUS
<1>0. racing \subseteq Tb!Made
  BY DEF BudgetInv, BudgetTypes
<1>1. ASSUME NEW timeout \in Timeouts, Tb!Create(timeout) PROVE BudgetInv'
  BY <1>1, FirstKeeps
<1>2. ASSUME NEW d \in Tb!Made, Tb!CreateDownstream(d) PROVE BudgetInv'
  BY <1>2, DownstreamKeeps
<1>3. ASSUME NEW d \in Tb!Made, Tb!ToHeaders(d) PROVE BudgetInv'
  BY <1>3, ToHeadersKeeps
<1>4. ASSUME NEW d \in Tb!Made, Tb!Race(d) PROVE BudgetInv'
  BY <1>0, <1>4, BookkeepingKeeps DEF Tb!Race
<1>5. ASSUME NEW d \in Tb!Made, Tb!RaceEnds(d) PROVE BudgetInv'
  BY <1>0, <1>5, BookkeepingKeeps DEF Tb!RaceEnds
<1>6. CASE Tb!FromHeaders
  BY <1>6, FromHeadersKeeps
<1>7. CASE Tb!FindTracked
  BY <1>7, FindKeeps
<1>8. CASE Tb!Cleanup
  BY <1>0, <1>8, BookkeepingKeeps DEF Tb!Cleanup
<1>9. CASE Tb!Tick
  BY <1>9, BudgetTickKeeps
<1>10. CASE UNCHANGED Tb!budgetVars
  BY <1>0, <1>10, BookkeepingKeeps DEF Tb!budgetVars
<1> QED
  BY <1>1, <1>2, <1>3, <1>4, <1>5, <1>6, <1>7, <1>8, <1>9, <1>10 DEF Tb!Next

\* A call above one that has time left has the buffer more: the calls that end the
\* buffer after it, and itself, are a chain that no step to a parent leaves.
LEMMA TimeAbove ==
  ASSUME BudgetInv, NEW d \in Tb!Made, ~Tb!isExpired(d), NEW a \in Tb!Above(d)
  PROVE  Tb!remainingMs(a) > Buffer
<1> USE BudgetConstants
<1>0. Rooted /\ Tb!ChainShrinks /\ instant \in Nat
  BY DEF BudgetInv, BudgetTypes
<1>1. \A e \in Tb!Made : deadlines[e].expiresAt \in Nat
  BY RemainingTime
<1> DEFINE lower == {d} \cup {e \in Tb!Made : deadlines[d].expiresAt + Buffer <= deadlines[e].expiresAt}
<1>2. ASSUME NEW e \in lower, Tb!InPlace(e)
      PROVE  deadlines[e].parent \in lower
  <2>1. e \in Tb!Made /\ e \in Nat
    BY DeadlinesMade DEF BudgetInv
  <2>2. deadlines[e].expiresAt + Buffer <= deadlines[deadlines[e].parent].expiresAt /\ deadlines[e].parent # 0
    BY <1>0, <1>2, <2>1 DEF Tb!ChainShrinks, Tb!InPlace, Tb!NoParent
  <2>3. deadlines[e].parent \in Nat /\ deadlines[e].parent < e
    BY <1>0, <2>1, DeadlinesMade DEF BudgetInv, Rooted, DeadlineRecords
  <2>4. deadlines[e].parent \in Tb!Made
    BY <2>1, <2>2, <2>3, DeadlinesMade DEF BudgetInv
  <2>5. e = d \/ deadlines[d].expiresAt + Buffer <= deadlines[e].expiresAt
    OBVIOUS
  <2>6. deadlines[d].expiresAt <= deadlines[e].expiresAt
    <3>1. deadlines[d].expiresAt \in Nat /\ deadlines[e].expiresAt \in Nat
      BY <1>1, <2>1
    <3> QED
      BY <2>5, <3>1
  <2>7. deadlines[d].expiresAt + Buffer <= deadlines[deadlines[e].parent].expiresAt
    <3>1. /\ deadlines[d].expiresAt \in Nat /\ deadlines[e].expiresAt \in Nat
          /\ deadlines[deadlines[e].parent].expiresAt \in Nat
      BY <1>1, <2>1, <2>4
    <3> HIDE DEF lower
    <3> QED
      BY <2>2, <2>6, <3>1
  <2> QED
    BY <2>4, <2>7
<1>3. a \in Tb!Made /\ a # d /\ a \in lower
  BY <1>2 DEF Tb!Above
<1>4. deadlines[d].expiresAt + Buffer <= deadlines[a].expiresAt /\ instant < deadlines[d].expiresAt
  BY <1>0, <1>1, <1>3 DEF Tb!isExpired
<1> QED
  BY <1>0, <1>1, <1>3, <1>4 DEF Tb!remainingMs, Tb!Positive

LEMMA BudgetFails ==
  ASSUME BudgetInv, Tb!Next
  PROVE  /\ \A d \in racing' \ racing : \A a \in Tb!Above(d) : Tb!remainingMs(a) > Buffer
         /\ Tb!Latest' > Tb!Latest =>
              LET new == deadlines'[Tb!Latest]
              IN  new.parent = Tb!NoParent \/ new.remote \/ ~Tb!isExpired(new.parent)
<1> USE BudgetConstants
<1>0. /\ Len(deadlines) \in Nat /\ deadlines \in Seq(DeadlineRecords) /\ Tb!Latest = Len(deadlines) + 1
  BY DeadlinesMade DEF BudgetInv, BudgetTypes, Tb!Latest
<1>1. ASSUME NEW d \in racing' \ racing, NEW a \in Tb!Above(d)
      PROVE  Tb!remainingMs(a) > Buffer
  <2>1. \/ d \in Tb!Made /\ Tb!Race(d)
        \/ racing' \subseteq racing
    BY DEF Tb!Next, Tb!Create, Tb!CreateDownstream, Tb!ToHeaders, Tb!FromHeaders, Tb!FindTracked, Tb!Race,
      Tb!RaceEnds, Tb!Cleanup, Tb!Tick
  <2> QED
    BY <2>1, TimeAbove DEF Tb!Race
<1> DEFINE Timely(new) == new.parent = 0 \/ new.remote \/ ~Tb!isExpired(new.parent)
<1>2. \/ deadlines' = deadlines
      \/ \E new : deadlines' = Append(deadlines, new) /\ Timely(new)
  <2>1. ASSUME NEW timeout \in Timeouts, Tb!Create(timeout)
        PROVE  \E new : deadlines' = Append(deadlines, new) /\ Timely(new)
    BY <2>1 DEF Tb!Create, Tb!New, Tb!NoParent
  <2>2. ASSUME NEW p \in Tb!Made, Tb!CreateDownstream(p)
        PROVE  \E new : deadlines' = Append(deadlines, new) /\ Timely(new)
    <3>1. ~Tb!isExpired(p)
      BY <2>2, RemainingTime DEF Tb!CreateDownstream, Tb!remainingMs, Tb!Positive, Tb!isExpired
    <3> QED
      BY <2>2, <3>1 DEF Tb!CreateDownstream, Tb!New
  <2>3. ASSUME Tb!FromHeaders
        PROVE  \E new : deadlines' = Append(deadlines, new) /\ Timely(new)
    BY <2>3 DEF Tb!FromHeaders, Tb!New
  <2> QED
    BY <2>1, <2>2, <2>3 DEF Tb!Next, Tb!ToHeaders, Tb!FindTracked, Tb!Race, Tb!RaceEnds, Tb!Cleanup, Tb!Tick
<1>3. ASSUME Tb!Latest' > Tb!Latest
      PROVE  Timely(deadlines'[Tb!Latest])
  <2>1. deadlines' # deadlines
    BY <1>0, <1>3 DEF Tb!Latest
  <2>2. PICK new : deadlines' = Append(deadlines, new) /\ Timely(new)
    BY <1>2, <2>1
  <2>3. deadlines'[Tb!Latest] = new
    BY <1>0, <2>2
  <2> QED
    BY <2>2, <2>3
<1> QED
  BY <1>1, <1>3 DEF Tb!NoParent

LEMMA BudgetTypesHold == BudgetInv => Tb!TypeOK
<1> SUFFICES ASSUME BudgetInv PROVE Tb!TypeOK
  OBVIOUS
<1> USE BudgetConstants
<1>0. instant \in 0 .. MaxNow /\ tracked \subseteq Tb!Made /\ racing \subseteq Tb!Made /\ Rooted
  BY DEF BudgetInv, BudgetTypes
<1> DEFINE budgets == {Tb!remainingMs(d) : d \in tracked}
<1>1. Tb!RemainingBudget \in Nat /\ \E timeout \in Timeouts \cup {0} : Tb!RemainingBudget <= timeout
  <2>1. CASE tracked = {}
    BY <2>1 DEF Tb!RemainingBudget
  <2>2. CASE tracked # {}
    <3>1. budgets \in SUBSET Nat /\ budgets # {}
      BY <1>0, <2>2, RemainingTime
    <3>2. \E n \in budgets : \A m \in budgets : n <= m
      BY <3>1, Smallest
    <3>3. Tb!Min(budgets) \in budgets
      BY <3>2 DEF Tb!Min
    <3>4. Tb!RemainingBudget = Tb!Min(budgets)
      BY <2>2 DEF Tb!RemainingBudget
    <3>5. PICK d \in tracked : Tb!RemainingBudget = Tb!remainingMs(d)
      BY <3>3, <3>4
    <3>6. Tb!remainingMs(d) \in Nat /\ Allowed(Tb!remainingMs(d))
      BY <1>0, <3>5, RemainingTime
    <3> QED
      BY <3>5, <3>6 DEF Allowed
  <2> QED
    BY <2>1, <2>2
<1> QED
  BY <1>0, <1>1 DEF Tb!TypeOK, Rooted
-----------------------------------------------------------------------------
(* Retrying: how often a loop has tried goes with its attempt number, and  *)
(* with the stage that it is in.                                           *)

\* What Retryable() says for a loop of some kind.
Repeats(k, error) ==
  \/ k = "policy"
  \/ k = "engine" /\ error.code \in {"ECONNRESET", "DEPENDENCY_ERROR"}
  \/ k \notin {"policy", "engine"} /\ Rt!isRetryableError(error)

LoopFields == {"stage", "attempt", "wait", "tries", "error"}

\* A loop of kind k whose deadline is n ticks away.
LoopOK(l, k, n) ==
  /\ DOMAIN l = LoopFields /\ l.attempt \in 0 .. MaxRetries /\ l.tries \in Nat
  /\ l.stage \in {"idle", "ready", "running", "waiting", "succeeded", "failed", "stopped"}
  /\ k = "engine" => l.wait \in Nat
  /\ k = "client" => l.attempt = 0 /\ l.stage # "waiting"
  /\ l.stage \in {"idle", "ready", "waiting"} => l.tries = l.attempt
  /\ l.stage \in {"running", "succeeded"} => l.tries = l.attempt + 1
  /\ l.stage = "failed" => l.tries <= l.attempt + 1
  /\ l.stage = "failed" /\ Repeats(k, l.error) => l.tries = MaxRetries + 1 \/ l.error = Rt!Unavailable
  /\ l.stage = "stopped" => k = "engine" /\ l.tries <= MaxRetries
  /\ k = "engine" /\ l.stage = "waiting" /\ l.wait > 0 => l.wait < n

RetryInv ==
  /\ kind \in [Retriers -> Rt!Kinds] /\ left \in [Retriers -> 0 .. Deadline] /\ DOMAIN loops = Retriers
  /\ \A c \in Retriers : LoopOK(loops[c], kind[c], left[c])

LEMMA RetryConstants ==
  MaxRetries \in Nat /\ Deadline \in Nat /\ MaxDelay \in Nat
BY RetriesAssumption DEF Rt!OptionsOK

LEMMA RepeatsRetryable ==
  ASSUME kind \in [Retriers -> Rt!Kinds], NEW c \in Retriers, NEW error
  PROVE  Rt!Retryable(c, error) <=> Repeats(kind[c], error)
BY DEF Rt!Kinds, Rt!Retryable, Repeats

\* The client repeats nothing that it can meet.
LEMMA ClientErrors ==
  ASSUME NEW c \in Retriers, kind[c] = "client",
         NEW error \in Rt!OperationErrors(c) \cup {Rt!ServerError, Rt!Open}
  PROVE  ~Repeats(kind[c], error)
<1>1. error \in {Rt!Unnamed, Rt!Error(TRUE, "RATE_LIMIT_EXCEEDED"), Rt!ServerError, Rt!Open}
  BY DEF Rt!OperationErrors
<1>2. ~error.nofault \/ error.code \in {"RATE_LIMIT_EXCEEDED", "SERVER_ERROR"}
  <2>1. ~Rt!Unnamed.nofault /\ ~Rt!Open.nofault
    BY Zenon DEF Rt!Unnamed, Rt!Open, Rt!Error
  <2>2. Rt!ServerError.code = "SERVER_ERROR" /\ Rt!Error(TRUE, "RATE_LIMIT_EXCEEDED").code = "RATE_LIMIT_EXCEEDED"
    BY DEF Rt!ServerError, Rt!Error
  <2> QED
    BY <1>1, <2>1, <2>2
<1> QED
  BY <1>2 DEF Repeats, Rt!isRetryableError

LEMMA RetryInit == Rt!Init => RetryInv
<1> SUFFICES ASSUME Rt!Init PROVE RetryInv
  OBVIOUS
<1>1. /\ kind \in [Retriers -> Rt!Kinds] /\ left \in [Retriers -> 0 .. Deadline] /\ DOMAIN loops = Retriers
      /\ \A c \in Retriers : loops[c] = Rt!Idle
  BY RetryConstants DEF Rt!Init
<1>2. ASSUME NEW c \in Retriers
      PROVE  LoopOK(Rt!Idle, kind[c], left[c])
  BY RetryConstants DEF LoopOK, LoopFields, Rt!Idle
<1> QED
  BY <1>1, <1>2 DEF RetryInv

\* A step of one loop leaves the others as they are.
LEMMA LoopStep ==
  ASSUME RetryInv, NEW c \in Retriers, UNCHANGED <<kind, left>>, DOMAIN loops' = Retriers,
         \A o \in Retriers \ {c} : loops'[o] = loops[o], LoopOK(loops'[c], kind[c], left[c])
  PROVE  RetryInv'
<1>1. ASSUME NEW o \in Retriers
      PROVE  LoopOK(loops'[o], kind[o], left[o])
  <2>1. CASE o = c
    BY <2>1
  <2>2. CASE o # c
    BY <2>2 DEF RetryInv
  <2> QED
    BY <2>1, <2>2
<1> QED
  BY <1>1 DEF RetryInv

\* The loop goes to another stage, with an error.
LEMMA ToStage ==
  ASSUME RetryInv, NEW c \in Retriers, NEW stage, NEW error, Rt!To(c, stage, error)
  PROVE  /\ DOMAIN loops' = Retriers /\ \A o \in Retriers \ {c} : loops'[o] = loops[o]
         /\ DOMAIN loops'[c] = LoopFields /\ loops'[c].stage = stage /\ loops'[c].error = error
         /\ loops'[c].attempt = loops[c].attempt /\ loops'[c].wait = loops[c].wait
         /\ loops'[c].tries = loops[c].tries
<1>1. DOMAIN loops = Retriers /\ DOMAIN loops[c] = LoopFields
  BY DEF RetryInv, LoopOK
<1> DEFINE new == [[loops[c] EXCEPT !.stage = stage] EXCEPT !.error = error]
<1>2. loops' = [loops EXCEPT ![c] = new]
  BY <1>1 DEF Rt!To
<1>3. /\ DOMAIN new = LoopFields /\ new.stage = stage /\ new.error = error
      /\ new.attempt = loops[c].attempt /\ new.wait = loops[c].wait /\ new.tries = loops[c].tries
  BY <1>1 DEF LoopFields
<1> HIDE DEF new
<1> QED
  BY <1>1, <1>2, <1>3

LEMMA StartTries ==
  ASSUME RetryInv, NEW c \in Retriers, Rt!Start(c), loops[c].stage = "ready"
  PROVE  /\ DOMAIN loops' = Retriers /\ \A o \in Retriers \ {c} : loops'[o] = loops[o]
         /\ LoopOK(loops'[c], kind[c], left[c])
<1>1. DOMAIN loops = Retriers /\ LoopOK(loops[c], kind[c], left[c])
  BY DEF RetryInv
<1> DEFINE new == [[loops[c] EXCEPT !.stage = "running"] EXCEPT !.tries = loops[c].tries + 1]
<1>2. loops' = [loops EXCEPT ![c] = new]
  BY <1>1 DEF Rt!Start, LoopOK, LoopFields
<1>3. /\ DOMAIN new = LoopFields /\ new.stage = "running" /\ new.error = loops[c].error
      /\ new.attempt = loops[c].attempt /\ new.wait = loops[c].wait /\ new.tries = loops[c].tries + 1
  BY <1>1 DEF LoopOK, LoopFields
<1> HIDE DEF new
<1>4. LoopOK(new, kind[c], left[c])
  BY <1>1, <1>3, RetryConstants DEF LoopOK
<1> QED
  BY <1>1, <1>2, <1>4

\* After an error: the loop gives up, with a reason, or waits, before its deadline.
LEMMA RetriesOrNot ==
  ASSUME RetryInv, NEW c \in Retriers, NEW error, loops[c].stage = "running",
         kind[c] = "client" => ~Repeats(kind[c], error), Rt!RetryOrNot(c, error)
  PROVE  /\ DOMAIN loops' = Retriers /\ \A o \in Retriers \ {c} : loops'[o] = loops[o]
         /\ LoopOK(loops'[c], kind[c], left[c])
<1> USE RetryConstants
<1>1. /\ DOMAIN loops = Retriers /\ LoopOK(loops[c], kind[c], left[c])
      /\ left[c] \in Nat /\ (Rt!Retryable(c, error) <=> Repeats(kind[c], error))
  BY RepeatsRetryable DEF RetryInv
<1> DEFINE Waits(delay) == loops' = [loops EXCEPT ![c].stage = "waiting", ![c].attempt = @ + 1,
                                                  ![c].wait = delay, ![c].error = error]
<1>2. CASE Rt!To(c, "failed", error) /\ (loops[c].attempt = MaxRetries \/ ~Repeats(kind[c], error))
  <2>1. LoopOK(loops'[c], kind[c], left[c])
    BY <1>1, <1>2, ToStage DEF LoopOK
  <2> QED
    BY <1>2, <2>1, ToStage
<1>3. CASE Rt!To(c, "stopped", error) /\ kind[c] = "engine" /\ loops[c].attempt # MaxRetries
  <2>1. LoopOK(loops'[c], kind[c], left[c])
    BY <1>1, <1>3, ToStage DEF LoopOK
  <2> QED
    BY <1>3, <2>1, ToStage
<1>4. ASSUME NEW delay \in Rt!Delays(c, loops[c].attempt), loops[c].attempt # MaxRetries,
             Repeats(kind[c], error), kind[c] = "engine" => ~(delay >= left[c]), Waits(delay)
      PROVE  /\ DOMAIN loops' = Retriers /\ \A o \in Retriers \ {c} : loops'[o] = loops[o]
             /\ LoopOK(loops'[c], kind[c], left[c])
  <2> DEFINE new == [[[[loops[c] EXCEPT !.stage = "waiting"] EXCEPT !.attempt = loops[c].attempt + 1]
                       EXCEPT !.wait = delay] EXCEPT !.error = error]
  <2>1. loops' = [loops EXCEPT ![c] = new]
    BY <1>1, <1>4 DEF LoopOK, LoopFields
  <2>2. /\ DOMAIN new = LoopFields /\ new.stage = "waiting" /\ new.error = error
        /\ new.attempt = loops[c].attempt + 1 /\ new.wait = delay /\ new.tries = loops[c].tries
    BY <1>1 DEF LoopOK, LoopFields
  <2> HIDE DEF new
  <2>3. kind[c] = "engine" => delay \in Nat /\ delay < left[c]
    <3>1. MaxDelay \div 2 \in Nat
      OBVIOUS
    <3>2. Rt!EngineDelays \subseteq Nat
      BY <3>1 DEF Rt!EngineDelays
    <3>3. kind[c] = "engine" => delay \in Rt!EngineDelays
      BY <1>4 DEF Rt!Delays
    <3> QED
      BY <1>1, <1>4, <3>2, <3>3
  <2>4. LoopOK(new, kind[c], left[c])
    BY <1>1, <1>4, <2>2, <2>3 DEF LoopOK
  <2> QED
    BY <1>1, <2>1, <2>4
<1>5. CASE loops[c].attempt = MaxRetries \/ ~Rt!Retryable(c, error)
  <2>1. Rt!To(c, "failed", error)
    BY <1>5 DEF Rt!RetryOrNot
  <2> QED
    BY <1>1, <1>2, <1>5, <2>1
<1>6. CASE loops[c].attempt # MaxRetries /\ Rt!Retryable(c, error)
  <2>1. PICK delay \in Rt!Delays(c, loops[c].attempt) :
          IF kind[c] = "engine" /\ delay >= left[c] THEN Rt!To(c, "stopped", error) ELSE Waits(delay)
    BY <1>6, Zenon DEF Rt!RetryOrNot
  <2>2. CASE kind[c] = "engine" /\ delay >= left[c]
    BY <1>3, <1>6, <2>1, <2>2
  <2>3. CASE ~(kind[c] = "engine" /\ delay >= left[c])
    <3>1. Waits(delay) /\ (kind[c] = "engine" => ~(delay >= left[c]))
      BY <2>1, <2>3, Zenon
    <3>2. Repeats(kind[c], error)
      BY <1>1, <1>6
    <3> HIDE DEF Waits
    <3> QED
      BY <1>4, <1>6, <3>1, <3>2
  <2> QED
    BY <2>2, <2>3
<1> QED
  BY <1>5, <1>6

LEMMA BeginKeeps ==
  ASSUME RetryInv, NEW c \in Retriers, Rt!Begin(c)
  PROVE  RetryInv'
<1>1. LoopOK(loops[c], kind[c], left[c]) /\ UNCHANGED <<kind, left>> /\ loops[c].stage = "idle"
  BY DEF RetryInv, Rt!Begin
<1>2. Rt!To(c, "ready", Rt!NoError) \/ Rt!To(c, "failed", Rt!Unavailable)
  BY DEF Rt!Begin
<1>3. CASE Rt!To(c, "ready", Rt!NoError)
  <2>1. LoopOK(loops'[c], kind[c], left[c])
    BY <1>1, <1>3, ToStage DEF LoopOK
  <2> QED
    BY <1>1, <1>3, <2>1, ToStage, LoopStep
<1>4. CASE Rt!To(c, "failed", Rt!Unavailable)
  <2>1. LoopOK(loops'[c], kind[c], left[c])
    BY <1>1, <1>4, ToStage DEF LoopOK
  <2> QED
    BY <1>1, <1>4, <2>1, ToStage, LoopStep
<1> QED
  BY <1>2, <1>3, <1>4

LEMMA AttemptsKeep ==
  ASSUME RetryInv, NEW c \in Retriers, Rt!Attempt(c) \/ Rt!ClientAttempt(c) \/ Rt!EngineAttempt(c)
  PROVE  RetryInv'
<1> USE RetryConstants
<1>1. LoopOK(loops[c], kind[c], left[c]) /\ UNCHANGED <<kind, left>> /\ loops[c].stage = "ready"
  BY DEF RetryInv, Rt!Attempt, Rt!ClientAttempt, Rt!EngineAttempt
<1>2. \/ Rt!Start(c)
      \/ kind[c] = "client" /\ Rt!To(c, "failed", Rt!Open)
      \/ kind[c] = "engine" /\ Rt!To(c, "stopped", loops[c].error)
  BY DEF Rt!Attempt, Rt!ClientAttempt, Rt!EngineAttempt
<1>3. CASE Rt!Start(c)
  BY <1>1, <1>3, StartTries, LoopStep
<1>4. CASE kind[c] = "client" /\ Rt!To(c, "failed", Rt!Open)
  <2>1. ~Repeats(kind[c], Rt!Open)
    BY <1>4, ClientErrors
  <2>2. LoopOK(loops'[c], kind[c], left[c])
    BY <1>1, <1>4, <2>1, ToStage DEF LoopOK
  <2> QED
    BY <1>1, <1>4, <2>2, ToStage, LoopStep
<1>5. CASE kind[c] = "engine" /\ Rt!To(c, "stopped", loops[c].error)
  <2>1. LoopOK(loops'[c], kind[c], left[c])
    BY <1>1, <1>5, ToStage DEF LoopOK
  <2> QED
    BY <1>1, <1>5, <2>1, ToStage, LoopStep
<1> QED
  BY <1>2, <1>3, <1>4, <1>5

LEMMA ResultsKeep ==
  ASSUME RetryInv, NEW c \in Retriers,
         \/ Rt!Succeed(c) \/ Rt!AnswerServerError(c)
         \/ \E error \in Rt!OperationErrors(c) : Rt!Fail(c, error)
  PROVE  RetryInv'
<1>1. LoopOK(loops[c], kind[c], left[c]) /\ UNCHANGED <<kind, left>> /\ loops[c].stage = "running"
  BY DEF RetryInv, Rt!Succeed, Rt!AnswerServerError, Rt!Fail
<1>2. \/ Rt!To(c, "succeeded", Rt!NoError)
      \/ kind[c] = "client" /\ Rt!RetryOrNot(c, Rt!ServerError)
      \/ \E error \in Rt!OperationErrors(c) : Rt!RetryOrNot(c, error)
  BY DEF Rt!Succeed, Rt!AnswerServerError, Rt!Fail
<1>3. CASE Rt!To(c, "succeeded", Rt!NoError)
  <2>1. LoopOK(loops'[c], kind[c], left[c])
    BY <1>1, <1>3, ToStage DEF LoopOK
  <2> QED
    BY <1>1, <1>3, <2>1, ToStage, LoopStep
<1>4. ASSUME NEW error \in Rt!OperationErrors(c) \cup {Rt!ServerError}, Rt!RetryOrNot(c, error)
      PROVE  RetryInv'
  <2>1. kind[c] = "client" => ~Repeats(kind[c], error)
    BY ClientErrors
  <2> QED
    BY <1>1, <1>4, <2>1, RetriesOrNot, LoopStep
<1> QED
  BY <1>2, <1>3, <1>4

LEMMA AwakeKeeps ==
  ASSUME RetryInv, NEW c \in Retriers, Rt!Awake(c)
  PROVE  RetryInv'
<1>1. /\ LoopOK(loops[c], kind[c], left[c]) /\ UNCHANGED <<kind, left>> /\ loops[c].stage = "waiting"
      /\ Rt!To(c, "ready", loops[c].error)
  BY DEF RetryInv, Rt!Awake
<1>2. LoopOK(loops'[c], kind[c], left[c])
  BY <1>1, ToStage DEF LoopOK
<1> QED
  BY <1>1, <1>2, ToStage, LoopStep

\* Delays and deadlines come nearer together.
LEMMA RetryTickKeeps ==
  ASSUME RetryInv, Rt!Tick
  PROVE  RetryInv'
<1> USE RetryConstants
<1>1. /\ kind' = kind /\ kind \in [Retriers -> Rt!Kinds] /\ left \in [Retriers -> 0 .. Deadline]
      /\ loops' = [c \in Retriers |-> [loops[c] EXCEPT !.wait = Rt!Down(loops[c].wait)]]
      /\ left' = [c \in Retriers |-> IF loops[c].stage = "idle" THEN left[c] ELSE Rt!Down(left[c])]
  BY DEF RetryInv, Rt!Tick
<1>2. \A n \in Nat : Rt!Down(n) \in Nat /\ (n > 0 => Rt!Down(n) = n - 1) /\ (n = 0 => Rt!Down(n) = 0)
  BY DEF Rt!Down
<1>3. ASSUME NEW c \in Retriers
      PROVE  left'[c] \in 0 .. Deadline /\ LoopOK(loops'[c], kind[c], left'[c])
  <2>1. LoopOK(loops[c], kind[c], left[c]) /\ left[c] \in 0 .. Deadline
    BY DEF RetryInv
  <2> DEFINE new == [loops[c] EXCEPT !.wait = Rt!Down(loops[c].wait)]
  <2>2. loops'[c] = new
    BY <1>1
  <2>3. /\ DOMAIN new = LoopFields /\ new.stage = loops[c].stage /\ new.error = loops[c].error
        /\ new.attempt = loops[c].attempt /\ new.wait = Rt!Down(loops[c].wait) /\ new.tries = loops[c].tries
    BY <2>1 DEF LoopOK, LoopFields
  <2> HIDE DEF new
  <2>4. /\ left'[c] \in 0 .. Deadline
        /\ loops[c].stage = "waiting" => left'[c] = Rt!Down(left[c])
    BY <1>1, <1>2, <2>1
  <2>5. kind[c] = "engine" => /\ new.wait \in Nat
                              /\ loops[c].stage = "waiting" /\ new.wait > 0 => new.wait < left'[c]
    <3> SUFFICES ASSUME kind[c] = "engine"
                 PROVE  /\ new.wait \in Nat
                        /\ loops[c].stage = "waiting" /\ new.wait > 0 => new.wait < left'[c]
      OBVIOUS
    <3>1. /\ loops[c].wait \in Nat
          /\ loops[c].stage = "waiting" /\ loops[c].wait > 0 => loops[c].wait < left[c]
      BY <2>1 DEF LoopOK
    <3> QED
      BY <1>2, <2>1, <2>3, <2>4, <3>1
  <2>6. LoopOK(new, kind[c], left'[c])
    BY <2>1, <2>3, <2>5 DEF LoopOK
  <2> QED
    BY <2>2, <2>4, <2>6
<1>4. left' \in [Retriers -> 0 .. Deadline] /\ DOMAIN loops' = Retriers
  BY <1>1, <1>3
<1> QED
  BY <1>1, <1>3, <1>4 DEF RetryInv

LEMMA RetryNext == RetryInv /\ [Rt!Next]_(Rt!retryVars) => RetryInv'
<1> SUFFICES ASSUME RetryInv, [Rt!Next]_(Rt!retryVars) PROVE RetryInv'
  OBVIOUS
<1>1. ASSUME NEW c \in Retriers, Rt!Begin(c) PROVE RetryInv'
  BY <1>1, BeginKeeps
<1>2. ASSUME NEW c \in Retriers, Rt!Attempt(c) \/ Rt!ClientAttempt(c) \/ Rt!EngineAttempt(c) PROVE RetryInv'
  BY <1>2, AttemptsKeep
<1>3. ASSUME NEW c \in Retriers,
             \/ Rt!Succeed(c) \/ Rt!AnswerServerError(c)
             \/ \E error \in Rt!OperationErrors(c) : Rt!Fail(c, error)
      PROVE RetryInv'
  BY <1>3, ResultsKeep
<1>4. ASSUME NEW c \in Retriers, Rt!Awake(c) PROVE RetryInv'
  BY <1>4, AwakeKeeps
<1>5. CASE Rt!Tick
  BY <1>5, RetryTickKeeps
<1>6. CASE UNCHANGED <<kind, loops, left>>
  BY <1>6 DEF RetryInv
<1> QED
  BY <1>1, <1>2, <1>3, <1>4, <1>5, <1>6 DEF Rt!Next, Rt!ByHand, Rt!retryVars

LEMMA RetriesHold == RetryInv => Rt!GivesUpForAReason /\ Rt!WaitsBeforeDeadline
<1> SUFFICES ASSUME RetryInv, NEW c \in Retriers
             PROVE  /\ loops[c].tries <= MaxRetries + 1
                    /\ loops[c].stage = "failed" /\ Rt!Retryable(c, loops[c].error) =>
                         loops[c].tries = MaxRetries + 1 \/ loops[c].error = Rt!Unavailable
                    /\ loops[c].stage = "stopped" => kind[c] = "engine" /\ loops[c].tries <= MaxRetries
                    /\ kind[c] = "engine" /\ loops[c].stage = "waiting" /\ loops[c].wait > 0 =>
                         loops[c].wait < left[c]
  BY DEF Rt!GivesUpForAReason, Rt!WaitsBeforeDeadline
<1>1. LoopOK(loops[c], kind[c], left[c])
  BY DEF RetryInv
<1>2. Rt!Retryable(c, loops[c].error) <=> Repeats(kind[c], loops[c].error)
  BY RepeatsRetryable DEF RetryInv
<1> QED
  BY <1>1, <1>2, RetryConstants DEF LoopOK

\* An attempt starts in time, and not in an open breaker.
LEMMA StartsTimely ==
  ASSUME RetryInv, Rt!Next, NEW c \in Retriers, loops'[c].tries > loops[c].tries, Rt!UsesBreaker(c)
  PROVE  (kind[c] = "engine" => left[c] > 0) /\ state' # "open"
<1> USE RetryConstants
<1>0. ~(loops[c].tries > loops[c].tries)
  BY DEF RetryInv, LoopOK
<1>1. ASSUME NEW o \in Retriers, NEW stage, NEW error, Rt!To(o, stage, error)
      PROVE  FALSE
  BY <1>0, <1>1, ToStage
<1>2. ASSUME NEW o \in Retriers, NEW error, Rt!RetryOrNot(o, error)
      PROVE  FALSE
  <2>1. \A e : ~Rt!To(o, "failed", e) /\ ~Rt!To(o, "stopped", e)
    BY <1>1
  <2>2. PICK delay : loops' = [loops EXCEPT ![o].stage = "waiting", ![o].attempt = @ + 1,
                                            ![o].wait = delay, ![o].error = error]
    BY <1>2, <2>1 DEF Rt!RetryOrNot
  <2>3. DOMAIN loops = Retriers /\ DOMAIN loops[c] = LoopFields
    BY DEF RetryInv, LoopOK
  <2>4. loops'[c].tries = loops[c].tries
    BY <2>2, <2>3 DEF LoopFields
  <2> QED
    BY <1>0, <2>4
<1>3. \A o \in Retriers : ~Rt!Begin(o) /\ ~Rt!Succeed(o) /\ ~Rt!AnswerServerError(o) /\ ~Rt!Awake(o)
  BY <1>1, <1>2 DEF Rt!Begin, Rt!Succeed, Rt!AnswerServerError, Rt!Awake
<1>4. \A o \in Retriers : \A error \in Rt!OperationErrors(o) : ~Rt!Fail(o, error)
  BY <1>2 DEF Rt!Fail
<1>5. ~Rt!Tick /\ ~Rt!ByHand
  <2>1. DOMAIN loops[c] = LoopFields
    BY DEF RetryInv, LoopOK
  <2>2. Rt!Tick => loops'[c].tries = loops[c].tries
    BY <2>1 DEF Rt!Tick, LoopFields
  <2> QED
    BY <1>0, <2>2 DEF Rt!ByHand
<1>6. PICK o \in Retriers : Rt!Attempt(o) \/ Rt!ClientAttempt(o) \/ Rt!EngineAttempt(o)
  BY <1>3, <1>4, <1>5 DEF Rt!Next
<1>7. Rt!Start(o)
  BY <1>1, <1>6 DEF Rt!Attempt, Rt!ClientAttempt, Rt!EngineAttempt
<1>8. o = c
  <2>1. loops[o].stage = "ready"
    BY <1>6 DEF Rt!Attempt, Rt!ClientAttempt, Rt!EngineAttempt
  <2> QED
    BY <1>0, <1>7, <2>1, StartTries
<1>9. Rt!Cb!Execute(c) /\ (kind[c] = "engine" => left[c] > 0)
  BY <1>1, <1>6, <1>8 DEF Rt!Attempt, Rt!ClientAttempt, Rt!EngineAttempt, Rt!UsesBreaker
<1>10. state' # "open"
  BY <1>9 DEF Rt!Cb!Execute, Rt!Cb!TransitionToHalfOpen
<1> QED
  BY <1>9, <1>10

\* The breaker counts as FiniteSets does.
LEMMA BreakerCounts ==
  ASSUME NEW S PROVE Rt!Cb!Cardinality(S) = Cardinality(S) /\ Rt!Cb!IsFiniteSet(S) = IsFiniteSet(S)
<1>1. Rt!Cb!Cardinality(S) = Cardinality(S)
  BY DEF Rt!Cb!Cardinality, Cardinality
<1>2. Rt!Cb!IsFiniteSet(S) = IsFiniteSet(S)
  BY DEF Rt!Cb!IsFiniteSet, IsFiniteSet
<1> QED
  BY <1>1, <1>2

BreakerRunning == {c \in Retriers : breakerCalls[c] # "none"}

\* While it is open the failures are bounded by the calls that can still fail, and
\* the time it has been open by what is left of the reset timeout.
BreakerInv ==
  /\ state \in Rt!Cb!States /\ failures \in Nat
  /\ coolDown \in 0 .. ResetTimeout /\ openFor \in 0 .. ResetTimeout
  /\ breakerCalls \in [Retriers -> {"none", "closed", "half_open"}]
  /\ forced \in {0}
  /\ Rt!Cb!FailuresOfThisPeriod
  /\ state = "open" =>
       /\ coolDown + openFor = ResetTimeout
       /\ failures + Cardinality(BreakerRunning) <= Threshold + Cardinality(Retriers)

LEMMA BreakerConstants ==
  /\ IsFiniteSet(Retriers) /\ Cardinality(Retriers) \in Nat
  /\ Threshold \in Nat \ {0} /\ ResetTimeout \in Nat \ {0}
<1>1. /\ IsFiniteSet(Retriers)
      /\ Threshold \in Nat \ {0} /\ ResetTimeout \in Nat \ {0}
  BY RetriesAssumption, BreakerCounts DEF Rt!OptionsOK, Rt!Cb!ConfigOK
<1> QED
  BY <1>1, FS_CardinalityType

LEMMA BreakerRunningCounts ==
  /\ IsFiniteSet(BreakerRunning) /\ Cardinality(BreakerRunning) \in Nat
  /\ Cardinality(BreakerRunning) <= Cardinality(Retriers)
<1>1. BreakerRunning \in SUBSET Retriers
  BY DEF BreakerRunning
<1> QED
  BY <1>1, BreakerConstants, FS_Subset, FS_CardinalityType

\* A call that settles is one less that runs.
LEMMA BreakerSettles ==
  ASSUME NEW c \in Retriers, BreakerInv, Rt!Cb!Running(c), breakerCalls' = [breakerCalls EXCEPT ![c] = "none"]
  PROVE  Cardinality(BreakerRunning)' = Cardinality(BreakerRunning) - 1
<1>1. c \in BreakerRunning /\ BreakerRunning' = BreakerRunning \ {c}
  BY DEF BreakerInv, BreakerRunning, Rt!Cb!Running
<1> QED
  BY <1>1, BreakerRunningCounts, FS_RemoveElement

LEMMA BreakerInit == Rt!Cb!Init => BreakerInv
<1> SUFFICES ASSUME Rt!Cb!Init PROVE BreakerInv
  OBVIOUS
<1> QED
  BY BreakerConstants DEF Rt!Cb!Init, BreakerInv, Rt!Cb!States, Rt!Cb!FailuresOfThisPeriod

LEMMA BreakerNext == BreakerInv /\ [Rt!Cb!Next]_(Rt!Cb!vars) => BreakerInv'
<1> SUFFICES ASSUME BreakerInv, [Rt!Cb!Next]_(Rt!Cb!vars) PROVE BreakerInv'
  OBVIOUS
<1> USE BreakerConstants DEF BreakerInv, Rt!Cb!FailuresOfThisPeriod, Rt!Cb!States
<1>1. CASE UNCHANGED Rt!Cb!vars
  BY <1>1 DEF Rt!Cb!vars, BreakerRunning
<1>2. CASE Rt!Cb!GetState
  BY <1>2 DEF Rt!Cb!GetState, Rt!Cb!TransitionToHalfOpen
<1>3. ~Rt!Cb!ForceOpen
  BY DEF Rt!Cb!ForceOpen
<1>4. CASE Rt!Cb!ForceClosed
  BY <1>4 DEF Rt!Cb!ForceClosed, Rt!Cb!TransitionToClosed
<1>5. CASE Rt!Cb!Tick
  BY <1>5 DEF Rt!Cb!Tick, BreakerRunning
<1>6. ASSUME NEW c \in Retriers, Rt!Cb!Refuse(c) PROVE BreakerInv'
  BY <1>6 DEF Rt!Cb!Refuse, Rt!Cb!vars, BreakerRunning
<1>7. ASSUME NEW c \in Retriers, Rt!Cb!Execute(c) PROVE BreakerInv'
  BY <1>7 DEF Rt!Cb!Execute, Rt!Cb!TransitionToHalfOpen
<1>8. ASSUME NEW c \in Retriers, Rt!Cb!Succeed(c) PROVE BreakerInv'
  <2>1. Cardinality(BreakerRunning)' = Cardinality(BreakerRunning) - 1
    BY <1>8, BreakerSettles DEF Rt!Cb!Succeed
  <2> QED
    BY <1>8, <2>1, BreakerRunningCounts DEF Rt!Cb!Succeed, Rt!Cb!TransitionToClosed
<1>9. ASSUME NEW c \in Retriers, Rt!Cb!Fail(c) PROVE BreakerInv'
  <2>1. Cardinality(BreakerRunning)' = Cardinality(BreakerRunning) - 1
    BY <1>9, BreakerSettles DEF Rt!Cb!Fail
  <2> QED
    BY <1>9, <2>1, BreakerRunningCounts DEF Rt!Cb!Fail, Rt!Cb!TransitionToOpen
<1>10. ASSUME NEW c \in Retriers, Rt!Cb!FailUncounted(c) PROVE BreakerInv'
  <2>1. Cardinality(BreakerRunning)' = Cardinality(BreakerRunning) - 1
    BY <1>10, BreakerSettles DEF Rt!Cb!FailUncounted
  <2> QED
    BY <1>10, <2>1, BreakerRunningCounts DEF Rt!Cb!FailUncounted
<1> QED
  BY <1>1, <1>2, <1>3, <1>4, <1>5, <1>6, <1>7, <1>8, <1>9, <1>10 DEF Rt!Cb!Next

LEMMA BreakerTypes == BreakerInv => Rt!Cb!TypeOK
<1> SUFFICES ASSUME BreakerInv PROVE Rt!Cb!TypeOK
  OBVIOUS
<1>1. failures <= Threshold + Cardinality(Retriers)
  BY BreakerConstants, BreakerRunningCounts DEF BreakerInv, Rt!Cb!States, Rt!Cb!FailuresOfThisPeriod
<1> QED
  BY <1>1, BreakerConstants, BreakerCounts DEF BreakerInv, Rt!Cb!TypeOK


\* What a loop does to the breaker is what callers of execute() do.
LEMMA BreakerSteps == [Rt!Next]_(Rt!retryVars) => [Rt!Cb!Next]_(Rt!Cb!vars)
<1> SUFFICES ASSUME [Rt!Next]_(Rt!retryVars) PROVE [Rt!Cb!Next]_(Rt!Cb!vars)
  OBVIOUS
<1> DEFINE Rests == UNCHANGED Rt!Cb!vars
<1> USE DEF Rt!breakerVars, Rt!Cb!vars
<1>1. ASSUME NEW c \in Retriers, NEW ok \in BOOLEAN, Rt!Report(c, ok)
      PROVE  Rests \/ Rt!Cb!Succeed(c) \/ Rt!Cb!Fail(c)
  BY <1>1 DEF Rt!Report
<1>2. ASSUME NEW c \in Retriers,
             \/ Rt!Begin(c) \/ Rt!Attempt(c) \/ Rt!ClientAttempt(c) \/ Rt!EngineAttempt(c)
             \/ Rt!Succeed(c) \/ Rt!AnswerServerError(c) \/ Rt!Awake(c)
             \/ \E error \in Rt!OperationErrors(c) : Rt!Fail(c, error)
      PROVE  \/ Rests \/ Rt!Cb!Succeed(c) \/ Rt!Cb!Fail(c) \/ Rt!Cb!Execute(c) \/ Rt!Cb!Refuse(c)
  <2>1. CASE \/ Rt!Succeed(c) \/ Rt!AnswerServerError(c)
             \/ \E error \in Rt!OperationErrors(c) : Rt!Fail(c, error)
    <3>1. Rt!Report(c, TRUE) \/ Rt!Report(c, FALSE)
      BY <2>1 DEF Rt!Succeed, Rt!AnswerServerError, Rt!Fail
    <3> QED
      BY <1>1, <3>1
  <2>2. CASE Rt!Begin(c) \/ Rt!Attempt(c) \/ Rt!ClientAttempt(c) \/ Rt!EngineAttempt(c) \/ Rt!Awake(c)
    BY <2>2 DEF Rt!Begin, Rt!Attempt, Rt!ClientAttempt, Rt!EngineAttempt, Rt!Awake
  <2> QED
    BY <1>2, <2>1, <2>2
<1>3. CASE Rt!ByHand \/ Rt!Tick \/ UNCHANGED Rt!retryVars
  <2>1. Rests \/ Rt!Cb!ForceClosed \/ Rt!Cb!GetState \/ Rt!Cb!Tick
    BY <1>3 DEF Rt!ByHand, Rt!Tick, Rt!retryVars
  <2> HIDE DEF Rests
  <2> QED
    BY <2>1 DEF Rt!Cb!Next, Rests
<1>4. CASE \E c \in Retriers : \/ Rests \/ Rt!Cb!Succeed(c) \/ Rt!Cb!Fail(c) \/ Rt!Cb!Execute(c) \/ Rt!Cb!Refuse(c)
  BY <1>4 DEF Rt!Cb!Next
<1> QED
  BY <1>2, <1>3, <1>4 DEF Rt!Next

LEMMA RetryTypesHold == RetryInv /\ BreakerInv => Rt!TypeOK
BY BreakerTypes, RetryConstants DEF RetryInv, LoopOK, Rt!TypeOK
-----------------------------------------------------------------------------
(* SharedCache: what the last queued job writes is up to date, and so is   *)
(* what was written, once nothing is queued that will write.  Between the  *)
(* steps of a get() no write is queued behind it that did not race it.     *)

Whats == {"look", "fill", "set", "del", "expire", "keys", "get", "invalidate"}
CacheJobs == Whats \X (Sc!Versions \cup Getters) \X Nat

Writes(job) == job[1] \in {"set", "del"}
Writing(q) == \E i \in 1 .. Len(q) : Writes(q[i])

\* The last job that writes writes v, or nothing.
Fitting(q, v) == \A i \in 1 .. Len(q) :
  q[i][1] = "set" /\ (\A j \in 1 .. Len(q) : Writes(q[j]) => j <= i) => q[i][2] \in {0, v}

\* No job writes behind one that does not; what a get() has found is v, or nothing.
WritesFirst(q) == \A i, j \in 1 .. Len(q) : i < j /\ Writes(q[j]) => Writes(q[i])
Found(q, v) == \A i \in 1 .. Len(q) : q[i][1] = "fill" => q[i][2] \in {0, v}

\* Which jobs there are depends on the kind; what a job carries, on the job.
JobFits(sort, job) ==
  /\ sort = "levels" => job[1] \in {"look", "fill", "set"}
  /\ sort = "redis" => job[1] \in {"set", "del", "expire", "keys", "get"}
  /\ sort = "method" => job[1] = "invalidate"
  /\ job[1] \in {"set", "fill"} => job[2] \in Sc!Versions
  /\ job[1] = "get" => job[2] \in Getters
JobsFit(sort, q) == \A i \in 1 .. Len(q) : JobFits(sort, q[i])

Phases == {"idle", "asking", "missed", "holding"}
CacheTypes ==
  /\ cacheKind \in {"levels", "redis", "method"} /\ commands \in Seq(CacheJobs)
  /\ near \in Sc!Versions /\ far \in Sc!Versions /\ upToDate \in Sc!Versions
  /\ until \in Nat /\ meant \in Nat /\ (meant # 0 => until \in 1 .. meant)
  /\ cacheTime \in 0 .. MaxCacheTime /\ Len(commands) <= MaxQueued
  /\ getters \in [Getters -> [phase : Phases, value : Sc!Versions]]
  /\ JobsFit(cacheKind, commands)

\* The value that somebody has computed is up to date, unless a change raced them.
HeldFits == cacheKind # "levels" /\ ~raced =>
  \A g \in Getters : getters[g].phase = "holding" => getters[g].value = upToDate

Settled == cacheKind = "levels" \/ (cacheKind = "redis" /\ ~raced)
FarFits ==
  /\ Settled => Fitting(commands, upToDate)
  /\ Settled /\ (cacheKind = "levels" \/ ~refused) /\ ~Writing(commands) => far \in {0, upToDate}

NearFits == cacheKind = "levels" /\ ~raced =>
  WritesFirst(commands) /\ Found(commands, upToDate) /\ near \in {0, upToDate}

ResultsFit == cacheKind = "method" /\ ~raced /\ ~prefixed /\ near \notin {0, upToDate} => commands # <<>>

CacheInv == CacheTypes /\ HeldFits /\ FarFits /\ NearFits /\ ResultsFit

LEMMA CacheConstants ==
  MaxValues \in Nat /\ MaxQueued \in Nat /\ MaxCacheTime \in Nat /\ Ttls \subseteq Nat
BY CachesAssumption DEF Sc!OptionsOK

LEMMA CacheInit == Sc!Init => CacheInv
<1> SUFFICES ASSUME Sc!Init PROVE CacheInv
  OBVIOUS
<1> USE CacheConstants DEF Sc!Init, Sc!Versions, Sc!Idle
<1>1. CacheTypes
  BY DEF CacheTypes, JobsFit, Phases
<1>2. HeldFits
  BY DEF HeldFits
<1>3. FarFits /\ NearFits /\ ResultsFit
  BY DEF FarFits, NearFits, ResultsFit, Fitting, WritesFirst, Found
<1> QED
  BY <1>1, <1>2, <1>3 DEF CacheInv

\* A job joins the queue: it is the last one, and if it writes it is the last that does.
LEMMA JobJoins ==
  ASSUME NEW q \in Seq(CacheJobs), NEW job \in CacheJobs, NEW v
  PROVE  /\ Append(q, job) \in Seq(CacheJobs) /\ Len(Append(q, job)) = Len(q) + 1
         /\ \A i \in 1 .. Len(q) + 1 : Append(q, job)[i] = IF i = Len(q) + 1 THEN job ELSE q[i]
         /\ Writes(job) /\ (job[1] = "set" => job[2] \in {0, v}) =>
              Fitting(Append(q, job), v) /\ Writing(Append(q, job))
         /\ ~Writes(job) /\ Fitting(q, v) => Fitting(Append(q, job), v)
         /\ ~Writes(job) => (Writing(Append(q, job)) <=> Writing(q))
         /\ ~Writes(job) /\ WritesFirst(q) => WritesFirst(Append(q, job))
         /\ Writes(job) /\ (\A i \in 1 .. Len(q) : Writes(q[i])) => WritesFirst(Append(q, job))
         /\ Found(q, v) /\ (job[1] = "fill" => job[2] \in {0, v}) => Found(Append(q, job), v)
         /\ \A sort : JobsFit(sort, q) /\ JobFits(sort, job) => JobsFit(sort, Append(q, job))
<1> DEFINE n == Len(q)
           new == Append(q, job)
<1>1. n \in Nat /\ new \in Seq(CacheJobs) /\ Len(new) = n + 1 /\ new[n + 1] = job
      /\ \A i \in 1 .. n : new[i] = q[i]
  OBVIOUS
<1>2. \A i \in 1 .. n + 1 : new[i] = IF i = n + 1 THEN job ELSE q[i]
  <2>1. \A i \in 1 .. n + 1 : i = n + 1 \/ i \in 1 .. n
    BY <1>1
  <2> QED
    BY <1>1, <2>1
<1>3. /\ \A i \in 1 .. n : i # n + 1 /\ i \in 1 .. n + 1 /\ i <= n + 1
      /\ n + 1 \in 1 .. n + 1
      /\ \A i \in 1 .. n + 1 : i = n + 1 \/ i \in 1 .. n
      /\ \A i \in 1 .. n : ~(n + 1 <= i)
  BY <1>1
<1> HIDE DEF new, n
<1>4. ASSUME Writes(job), job[1] = "set" => job[2] \in {0, v}
      PROVE  Fitting(new, v) /\ Writing(new)
  BY <1>1, <1>3, <1>4 DEF Fitting, Writing
<1>5. ~Writes(job) => (Writing(new) <=> Writing(q))
  <2>1. Writing(q) => Writing(new)
    BY <1>1, <1>3 DEF Writing, n
  <2>2. ~Writes(job) /\ Writing(new) => Writing(q)
    BY <1>1, <1>3 DEF Writing, n
  <2> QED
    BY <2>1, <2>2
<1>6. ASSUME ~Writes(job), Fitting(q, v)
      PROVE  Fitting(new, v)
  <2> SUFFICES ASSUME NEW i \in 1 .. n + 1, new[i][1] = "set", \A j \in 1 .. n + 1 : Writes(new[j]) => j <= i
               PROVE  new[i][2] \in {0, v}
    BY <1>1 DEF Fitting
  <2>1. i \in 1 .. n /\ new[i] = q[i]
    BY <1>1, <1>3, <1>6 DEF Writes
  <2>2. \A j \in 1 .. n : Writes(q[j]) => j <= i
    BY <1>1, <1>3
  <2> QED
    BY <1>6, <2>1, <2>2 DEF Fitting, n
<1>7. ASSUME ~Writes(job), WritesFirst(q) PROVE WritesFirst(new)
  BY <1>1, <1>3, <1>7 DEF WritesFirst, n
<1>8. ASSUME Writes(job), \A i \in 1 .. Len(q) : Writes(q[i]) PROVE WritesFirst(new)
  BY <1>1, <1>2, <1>3, <1>8 DEF WritesFirst, n
<1>9. ASSUME Found(q, v), job[1] = "fill" => job[2] \in {0, v} PROVE Found(new, v)
  BY <1>1, <1>2, <1>3, <1>9 DEF Found, n
<1>10. ASSUME NEW sort, JobsFit(sort, q), JobFits(sort, job) PROVE JobsFit(sort, new)
  BY <1>1, <1>2, <1>3, <1>10 DEF JobsFit, n
<1> QED
  BY <1>1, <1>2, <1>4, <1>5, <1>6, <1>7, <1>8, <1>9, <1>10 DEF n, new

\* The first job leaves the queue.
LEMMA JobLeaves ==
  ASSUME NEW q \in Seq(CacheJobs), q # <<>>, NEW v
  PROVE  /\ Tail(q) \in Seq(CacheJobs) /\ Len(Tail(q)) = Len(q) - 1 /\ Len(q) \in Nat /\ Len(q) >= 1
         /\ Head(q) = q[1] /\ q[1] \in CacheJobs
         /\ \A i \in 1 .. Len(q) - 1 : i + 1 \in 1 .. Len(q) /\ Tail(q)[i] = q[i + 1]
         /\ Fitting(q, v) => Fitting(Tail(q), v)
         /\ Fitting(q, v) /\ q[1][1] = "set" /\ ~Writing(Tail(q)) => q[1][2] \in {0, v}
         /\ ~Writes(q[1]) => (Writing(Tail(q)) <=> Writing(q))
         /\ WritesFirst(q) => WritesFirst(Tail(q))
         /\ WritesFirst(q) /\ ~Writes(q[1]) => ~Writing(q)
         /\ Found(q, v) => Found(Tail(q), v)
         /\ Found(q, v) /\ q[1][1] = "fill" => q[1][2] \in {0, v}
         /\ \A sort : JobsFit(sort, q) => JobsFit(sort, Tail(q)) /\ JobFits(sort, q[1])
<1> DEFINE n == Len(q) - 1
           new == Tail(q)
<1>1. /\ n \in Nat /\ Len(q) = n + 1 /\ new \in Seq(CacheJobs) /\ Len(new) = n /\ Head(q) = q[1] /\ q[1] \in CacheJobs
      /\ \A i \in 1 .. n : new[i] = q[i + 1]
  OBVIOUS
<1>2. /\ \A i \in 1 .. n : i + 1 \in 1 .. n + 1 /\ i + 1 > 1 /\ i + 1 # 1
      /\ \A i \in 1 .. n + 1 : i = 1 \/ (i - 1 \in 1 .. n /\ (i - 1) + 1 = i)
      /\ 1 \in 1 .. n + 1
      /\ \A i, j \in 1 .. n : i + 1 <= j + 1 <=> i <= j
      /\ \A i \in 1 .. n + 1 : 1 <= i
  BY <1>1
<1> HIDE DEF n, new
<1>3. ASSUME Fitting(q, v) PROVE Fitting(new, v)
  <2> SUFFICES ASSUME NEW i \in 1 .. n, new[i][1] = "set", \A j \in 1 .. n : Writes(new[j]) => j <= i
               PROVE  new[i][2] \in {0, v}
    BY <1>1 DEF Fitting
  <2>1. ASSUME NEW j \in 1 .. n + 1, Writes(q[j]) PROVE j <= i + 1
    <3>1. CASE j = 1
      BY <1>1, <3>1
    <3>2. CASE j # 1
      <4>1. j - 1 \in 1 .. n /\ q[j] = new[j - 1]
        BY <1>1, <1>2, <3>2
      <4> QED
        BY <1>1, <2>1, <4>1
    <3> QED
      BY <3>1, <3>2
  <2>2. i + 1 \in 1 .. n + 1 /\ new[i] = q[i + 1]
    BY <1>1, <1>2
  <2> QED
    BY <1>1, <1>3, <2>1, <2>2 DEF Fitting
<1>4. \A j \in 1 .. n + 1 : j = 1 \/ \E i \in 1 .. n : j = i + 1 /\ q[j] = new[i]
  BY <1>1, <1>2
<1>5. ASSUME Fitting(q, v), q[1][1] = "set", ~Writing(new) PROVE q[1][2] \in {0, v}
  <2>1. \A j \in 1 .. n + 1 : Writes(q[j]) => j = 1
    BY <1>1, <1>4, <1>5 DEF Writing
  <2>2. \A j \in 1 .. Len(q) : Writes(q[j]) => j <= 1
    BY <1>1, <2>1
  <2> QED
    BY <1>1, <1>2, <1>5, <2>2 DEF Fitting
<1>6. ASSUME ~Writes(q[1]) PROVE Writing(new) <=> Writing(q)
  <2>1. Writing(new) => Writing(q)
    BY <1>1, <1>2 DEF Writing
  <2>2. Writing(q) => Writing(new)
    BY <1>1, <1>4, <1>6 DEF Writing
  <2> QED
    BY <2>1, <2>2
<1>7. ASSUME WritesFirst(q) PROVE WritesFirst(new)
  <2>1. \A i, j \in 1 .. n : i < j => i + 1 < j + 1
    BY <1>1
  <2> QED
    BY <1>1, <1>2, <1>7, <2>1 DEF WritesFirst
<1>8. ASSUME WritesFirst(q), ~Writes(q[1]) PROVE ~Writing(q)
  <2>1. \A j \in 1 .. n + 1 : j = 1 \/ 1 < j
    BY <1>1
  <2> QED
    BY <1>1, <1>2, <1>8, <2>1 DEF WritesFirst, Writing
<1>9. ASSUME Found(q, v) PROVE Found(new, v)
  BY <1>1, <1>2, <1>9 DEF Found
<1>10. ASSUME Found(q, v), q[1][1] = "fill" PROVE q[1][2] \in {0, v}
  BY <1>1, <1>2, <1>10 DEF Found
<1>11. ASSUME NEW sort, JobsFit(sort, q) PROVE JobsFit(sort, new) /\ JobFits(sort, q[1])
  BY <1>1, <1>2, <1>11 DEF JobsFit
<1> QED
  BY <1>1, <1>2, <1>3, <1>5, <1>6, <1>7, <1>8, <1>9, <1>10, <1>11 DEF n, new

\* What is sent is a job.
LEMMA JobsAreJobs ==
  ASSUME NEW v \in Sc!Versions, NEW g \in Getters, NEW t \in Nat
  PROVE  /\ <<"look", 0, 0>> \in CacheJobs /\ <<"fill", v, 0>> \in CacheJobs /\ <<"set", v, t>> \in CacheJobs
         /\ <<"del", 0, 0>> \in CacheJobs /\ <<"expire", 0, t>> \in CacheJobs /\ <<"keys", 0, 0>> \in CacheJobs
         /\ <<"get", g, 0>> \in CacheJobs /\ <<"invalidate", 0, 0>> \in CacheJobs
<1>1. 0 \in Sc!Versions
  BY CacheConstants DEF Sc!Versions
<1> QED
  BY <1>1 DEF CacheJobs, Whats

\* There is room for a job that fits.
LEMMA JobsOK ==
  ASSUME CacheTypes, NEW job \in CacheJobs, JobFits(cacheKind, job), Len(commands) < MaxQueued
  PROVE  LET new == Append(commands, job) IN new \in Seq(CacheJobs) /\ Len(new) <= MaxQueued /\ JobsFit(cacheKind, new)
<1> DEFINE n == Len(commands)
           new == Append(commands, job)
<1>1. n \in Nat /\ n < MaxQueued /\ MaxQueued \in Nat /\ JobsFit(cacheKind, commands) /\ commands \in Seq(CacheJobs)
  BY CacheConstants DEF CacheTypes
<1>2. new \in Seq(CacheJobs) /\ Len(new) = n + 1 /\ JobsFit(cacheKind, new)
  BY <1>1, JobJoins
<1> HIDE DEF new, n
<1>3. n + 1 <= MaxQueued
  BY <1>1
<1> QED
  BY <1>2, <1>3 DEF new

\* The levels: a get() looks into the second one.
LEMMA CacheGet == CacheInv /\ Sc!get => CacheInv'
<1> SUFFICES ASSUME CacheInv, Sc!get PROVE CacheInv'
  OBVIOUS
<1> DEFINE job == <<"look", 0, 0>>
<1>1. job \in CacheJobs /\ job[1] = "look" /\ ~Writes(job) /\ Len(commands) < MaxQueued
  BY CacheConstants DEF CacheJobs, Whats, Sc!Versions, Writes, Sc!get, Sc!Queue
<1>2. commands' = Append(commands, job) /\ cacheKind = "levels" /\ commands \in Seq(CacheJobs)
      /\ UNCHANGED <<cacheKind, prefixed, near, far, upToDate, raced, until, meant, getters, refused, cacheTime>>
  BY DEF Sc!get, Sc!Queue, Sc!redisVars, CacheInv, CacheTypes
<1> HIDE DEF job
<1>3. JobFits(cacheKind, job)
  BY <1>1, <1>2 DEF JobFits
<1>4. CacheTypes'
  <2>1. commands' \in Seq(CacheJobs) /\ Len(commands') <= MaxQueued /\ JobsFit(cacheKind, commands')
    BY <1>1, <1>2, <1>3, JobsOK DEF CacheInv
  <2> QED
    BY <1>2, <2>1 DEF CacheInv, CacheTypes
<1>5. FarFits' /\ NearFits'
  BY <1>1, <1>2, JobJoins DEF CacheInv, FarFits, NearFits, Settled
<1>6. HeldFits' /\ ResultsFit'
  BY <1>2 DEF HeldFits, ResultsFit
<1> QED
  BY <1>4, <1>5, <1>6 DEF CacheInv

LEMMA NextVersion ==
  ASSUME NEW v \in Sc!Versions, v < MaxValues
  PROVE  v + 1 \in Sc!Versions
BY CacheConstants DEF Sc!Versions

\* What was found in the second level goes into the first one next; the job behind it does not write.
LEMMA CacheLook == CacheInv /\ Sc!Look => CacheInv'
<1> SUFFICES ASSUME CacheInv, Sc!Look PROVE CacheInv'
  OBVIOUS
<1> DEFINE job == <<"fill", far, 0>>
           rest == Tail(commands)
<1>1. /\ cacheKind = "levels" /\ commands \in Seq(CacheJobs) /\ commands # <<>> /\ commands[1][1] = "look"
      /\ UNCHANGED <<cacheKind, prefixed, near, far, upToDate, raced, until, meant, getters, refused, cacheTime>>
      /\ JobsFit(cacheKind, commands) /\ Len(commands) <= MaxQueued /\ MaxQueued \in Nat
  BY CacheConstants, JobLeaves DEF Sc!Look, Sc!Next1, Sc!redisVars, CacheInv, CacheTypes
<1>2. rest \in Seq(CacheJobs) /\ commands' = IF far = 0 THEN rest ELSE Append(rest, job)
  <2>1. rest \in Seq(CacheJobs)
    BY <1>1, JobLeaves
  <2> HIDE DEF rest
  <2>2. rest \o <<>> = rest /\ rest \o <<job>> = Append(rest, job)
    BY <2>1
  <2> QED
    BY <2>1, <2>2 DEF Sc!Look, rest
<1>3. job \in CacheJobs /\ job[1] = "fill" /\ job[2] = far /\ ~Writes(job) /\ JobFits("levels", job)
  BY DEF CacheInv, CacheTypes, CacheJobs, Whats, Writes, JobFits
<1>4. Len(rest) <= MaxQueued /\ Len(Append(rest, job)) <= MaxQueued
  BY <1>1, <1>2, JobLeaves
<1>5. JobsFit(cacheKind, rest) /\ JobsFit(cacheKind, Append(rest, job))
  BY <1>1, <1>2, <1>3, JobLeaves, JobJoins
<1>6. ~Writes(commands[1])
  BY <1>1 DEF Writes
<1>7. Fitting(commands', upToDate) /\ (Writing(commands') <=> Writing(commands))
  <2>1. Fitting(rest, upToDate) /\ (Writing(rest) <=> Writing(commands))
    BY <1>1, <1>6, JobLeaves DEF CacheInv, FarFits, Settled
  <2> HIDE DEF rest, job
  <2> QED
    BY <1>2, <1>3, <2>1, JobJoins
<1>8. ~raced => WritesFirst(commands') /\ Found(commands', upToDate)
  <2> SUFFICES ASSUME ~raced PROVE WritesFirst(commands') /\ Found(commands', upToDate)
    OBVIOUS
  <2>1. WritesFirst(commands) /\ Found(commands, upToDate)
    BY <1>1 DEF CacheInv, NearFits
  <2>2. WritesFirst(rest) /\ Found(rest, upToDate) /\ ~Writing(commands)
    BY <1>1, <1>6, <2>1, JobLeaves
  <2>3. far \in {0, upToDate}
    BY <1>1, <2>2 DEF CacheInv, FarFits, Settled
  <2> HIDE DEF rest, job
  <2> QED
    BY <1>2, <1>3, <2>2, <2>3, JobJoins
<1>9. commands' \in Seq(CacheJobs) /\ Len(commands') <= MaxQueued /\ JobsFit(cacheKind, commands')
  <2>1. Append(rest, job) \in Seq(CacheJobs)
    BY <1>2, <1>3, JobJoins
  <2> QED
    BY <1>2, <1>4, <1>5, <2>1
<1> HIDE DEF rest, job
<1>10. CacheTypes'
  BY <1>1, <1>9 DEF CacheInv, CacheTypes
<1>11. FarFits' /\ NearFits'
  BY <1>1, <1>7, <1>8 DEF CacheInv, FarFits, NearFits, Settled
<1>12. HeldFits' /\ ResultsFit'
  BY <1>1 DEF HeldFits, ResultsFit
<1> QED
  BY <1>10, <1>11, <1>12 DEF CacheInv

\* What was found arrives in the first level.
LEMMA CacheFill == CacheInv /\ Sc!Fill => CacheInv'
<1> SUFFICES ASSUME CacheInv, Sc!Fill PROVE CacheInv'
  OBVIOUS
<1>1. /\ cacheKind = "levels" /\ commands \in Seq(CacheJobs) /\ commands # <<>> /\ commands[1][1] = "fill"
      /\ commands' = Tail(commands) /\ near' = commands[1][2]
      /\ UNCHANGED <<cacheKind, prefixed, far, upToDate, raced, until, meant, getters, refused, cacheTime>>
      /\ JobsFit(cacheKind, commands) /\ Len(commands) <= MaxQueued /\ MaxQueued \in Nat
  BY CacheConstants, JobLeaves DEF Sc!Fill, Sc!Next1, Sc!redisVars, CacheInv, CacheTypes
<1>2. commands' \in Seq(CacheJobs) /\ Len(commands') <= MaxQueued
  BY <1>1, JobLeaves
<1>3. JobsFit(cacheKind, commands') /\ JobFits(cacheKind, commands[1])
  BY <1>1, JobLeaves
<1>4. CacheTypes'
  BY <1>1, <1>2, <1>3 DEF CacheInv, CacheTypes, JobFits
<1>5. ~Writes(commands[1])
  BY <1>1 DEF Writes
<1>6. FarFits'
  BY <1>1, <1>5, JobLeaves DEF CacheInv, FarFits, Settled
<1>7. NearFits'
  BY <1>1, JobLeaves DEF CacheInv, NearFits
<1>8. HeldFits' /\ ResultsFit'
  BY <1>1 DEF HeldFits, ResultsFit
<1> QED
  BY <1>4, <1>6, <1>7, <1>8 DEF CacheInv

\* The second level has what the first one got.
LEMMA CacheSetFar == CacheInv /\ Sc!SetFar => CacheInv'
<1> SUFFICES ASSUME CacheInv, Sc!SetFar PROVE CacheInv'
  OBVIOUS
<1>1. /\ cacheKind = "levels" /\ commands \in Seq(CacheJobs) /\ commands # <<>> /\ commands[1][1] = "set"
      /\ commands' = Tail(commands) /\ far' = commands[1][2]
      /\ UNCHANGED <<cacheKind, prefixed, near, upToDate, raced, until, meant, getters, refused, cacheTime>>
      /\ JobsFit(cacheKind, commands) /\ Len(commands) <= MaxQueued /\ MaxQueued \in Nat
  BY CacheConstants, JobLeaves DEF Sc!SetFar, Sc!Next1, Sc!redisVars, CacheInv, CacheTypes
<1>2. commands' \in Seq(CacheJobs) /\ Len(commands') <= MaxQueued
  BY <1>1, JobLeaves
<1>3. JobsFit(cacheKind, commands') /\ JobFits(cacheKind, commands[1])
  BY <1>1, JobLeaves
<1>4. CacheTypes'
  BY <1>1, <1>2, <1>3 DEF CacheInv, CacheTypes, JobFits
<1>5. FarFits'
  BY <1>1, JobLeaves DEF CacheInv, FarFits, Settled
<1>6. NearFits'
  BY <1>1, JobLeaves DEF CacheInv, NearFits
<1>7. HeldFits' /\ ResultsFit'
  BY <1>1 DEF HeldFits, ResultsFit
<1> QED
  BY <1>4, <1>5, <1>6, <1>7 DEF CacheInv

\* A set() or a delete() writes into both levels, unless a get() is between its steps.
LEMMA CacheSet == CacheInv /\ (Sc!set \/ Sc!delete) => CacheInv'
<1> SUFFICES ASSUME CacheInv, Sc!set \/ Sc!delete PROVE CacheInv'
  OBVIOUS
<1> DEFINE job == <<"set", near', 0>>
<1>1. /\ cacheKind = "levels" /\ commands \in Seq(CacheJobs) /\ upToDate \in Sc!Versions /\ upToDate < MaxValues
      /\ upToDate' = upToDate + 1 /\ near' \in {0, upToDate'} /\ commands' = Append(commands, job)
      /\ raced' = (raced \/ Sc!Getting) /\ Len(commands) < MaxQueued /\ JobsFit(cacheKind, commands)
      /\ UNCHANGED <<cacheKind, prefixed, far, until, meant, getters, refused, cacheTime>>
  BY DEF Sc!set, Sc!delete, Sc!Queue, Sc!redisVars, CacheInv, CacheTypes
<1>2. upToDate' \in Sc!Versions /\ near' \in Sc!Versions
  <2>1. 0 \in Sc!Versions
    BY CacheConstants DEF Sc!Versions
  <2> QED
    BY <1>1, <2>1, NextVersion
<1>3. job \in CacheJobs /\ job[1] = "set" /\ job[2] = near' /\ Writes(job) /\ JobFits(cacheKind, job)
  BY <1>1, <1>2 DEF CacheJobs, Whats, Writes, JobFits
<1> HIDE DEF job
<1>4. CacheTypes'
  <2>1. commands' \in Seq(CacheJobs) /\ Len(commands') <= MaxQueued /\ JobsFit(cacheKind, commands')
    BY <1>1, <1>3, JobsOK DEF CacheInv
  <2> QED
    BY <1>1, <1>2, <2>1 DEF CacheInv, CacheTypes
<1>5. FarFits'
  BY <1>1, <1>3, JobJoins DEF CacheInv, FarFits, Settled
<1>6. ~raced' => \A i \in 1 .. Len(commands) : Writes(commands[i]) /\ commands[i][1] # "fill"
  <2> SUFFICES ASSUME ~Sc!Getting, NEW i \in 1 .. Len(commands)
               PROVE  Writes(commands[i]) /\ commands[i][1] # "fill"
    BY <1>1
  <2>1. i \in DOMAIN commands
    BY <1>1
  <2>2. commands[i][1] \notin {"look", "fill"}
    BY <2>1 DEF Sc!Getting, Sc!Queued
  <2> QED
    BY <1>1, <2>2 DEF JobsFit, JobFits, Writes
<1>7. NearFits'
  <2> SUFFICES ASSUME ~raced' PROVE WritesFirst(commands') /\ Found(commands', upToDate')
    BY <1>1 DEF NearFits
  <2>1. Found(commands, upToDate')
    BY <1>6 DEF Found
  <2> QED
    BY <1>1, <1>3, <1>6, <2>1, JobJoins
<1>8. HeldFits' /\ ResultsFit'
  BY <1>1 DEF HeldFits, ResultsFit
<1> QED
  BY <1>4, <1>5, <1>7, <1>8 DEF CacheInv

\* A level, or the cache of an object, drops what it has.
LEMMA CacheDrops == CacheInv /\ Sc!Dropped => CacheInv'
<1> SUFFICES ASSUME CacheInv, Sc!Dropped PROVE CacheInv'
  OBVIOUS
<1>1. /\ cacheKind \in {"levels", "method"} /\ near' \in {0, near} /\ far' \in {0, far} /\ 0 \in Sc!Versions
      /\ UNCHANGED <<cacheKind, prefixed, commands, upToDate, raced, until, meant, getters, refused, cacheTime>>
  BY CacheConstants DEF Sc!Dropped, Sc!redisVars, Sc!Versions
<1>2. CacheTypes'
  BY <1>1 DEF CacheInv, CacheTypes
<1>3. HeldFits' /\ FarFits' /\ NearFits' /\ ResultsFit'
  BY <1>1 DEF CacheInv, HeldFits, FarFits, NearFits, ResultsFit, Settled
<1> QED
  BY <1>2, <1>3 DEF CacheInv

\* Commands to Redis, and the job of a method that makes results old: the value may be another one then.
LEMMA CacheWrites == CacheInv /\ ((\E t \in Ttls : Sc!write(t)) \/ Sc!del \/ Sc!callInvalidating) => CacheInv'
<1> SUFFICES ASSUME CacheInv, NEW t \in Ttls \cup {0}, (t \in Ttls /\ Sc!write(t)) \/ Sc!del \/ Sc!callInvalidating
             PROVE  CacheInv'
  OBVIOUS
<1>1. PICK job \in {<<"set", upToDate', t>>, <<"del", 0, 0>>, <<"invalidate", 0, 0>>} :
      /\ cacheKind = (IF job[1] = "invalidate" THEN "method" ELSE "redis")
      /\ upToDate \in Sc!Versions /\ upToDate < MaxValues /\ upToDate' = upToDate + 1
      /\ commands' = Append(commands, job) /\ Len(commands) < MaxQueued /\ commands \in Seq(CacheJobs)
      /\ raced' = (raced \/ \E g \in Getters : getters[g].phase = "holding")
      /\ UNCHANGED <<cacheKind, prefixed, near, far, until, meant, getters, refused, cacheTime>>
  BY DEF Sc!write, Sc!del, Sc!callInvalidating, Sc!Send, Sc!Queue, Sc!redisVars, CacheInv, CacheTypes
<1>2. upToDate' \in Sc!Versions /\ t \in Nat /\ 0 \in Sc!Versions
  <2>1. t \in Nat /\ 0 \in Sc!Versions
    BY CacheConstants DEF Sc!Versions
  <2>2. upToDate' \in Sc!Versions
    BY <1>1, NextVersion
  <2> QED
    BY <2>1, <2>2
<1>3. /\ job \in CacheJobs /\ JobFits(cacheKind, job) /\ (job[1] = "set" => job[2] \in {0, upToDate'})
      /\ cacheKind # "levels" /\ (cacheKind = "redis" => Writes(job))
  BY <1>1, <1>2 DEF CacheJobs, Whats, Writes, JobFits
<1>4. CacheTypes'
  <2>1. commands' \in Seq(CacheJobs) /\ Len(commands') <= MaxQueued /\ JobsFit(cacheKind, commands')
    BY <1>1, <1>3, JobsOK DEF CacheInv
  <2> QED
    BY <1>1, <1>2, <2>1 DEF CacheInv, CacheTypes
<1>5. FarFits'
  BY <1>1, <1>3, JobJoins DEF FarFits, Settled
<1>6. HeldFits'
  BY <1>1 DEF HeldFits
<1>7. NearFits'
  BY <1>1, <1>3 DEF NearFits
<1>8. ResultsFit'
  <2>1. commands' # <<>>
    BY <1>1, <1>3
  <2> QED
    BY <2>1 DEF ResultsFit
<1> QED
  BY <1>4, <1>5, <1>6, <1>7, <1>8 DEF CacheInv

\* Commands that leave the value as it is.
LEMMA CacheAsks ==
  CacheInv /\ ((\E t \in Ttls : Sc!expire(t)) \/ Sc!clear \/ \E g \in Getters : Sc!getOrSet(g)) => CacheInv'
<1> SUFFICES ASSUME CacheInv, (\E t \in Ttls : Sc!expire(t)) \/ Sc!clear \/ \E g \in Getters : Sc!getOrSet(g)
             PROVE  CacheInv'
  OBVIOUS
<1>1. \E job \in CacheJobs : /\ commands' = Append(commands, job) /\ job[1] \in {"expire", "keys", "get"}
                             /\ job[1] = "get" => job[2] \in Getters
  <2>1. CASE \E t \in Ttls : Sc!expire(t)
    BY <2>1, CacheConstants DEF Sc!expire, Sc!Send, Sc!Queue, CacheJobs, Whats, Sc!Versions
  <2>2. CASE Sc!clear
    <3>1. <<"keys", 0, 0>> \in CacheJobs
      BY CacheConstants DEF CacheJobs, Whats, Sc!Versions
    <3>2. commands' = Append(commands, <<"keys", 0, 0>>)
      BY <2>2 DEF Sc!clear, Sc!Send, Sc!Queue
    <3> QED
      BY <3>1, <3>2
  <2>3. CASE \E g \in Getters : Sc!getOrSet(g)
    BY <2>3 DEF Sc!getOrSet, Sc!Send, Sc!Queue, CacheJobs, Whats
  <2> QED
    BY <2>1, <2>2, <2>3
<1>2. /\ cacheKind = "redis" /\ Len(commands) < MaxQueued /\ commands \in Seq(CacheJobs)
      /\ UNCHANGED <<cacheKind, prefixed, near, far, upToDate, raced, until, meant, refused, cacheTime>>
  BY DEF Sc!expire, Sc!clear, Sc!getOrSet, Sc!Send, Sc!Queue, Sc!redisVars, CacheInv, CacheTypes
<1>3. PICK job \in CacheJobs : /\ commands' = Append(commands, job) /\ ~Writes(job) /\ JobFits(cacheKind, job)
  BY <1>1, <1>2 DEF Writes, JobFits
<1>4. /\ getters' \in [Getters -> [phase : Phases, value : Sc!Versions]]
      /\ \A g \in Getters : getters'[g].phase = "holding" => getters[g].phase = "holding" /\ getters'[g] = getters[g]
  BY DEF Sc!expire, Sc!clear, Sc!getOrSet, Sc!redisVars, CacheInv, CacheTypes, Phases
<1>5. CacheTypes'
  <2>1. commands' \in Seq(CacheJobs) /\ Len(commands') <= MaxQueued /\ JobsFit(cacheKind, commands')
    BY <1>2, <1>3, JobsOK DEF CacheInv
  <2> QED
    BY <1>2, <1>4, <2>1 DEF CacheInv, CacheTypes
<1>6. FarFits'
  BY <1>2, <1>3, JobJoins DEF CacheInv, FarFits, Settled
<1>7. HeldFits'
  BY <1>2, <1>4 DEF CacheInv, HeldFits
<1>8. NearFits' /\ ResultsFit'
  BY <1>2 DEF NearFits, ResultsFit
<1> QED
  BY <1>5, <1>6, <1>7, <1>8 DEF CacheInv

\* A getOrSet(), or a cached method, reads the value, gives up, or finds a result; nothing is written.
LEMMA CacheReads ==
  ASSUME NEW g \in Getters
  PROVE  CacheInv /\ (Sc!FactoryReads(g) \/ Sc!GivesUp(g) \/ Sc!callCached(g)) => CacheInv'
<1> SUFFICES ASSUME CacheInv, Sc!FactoryReads(g) \/ Sc!GivesUp(g) \/ Sc!callCached(g) PROVE CacheInv'
  OBVIOUS
<1>1. UNCHANGED <<cacheKind, prefixed, near, far, until, meant, commands, upToDate, raced, refused, cacheTime>>
  BY DEF Sc!FactoryReads, Sc!GivesUp, Sc!callCached
<1>2. /\ getters' \in [Getters -> [phase : Phases, value : Sc!Versions]]
      /\ \A h \in Getters : getters'[h].phase = "holding" => getters'[h] = getters[h] \/ getters'[h].value = upToDate
  <2>1. 0 \in Sc!Versions
    BY CacheConstants DEF Sc!Versions
  <2>2. CASE Sc!FactoryReads(g)
    BY <2>1, <2>2 DEF Sc!FactoryReads, CacheInv, CacheTypes, Phases
  <2>3. CASE Sc!GivesUp(g)
    BY <2>1, <2>3 DEF Sc!GivesUp, Sc!Idle, CacheInv, CacheTypes, Phases
  <2>4. CASE Sc!callCached(g)
    BY <2>1, <2>4 DEF Sc!callCached, CacheInv, CacheTypes, Phases
  <2> QED
    BY <2>2, <2>3, <2>4
<1>3. CacheTypes'
  BY <1>1, <1>2 DEF CacheInv, CacheTypes
<1>4. HeldFits'
  BY <1>1, <1>2 DEF CacheInv, HeldFits
<1>5. FarFits' /\ NearFits' /\ ResultsFit'
  BY <1>1 DEF CacheInv, FarFits, NearFits, ResultsFit, Settled
<1> QED
  BY <1>3, <1>4, <1>5 DEF CacheInv

\* What was computed is stored: it is up to date, unless a change raced it.
LEMMA CacheStores ==
  ASSUME NEW g \in Getters, NEW t \in Ttls
  PROVE  CacheInv /\ Sc!Store(g, t) => CacheInv'
<1> SUFFICES ASSUME CacheInv, Sc!Store(g, t) PROVE CacheInv'
  OBVIOUS
<1> DEFINE job == <<"set", getters[g].value, t>>
<1>1. /\ cacheKind = "redis" /\ commands' = Append(commands, job) /\ Len(commands) < MaxQueued
      /\ commands \in Seq(CacheJobs) /\ getters[g].phase = "holding" /\ getters[g].value \in Sc!Versions
      /\ getters' = [getters EXCEPT ![g] = Sc!Idle] /\ t \in Nat /\ 0 \in Sc!Versions
      /\ UNCHANGED <<cacheKind, prefixed, near, far, upToDate, raced, until, meant, refused, cacheTime>>
  BY CacheConstants DEF Sc!Store, Sc!Send, Sc!Queue, CacheInv, CacheTypes, Sc!Versions
<1>2. /\ getters' \in [Getters -> [phase : Phases, value : Sc!Versions]]
      /\ \A h \in Getters : getters'[h].phase = "holding" => getters'[h] = getters[h]
  BY <1>1 DEF Sc!Idle, CacheInv, CacheTypes, Phases
<1>3. ~raced => getters[g].value = upToDate
  BY <1>1 DEF CacheInv, HeldFits
<1>4. job \in CacheJobs /\ Writes(job) /\ JobFits(cacheKind, job) /\ (~raced => job[2] = upToDate)
  BY <1>1, <1>3 DEF CacheJobs, Whats, Writes, JobFits
<1> HIDE DEF job
<1>5. CacheTypes'
  <2>1. commands' \in Seq(CacheJobs) /\ Len(commands') <= MaxQueued /\ JobsFit(cacheKind, commands')
    BY <1>1, <1>4, JobsOK DEF CacheInv
  <2> QED
    BY <1>1, <1>2, <2>1 DEF CacheInv, CacheTypes
<1>6. FarFits'
  BY <1>1, <1>4, JobJoins DEF FarFits, Settled
<1>7. HeldFits'
  BY <1>1, <1>2 DEF CacheInv, HeldFits
<1>8. NearFits' /\ ResultsFit'
  BY <1>1 DEF NearFits, ResultsFit
<1> QED
  BY <1>5, <1>6, <1>7, <1>8 DEF CacheInv

\* The result of a cached method is stored.
LEMMA CacheResult ==
  ASSUME NEW g \in Getters
  PROVE  CacheInv /\ Sc!StoreResult(g) => CacheInv'
<1> SUFFICES ASSUME CacheInv, Sc!StoreResult(g) PROVE CacheInv'
  OBVIOUS
<1>1. /\ cacheKind = "method" /\ getters[g].phase = "holding" /\ getters[g].value \in Sc!Versions
      /\ near' = getters[g].value /\ getters' = [getters EXCEPT ![g] = Sc!Idle] /\ 0 \in Sc!Versions
      /\ UNCHANGED <<cacheKind, prefixed, far, until, meant, commands, upToDate, raced, refused, cacheTime>>
  BY CacheConstants DEF Sc!StoreResult, CacheInv, CacheTypes, Sc!Versions
<1>2. /\ getters' \in [Getters -> [phase : Phases, value : Sc!Versions]]
      /\ \A h \in Getters : getters'[h].phase = "holding" => getters'[h] = getters[h]
  BY <1>1 DEF Sc!Idle, CacheInv, CacheTypes, Phases
<1>3. CacheTypes'
  BY <1>1, <1>2 DEF CacheInv, CacheTypes
<1>4. HeldFits'
  BY <1>1, <1>2 DEF CacheInv, HeldFits
<1>5. FarFits' /\ NearFits'
  BY <1>1 DEF FarFits, NearFits, Settled
<1>6. ResultsFit'
  BY <1>1 DEF CacheInv, HeldFits, ResultsFit
<1> QED
  BY <1>3, <1>4, <1>5, <1>6 DEF CacheInv

\* The results that a method made old are dropped, if the cache has no prefix.
LEMMA CacheForgets == CacheInv /\ Sc!Invalidated => CacheInv'
<1> SUFFICES ASSUME CacheInv, Sc!Invalidated PROVE CacheInv'
  OBVIOUS
<1>1. /\ cacheKind = "method" /\ commands \in Seq(CacheJobs) /\ commands # <<>> /\ commands' = Tail(commands)
      /\ near' = (IF prefixed THEN near ELSE 0) /\ 0 \in Sc!Versions
      /\ UNCHANGED <<cacheKind, prefixed, far, upToDate, raced, until, meant, getters, refused, cacheTime>>
      /\ JobsFit(cacheKind, commands) /\ Len(commands) <= MaxQueued /\ MaxQueued \in Nat
  BY CacheConstants DEF Sc!Invalidated, Sc!Next1, Sc!redisVars, CacheInv, CacheTypes, Sc!Versions
<1>2. commands' \in Seq(CacheJobs) /\ Len(commands') <= MaxQueued
  BY <1>1, JobLeaves
<1>3. JobsFit(cacheKind, commands')
  BY <1>1, JobLeaves
<1>4. CacheTypes'
  BY <1>1, <1>2, <1>3 DEF CacheInv, CacheTypes
<1>5. HeldFits' /\ FarFits' /\ NearFits' /\ ResultsFit'
  BY <1>1 DEF CacheInv, HeldFits, FarFits, NearFits, ResultsFit, Settled
<1> QED
  BY <1>4, <1>5 DEF CacheInv

\* An entry is gone before its time, or when it has come.
LEMMA CacheTicks == CacheInv /\ Sc!Tick => CacheInv'
<1> SUFFICES ASSUME CacheInv, Sc!Tick PROVE CacheInv'
  OBVIOUS
<1>1. /\ cacheKind = "redis" /\ far' \in {0, far} /\ 0 \in Sc!Versions /\ cacheTime' \in 0 .. MaxCacheTime
      /\ \/ until' = until /\ meant' = meant
         \/ until' = 0 /\ meant' = 0
      /\ UNCHANGED <<cacheKind, prefixed, near, commands, getters, upToDate, raced, refused>>
  BY CacheConstants DEF Sc!Tick, Sc!Gone, Sc!Kept, CacheInv, CacheTypes, Sc!Versions
<1>2. CacheTypes'
  BY <1>1 DEF CacheInv, CacheTypes
<1>3. HeldFits' /\ FarFits' /\ NearFits' /\ ResultsFit'
  BY <1>1 DEF CacheInv, HeldFits, FarFits, NearFits, ResultsFit, Settled
<1> QED
  BY <1>2, <1>3 DEF CacheInv

\* Half of a number is a number, and twice the half is not more.
LEMMA HalfOf == \A t \in Nat : Sc!Seconds(t) \in Nat /\ 2 * Sc!Seconds(t) <= t
BY DEF Sc!Seconds

\* The server takes the first command.
LEMMA CacheExecutes == CacheInv /\ Sc!Executed => CacheInv'
<1> SUFFICES ASSUME CacheInv, Sc!Executed PROVE CacheInv'
  OBVIOUS
<1> DEFINE rest == Tail(commands)
           job == <<"del", 0, 0>>
           what == commands[1][1]
           v == commands[1][2]
           ttl == commands[1][3]
<1>1. /\ cacheKind = "redis" /\ commands \in Seq(CacheJobs) /\ commands # <<>> /\ Head(commands) = commands[1]
      /\ UNCHANGED <<cacheKind, prefixed, near, upToDate, raced, cacheTime>>
      /\ JobsFit(cacheKind, commands) /\ Len(commands) <= MaxQueued /\ MaxQueued \in Nat /\ 0 \in Sc!Versions
      /\ commands[1] \in CacheJobs
  BY CacheConstants, JobLeaves DEF Sc!Executed, CacheInv, CacheTypes, Sc!Versions
<1>2. JobFits(cacheKind, commands[1]) /\ ttl \in Nat
  BY <1>1, JobLeaves DEF CacheJobs
<1>3. rest \in Seq(CacheJobs) /\ commands' = IF what = "keys" /\ Sc!Alive /\ ~prefixed THEN Append(rest, job) ELSE rest
  <2>1. rest \in Seq(CacheJobs)
    BY <1>1, JobLeaves
  <2> HIDE DEF rest
  <2>2. rest \o <<>> = rest /\ rest \o <<job>> = Append(rest, job)
    BY <2>1
  <2> QED
    BY <1>1, <2>1, <2>2 DEF Sc!Executed, rest
<1>4. /\ what \in {"set", "del", "expire", "keys", "get"}
      /\ what = "set" => Sc!SetEx(v, ttl) /\ getters' = getters /\ v \in Sc!Versions
      /\ what = "del" => Sc!Gone /\ refused' = refused /\ getters' = getters
      /\ what = "expire" => Sc!Expire(ttl) /\ refused' = refused /\ getters' = getters
      /\ what = "keys" => Sc!Kept /\ refused' = refused /\ getters' = getters
      /\ what = "get" => /\ Sc!Kept /\ refused' = refused /\ v \in Getters
                         /\ getters' = [getters EXCEPT ![v].phase = IF Sc!Alive THEN "idle" ELSE "missed"]
  BY <1>1, <1>2 DEF Sc!Executed, JobFits
<1>5. /\ getters' \in [Getters -> [phase : Phases, value : Sc!Versions]]
      /\ \A h \in Getters : getters'[h].phase = "holding" => getters'[h] = getters[h]
  BY <1>4 DEF CacheInv, CacheTypes, Phases
<1>6. far' \in Sc!Versions /\ until' \in Nat /\ meant' \in Nat /\ (meant' # 0 => until' \in 1 .. meant')
  <2>1. /\ far \in Sc!Versions /\ until \in Nat /\ meant \in Nat /\ (meant # 0 => until \in 1 .. meant)
        /\ cacheTime \in Nat
    BY CacheConstants DEF CacheInv, CacheTypes
  <2>2. Sc!Seconds(ttl) \in Nat /\ 2 * Sc!Seconds(ttl) <= ttl
    BY <1>2, HalfOf
  <2>3. \A s \in Nat : 2 * s <= ttl /\ s # 0 => /\ cacheTime + 2 * s \in Nat /\ cacheTime + ttl \in Nat
                                                 /\ cacheTime + 2 * s \in 1 .. (cacheTime + ttl)
    BY <1>2, <2>1
  <2>7. Sc!Seconds(ttl) # 0 => /\ cacheTime + 2 * Sc!Seconds(ttl) \in Nat /\ cacheTime + ttl \in Nat
                               /\ cacheTime + 2 * Sc!Seconds(ttl) \in 1 .. (cacheTime + ttl)
    BY <2>2, <2>3
  <2>4. CASE what = "set"
    BY <1>4, <2>1, <2>7, <2>4 DEF Sc!SetEx, Sc!Kept
  <2>5. CASE what = "expire"
    BY <1>1, <1>4, <2>1, <2>7, <2>5 DEF Sc!Expire, Sc!Kept, Sc!Gone
  <2>6. CASE what \in {"del", "keys", "get"}
    BY <1>1, <1>4, <2>1, <2>6 DEF Sc!Gone, Sc!Kept
  <2> QED
    BY <1>4, <2>4, <2>5, <2>6
<1>7. job \in CacheJobs /\ job[1] = "del" /\ Writes(job) /\ JobFits("redis", job)
  BY <1>1 DEF CacheJobs, Whats, Writes, JobFits
<1>8. commands' \in Seq(CacheJobs) /\ Len(commands') <= MaxQueued /\ JobsFit(cacheKind, commands')
  <2>1. Len(rest) <= MaxQueued /\ Len(Append(rest, job)) <= MaxQueued
    BY <1>1, <1>3, JobLeaves
  <2>2. JobsFit(cacheKind, rest) /\ JobsFit(cacheKind, Append(rest, job)) /\ Append(rest, job) \in Seq(CacheJobs)
    BY <1>1, <1>3, <1>7, JobLeaves, JobJoins
  <2> QED
    BY <1>3, <2>1, <2>2
<1>9. CacheTypes'
  BY <1>1, <1>5, <1>6, <1>8 DEF CacheInv, CacheTypes
<1>10. HeldFits'
  BY <1>1, <1>5 DEF CacheInv, HeldFits
<1>11. FarFits'
  <2> SUFFICES ASSUME ~raced
               PROVE  /\ Fitting(commands', upToDate)
                      /\ ~refused' /\ ~Writing(commands') => far' \in {0, upToDate}
    BY <1>1 DEF FarFits, Settled
  <2>1. /\ Fitting(commands, upToDate)
        /\ ~refused /\ ~Writing(commands) => far \in {0, upToDate}
    BY <1>1 DEF CacheInv, FarFits, Settled
  <2>2. /\ Fitting(rest, upToDate) /\ (what = "set" /\ ~Writing(rest) => v \in {0, upToDate})
        /\ ~Writes(commands[1]) => (Writing(rest) <=> Writing(commands))
    BY <1>1, <2>1, JobLeaves
  <2>3. CASE commands' = Append(rest, job)
    <3>1. rest \in Seq(CacheJobs) /\ job \in CacheJobs /\ job[1] = "del" /\ Writes(job)
      BY <1>3, <1>7
    <3> HIDE DEF rest, job
    <3>2. Fitting(Append(rest, job), upToDate) /\ Writing(Append(rest, job))
      BY <3>1, JobJoins
    <3> QED
      BY <2>3, <3>2
  <2>4. CASE commands' = rest /\ what = "set"
    BY <1>4, <2>2, <2>4 DEF Sc!SetEx
  <2>5. CASE commands' = rest /\ what = "del"
    BY <1>4, <2>2, <2>5 DEF Sc!Gone
  <2>6. CASE commands' = rest /\ what \in {"expire", "keys", "get"}
    <3>1. far' \in {0, far} /\ refused' = refused /\ ~Writes(commands[1])
      BY <1>4, <2>6 DEF Sc!Expire, Sc!Gone, Sc!Kept, Writes
    <3> QED
      BY <2>1, <2>2, <2>6, <3>1
  <2> QED
    BY <1>3, <1>4, <2>3, <2>4, <2>5, <2>6
<1>12. NearFits' /\ ResultsFit'
  BY <1>1 DEF NearFits, ResultsFit
<1> QED
  BY <1>9, <1>10, <1>11, <1>12 DEF CacheInv

LEMMA CacheNext == CacheInv /\ [Sc!Next]_(Sc!cacheVars) => CacheInv'
<1> SUFFICES ASSUME CacheInv, [Sc!Next]_(Sc!cacheVars) PROVE CacheInv'
  OBVIOUS
<1>1. CASE UNCHANGED Sc!cacheVars
  BY <1>1 DEF Sc!cacheVars, CacheInv, CacheTypes, HeldFits, FarFits, NearFits, ResultsFit, Settled
<1>2. CASE Sc!get \/ Sc!Look \/ Sc!Fill \/ Sc!set \/ Sc!delete \/ Sc!SetFar \/ Sc!Dropped
  BY <1>2, CacheGet, CacheLook, CacheFill, CacheSet, CacheSetFar, CacheDrops
<1>3. CASE Sc!callInvalidating \/ Sc!Invalidated \/ Sc!del \/ Sc!clear \/ Sc!Executed \/ Sc!Tick
  BY <1>3, CacheWrites, CacheForgets, CacheAsks, CacheExecutes, CacheTicks
<1>4. ASSUME NEW t \in Ttls, Sc!write(t) \/ Sc!expire(t) PROVE CacheInv'
  BY <1>4, CacheWrites, CacheAsks
<1>5. ASSUME NEW t \in Ttls, NEW g \in Getters, Sc!Store(g, t) PROVE CacheInv'
  BY <1>5, CacheStores
<1>6. ASSUME NEW g \in Getters, Sc!callCached(g) \/ Sc!StoreResult(g) \/ Sc!FactoryReads(g) \/ Sc!GivesUp(g)
      PROVE  CacheInv'
  BY <1>6, CacheReads, CacheResult
<1>7. ASSUME NEW g \in Getters, Sc!getOrSet(g) PROVE CacheInv'
  BY <1>7, CacheAsks
<1> QED
  BY <1>1, <1>2, <1>3, <1>4, <1>5, <1>6, <1>7 DEF Sc!Next

\* What the run checks of the caches.
LEMMA CachesFit == CacheInv => Sc!LevelsAgree /\ Sc!ServerAgrees /\ Sc!MethodsAgree
<1> SUFFICES ASSUME CacheInv PROVE Sc!LevelsAgree /\ Sc!ServerAgrees /\ Sc!MethodsAgree
  OBVIOUS
<1>1. commands \in Seq(CacheJobs) /\ DOMAIN commands = 1 .. Len(commands)
  BY DEF CacheInv, CacheTypes
<1>2. Sc!LevelsAgree
  <2>1. commands = <<>> => ~Writing(commands)
    BY DEF Writing
  <2> QED
    BY <2>1 DEF CacheInv, FarFits, NearFits, Settled, Sc!LevelsAgree
<1>3. Sc!ServerAgrees
  <2>1. Writing(commands) => Sc!Queued("del") \/ Sc!Queued("set")
    BY <1>1 DEF Writing, Writes, Sc!Queued
  <2> QED
    BY <2>1 DEF CacheInv, CacheTypes, FarFits, Settled, Sc!ServerAgrees
<1>4. Sc!MethodsAgree
  <2>1. cacheKind = "method" /\ commands # <<>> => Sc!Queued("invalidate")
    <3> SUFFICES ASSUME cacheKind = "method", commands # <<>> PROVE Sc!Queued("invalidate")
      OBVIOUS
    <3>1. 1 \in 1 .. Len(commands)
      BY <1>1
    <3>2. commands[1][1] = "invalidate"
      BY <3>1 DEF CacheInv, CacheTypes, JobsFit, JobFits
    <3> QED
      BY <1>1, <3>1, <3>2 DEF Sc!Queued
  <2> QED
    BY <2>1 DEF CacheInv, ResultsFit, Sc!MethodsAgree
<1> QED
  BY <1>2, <1>3, <1>4

LEMMA CachesTyped == CacheInv => Sc!TypeOK
<1> SUFFICES ASSUME CacheInv PROVE Sc!TypeOK
  OBVIOUS
<1> QED
  BY DEF CacheInv, CacheTypes, Sc!TypeOK
-----------------------------------------------------------------------------
(* The configuration loader: what is current, who knows it, and who watches. *)

Configurations == [Cl!ConfigKeys -> Values \cup {0}]
Readings == [listed : BOOLEAN, keys : SUBSET Cl!ConfigKeys, got : Configurations]

LoaderTypes ==
  /\ priority \in {<<"file", "remote">>, <<"remote", "file">>}
  /\ content \in [Cl!Sources -> Configurations] /\ sourceEdits \in 0 .. MaxEdits
  /\ loading \in [Loads -> 0 .. 4] /\ merged \in [Loads -> Configurations]
  /\ read \in [Loads \cup Tasks -> Readings] /\ undisturbed \subseteq Loads
  /\ config \in Configurations /\ view \in Configurations
  /\ last \in [Cl!Generations -> Configurations]
  /\ pending \in [Cl!Generations -> SUBSET Cl!ConfigKeys]
  /\ on \in [Cl!Generations -> SUBSET Cl!ConfigKeys]

\* A load begins to watch once, when it has succeeded.
Succeeded == {l \in Loads : loading[l] = 3}
LoadsWatch ==
  /\ generations = Cardinality(Succeeded)
  /\ watchers \cup files \cup sharers \cup hasty \subseteq 1 .. generations

\* A listener that has the configuration holds its object, if it has one, so that it
\* sees the changes that are not announced.
ViewFollows == ~silent /\ ~destroyed => view = config /\ (config["n"] # 0 => viewShares)

\* A key that is not yet watched is that of a watcher, or of one that was stopped too early.
KeysOfWatchers ==
  /\ files \subseteq watchers
  /\ backend = "etcd" => \A g \in Cl!Generations : pending[g] \cup on[g] # {} => g \in watchers \cup hasty

\* While nothing disturbs a load, what it has is what the sources have.
LoadsAgree ==
  \A l \in Loads \cap undisturbed :
    /\ loading[l] \in {0, 1} => merged[l] = Cl!Empty
    /\ loading[l] = 0 => read[l] = Cl!Unread
    /\ read[l].keys # {} => read[l].listed
    /\ loading[l] = 2 => merged[l] = content[priority[1]]
    /\ Cl!Active(l) /\ read[l].listed =>
         \A k \in Cl!ConfigKeys :
           IF k \in read[l].keys THEN read[l].got[k] = 0 /\ content["remote"][k] # 0
                                 ELSE read[l].got[k] = content["remote"][k]

LoaderInv == LoaderTypes /\ LoadsWatch /\ ViewFollows /\ KeysOfWatchers /\ LoadsAgree

LEMMA LoaderConstants ==
  /\ IsFiniteSet(Loads) /\ Loads \cap Tasks = {} /\ MaxEdits \in Nat /\ Values \subseteq Nat \ {0}
  /\ Cardinality(Loads) \in Nat
<1>1. IsFiniteSet(Loads) /\ Loads \cap Tasks = {} /\ MaxEdits \in Nat /\ Values \subseteq Nat \ {0}
  <2>1. Cl!IsFiniteSet(Loads) <=> IsFiniteSet(Loads)
    BY DEF Cl!IsFiniteSet, IsFiniteSet
  <2> QED
    BY <2>1, SourcesAssumption DEF Cl!OptionsOK
<1> QED
  BY <1>1, FS_CardinalityType

\* The operators of the loader's module are those of this one.
LEMMA GenerationsAre == Cl!Generations = 1 .. Cardinality(Loads)
BY DEF Cl!Generations, Cl!Cardinality, Cardinality

LEMMA MergedAre ==
  ASSUME NEW target \in Configurations, NEW source \in Configurations
  PROVE  /\ Cl!DeepMerge(target, source) \in Configurations
         /\ \A k \in Cl!ConfigKeys :
              Cl!DeepMerge(target, source)[k] = IF source[k] = 0 THEN target[k] ELSE source[k]
BY DEF Cl!DeepMerge, Configurations

\* What is merged into nothing stays what it is.
LEMMA MergedFirst ==
  ASSUME NEW source \in Configurations
  PROVE  Cl!DeepMerge(Cl!Empty, source) = source
BY DEF Cl!DeepMerge, Cl!Empty, Configurations

LEMMA EmptyAre == Cl!Empty \in Configurations /\ Cl!Unread \in Readings
BY DEF Cl!Empty, Cl!Unread, Configurations, Readings, Cl!ConfigKeys

\* One more load has succeeded.
LEMMA OneMoreSucceeds ==
  ASSUME LoaderTypes, NEW l \in Loads, loading[l] # 3, loading' = [loading EXCEPT ![l] = 3]
  PROVE  /\ Cardinality(Succeeded') = Cardinality(Succeeded) + 1
         /\ Cardinality(Succeeded') <= Cardinality(Loads)
<1>1. Succeeded' = Succeeded \cup {l} /\ l \notin Succeeded
  BY DEF LoaderTypes, Succeeded
<1>2. IsFiniteSet(Succeeded) /\ Succeeded' \subseteq Loads
  BY LoaderConstants, FS_Subset DEF Succeeded
<1>3. Cardinality(Succeeded') = Cardinality(Succeeded) + 1
  BY <1>1, <1>2, FS_AddElement
<1>4. Cardinality(Succeeded') <= Cardinality(Loads)
  BY <1>2, LoaderConstants, FS_Subset
<1> QED
  BY <1>3, <1>4

LEMMA NoMoreSucceed ==
  ASSUME LoaderTypes, LoadsWatch
  PROVE  generations \in 0 .. Cardinality(Loads)
<1>1. Succeeded \subseteq Loads
  BY DEF Succeeded
<1>2. IsFiniteSet(Succeeded) /\ Cardinality(Succeeded) <= Cardinality(Loads)
  BY <1>1, LoaderConstants, FS_Subset
<1>3. Cardinality(Succeeded) \in Nat
  BY <1>2, FS_CardinalityType
<1> QED
  BY <1>2, <1>3, LoaderConstants DEF LoadsWatch

-----------------------------------------------------------------------------
\* A load that nothing disturbs sees the same sources before and after a step that leaves
\* them, and itself, alone.
LEMMA LoadsAgreeStays ==
  ASSUME LoadsAgree, UNCHANGED <<priority, backend, content, loading, merged>>, undisturbed' \subseteq undisturbed,
         \A l \in Loads : read'[l] = read[l]
  PROVE  LoadsAgree'
BY DEF LoadsAgree, Cl!Active

LEMMA EditKeeps ==
  ASSUME LoaderInv, NEW s \in Cl!Sources, NEW k \in Cl!ConfigKeys, NEW v \in Values \cup {0},
         Cl!Edit(s, k, v)
  PROVE  LoaderInv'
<1>1. LoaderTypes'
  <2>1. content' \in [Cl!Sources -> Configurations]
    BY DEF LoaderInv, LoaderTypes, Configurations, Cl!Edit
  <2>2. sourceEdits' \in 0 .. MaxEdits
    BY LoaderConstants DEF LoaderInv, LoaderTypes, Cl!Edit
  <2> QED
    BY <2>1, <2>2 DEF LoaderInv, LoaderTypes, Cl!Edit, Cl!configVars, Cl!watchVars
<1>2. LoadsWatch' /\ ViewFollows' /\ KeysOfWatchers'
  <2>1. Succeeded' = Succeeded
    BY DEF Succeeded, Cl!Edit
  <2> QED
    BY <2>1
    DEF LoaderInv, LoadsWatch, ViewFollows, KeysOfWatchers, Cl!Edit, Cl!configVars, Cl!watchVars
<1>3. LoadsAgree'
  <2>1. /\ UNCHANGED <<priority, backend, loading, read, merged>>
        /\ undisturbed' = {l \in undisturbed : loading[l] = 0}
    BY DEF Cl!Edit
  <2> QED
    BY <2>1 DEF LoaderInv, LoadsAgree, Cl!Active
<1> QED
  BY <1>1, <1>2, <1>3 DEF LoaderInv

LEMMA LoadKeeps ==
  ASSUME LoaderInv, NEW l \in Loads, Cl!Load(l)
  PROVE  LoaderInv'
<1>1. LoaderTypes'
  BY DEF LoaderInv, LoaderTypes, Cl!Load, Cl!sourceVars, Cl!configVars, Cl!watchVars
<1>2. LoadsWatch' /\ ViewFollows' /\ KeysOfWatchers'
  <2>1. Succeeded' = Succeeded
    BY DEF LoaderInv, LoaderTypes, Succeeded, Cl!Load
  <2> QED
    BY <2>1
    DEF LoaderInv, LoadsWatch, ViewFollows, KeysOfWatchers, Cl!Load, Cl!configVars, Cl!watchVars
<1>3. LoadsAgree'
  BY DEF LoaderInv, LoaderTypes, LoadsAgree, Cl!Load, Cl!sourceVars, Cl!Active, Cl!Unread
<1> QED
  BY <1>1, <1>2, <1>3 DEF LoaderInv
-----------------------------------------------------------------------------
\* What a list, or the answer for one key, does to what has been read.
LEMMA ReadingsStay ==
  ASSUME LoaderTypes, NEW r \in Loads \cup Tasks, Cl!RemoteList(r) \/ Cl!RemoteGet(r)
  PROVE  /\ read' \in [Loads \cup Tasks -> Readings]
         /\ \A s \in Loads \cup Tasks : s # r => read'[s] = read[s]
<1>1. ASSUME Cl!RemoteList(r)
      PROVE  /\ read' \in [Loads \cup Tasks -> Readings]
             /\ \A s \in Loads \cup Tasks : s # r => read'[s] = read[s]
  <2>1. [listed |-> TRUE, keys |-> Cl!Has(content["remote"]), got |-> Cl!Empty] \in Readings
    BY EmptyAre DEF Readings, Cl!Has
  <2> QED
    BY <1>1, <2>1 DEF LoaderTypes, Cl!RemoteList
<1>2. ASSUME Cl!RemoteGet(r)
      PROVE  /\ read' \in [Loads \cup Tasks -> Readings]
             /\ \A s \in Loads \cup Tasks : s # r => read'[s] = read[s]
  <2>1. PICK k \in read[r].keys : \E v \in {0, content["remote"][k]} :
          read' = [read EXCEPT ![r].keys = @ \ {k}, ![r].got[k] = v]
    BY <1>2 DEF Cl!RemoteGet
  <2>0. PICK v \in {0, content["remote"][k]} : read' = [read EXCEPT ![r].keys = @ \ {k}, ![r].got[k] = v]
    BY <2>1
  <2>2. read[r] \in Readings /\ k \in Cl!ConfigKeys
    BY <2>1 DEF LoaderTypes, Readings
  <2>3. v \in Values \cup {0}
    BY <2>0, <2>2 DEF LoaderTypes, Cl!Sources, Configurations
  <2>4. [read[r].got EXCEPT ![k] = v] \in Configurations
    BY <2>2, <2>3 DEF Readings, Configurations
  <2>5. [read[r] EXCEPT !.keys = @ \ {k}, !.got[k] = v] \in Readings
    BY <2>2, <2>4 DEF Readings
  <2> QED
    BY <2>0, <2>5 DEF LoaderTypes
<1> QED
  BY <1>1, <1>2

LEMMA TaskStepKeeps ==
  ASSUME LoaderInv, NEW t \in Tasks, Cl!TaskStep(t)
  PROVE  LoaderInv'
<1>1. /\ UNCHANGED <<priority, backend, listening, content, sourceEdits, loading, merged, config, loaded, view,
                     viewShares, silent, watchers, generations, files, last, sharers, pending, on,
                     hasty, destroyed>>
      /\ Cl!RemoteList(t) \/ Cl!RemoteGet(t)
      /\ undisturbed' \subseteq undisturbed
  BY DEF Cl!TaskStep, Cl!RemoteGet, Cl!sourceVars, Cl!configVars, Cl!watchVars
<1>2. /\ read' \in [Loads \cup Tasks -> Readings]
      /\ \A l \in Loads : read'[l] = read[l]
  BY <1>1, ReadingsStay, LoaderConstants DEF LoaderInv
<1>3. LoadsAgree'
  BY <1>1, <1>2, LoadsAgreeStays DEF LoaderInv
<1>4. Succeeded' = Succeeded
  BY <1>1 DEF Succeeded
<1> QED
  BY <1>1, <1>2, <1>3, <1>4 DEF LoaderInv, LoaderTypes, LoadsWatch, ViewFollows, KeysOfWatchers

LEMMA RemoteStepKeeps ==
  ASSUME LoaderInv, NEW l \in Loads, Cl!RemoteStep(l)
  PROVE  LoaderInv'
<1>1. /\ UNCHANGED <<priority, backend, listening, content, sourceEdits, loading, merged, config, loaded, view,
                     viewShares, silent, watchers, generations, files, last, sharers, pending, on,
                     hasty, destroyed>>
      /\ Cl!RemoteList(l) \/ Cl!RemoteGet(l)
      /\ undisturbed' \subseteq undisturbed /\ Cl!Active(l)
  BY DEF Cl!RemoteStep, Cl!RemoteGet, Cl!WaitsForRemote, Cl!sourceVars, Cl!configVars, Cl!watchVars
<1>2. /\ read' \in [Loads \cup Tasks -> Readings]
      /\ \A m \in Loads : m # l => read'[m] = read[m]
  BY <1>1, ReadingsStay DEF LoaderInv
<1>3. ASSUME l \in undisturbed'
      PROVE  /\ read'[l].listed
             /\ \A k \in Cl!ConfigKeys :
                  IF k \in read'[l].keys THEN read'[l].got[k] = 0 /\ content["remote"][k] # 0
                                         ELSE read'[l].got[k] = content["remote"][k]
  <2>1. CASE Cl!RemoteList(l)
    BY <2>1 DEF LoaderInv, LoaderTypes, Cl!RemoteList, Cl!Has, Cl!Empty
  <2>2. CASE ~Cl!RemoteList(l)
    <3>0. PICK k \in read[l].keys : \E v \in {0, content["remote"][k]} :
            /\ read' = [read EXCEPT ![l].keys = @ \ {k}, ![l].got[k] = v]
            /\ undisturbed' = IF v = 0 THEN undisturbed \ {l} ELSE undisturbed
      BY <1>1, <2>2 DEF Cl!RemoteGet
    <3>1. PICK v \in {0, content["remote"][k]} :
            /\ read' = [read EXCEPT ![l].keys = @ \ {k}, ![l].got[k] = v]
            /\ undisturbed' = IF v = 0 THEN undisturbed \ {l} ELSE undisturbed
      BY <3>0
    <3>2. v # 0 /\ v = content["remote"][k]
      BY <1>3, <3>1
    <3>3. read[l] \in Readings
      BY DEF LoaderInv, LoaderTypes
    <3>4. /\ read'[l].keys = read[l].keys \ {k}
          /\ read'[l].got = [read[l].got EXCEPT ![k] = v]
      BY <3>1, <3>3 DEF LoaderInv, LoaderTypes, Readings
    <3>5. k \in Cl!ConfigKeys /\ read[l].got \in Configurations
      BY <3>0, <3>3 DEF Readings
    <3>6. read[l].listed /\ read'[l].listed
      BY <1>3, <3>1, <3>3 DEF LoaderInv, LoaderTypes, LoadsAgree, Readings
    <3>7. \A j \in Cl!ConfigKeys :
            IF j \in read[l].keys THEN read[l].got[j] = 0 /\ content["remote"][j] # 0
                                  ELSE read[l].got[j] = content["remote"][j]
      BY <1>1, <1>3, <3>6 DEF LoaderInv, LoadsAgree
    <3>8. \A j \in Cl!ConfigKeys : read'[l].got[j] = IF j = k THEN v ELSE read[l].got[j]
      BY <3>4, <3>5 DEF Configurations
    <3>9. content' = content
      BY <1>1
    <3> QED
      BY <3>2, <3>4, <3>6, <3>7, <3>8, <3>9
  <2> QED
    BY <2>1, <2>2
<1>4. LoadsAgree'
  BY <1>1, <1>2, <1>3 DEF LoaderInv, LoadsAgree, Cl!Active
<1>5. Succeeded' = Succeeded
  BY <1>1 DEF Succeeded
<1> QED
  BY <1>1, <1>2, <1>4, <1>5 DEF LoaderInv, LoaderTypes, LoadsWatch, ViewFollows, KeysOfWatchers
-----------------------------------------------------------------------------
\* A load that ends replaces the configuration; one that ends well tells the listener and
\* begins to watch.
LEMMA PublishKeeps ==
  ASSUME LoaderInv, NEW l \in Loads, NEW new \in Configurations, Cl!Active(l), Cl!Publish(l, new),
         read' = [read EXCEPT ![l] = Cl!Unread],
         UNCHANGED <<priority, backend, listening, content, sourceEdits, destroyed>>,
         undisturbed' \subseteq undisturbed
  PROVE  LoaderInv'
<1>0. LoaderTypes /\ loading[l] \in {1, 2}
  BY DEF LoaderInv, Cl!Active
<1>1. /\ merged' \in [Loads -> Configurations] /\ read' \in [Loads \cup Tasks -> Readings]
      /\ \A m \in Loads : m # l => merged'[m] = merged[m] /\ read'[m] = read[m]
      /\ read'[l].keys = {}
  BY <1>0, EmptyAre DEF LoaderTypes, Cl!Publish, Cl!Unread
<1>2. ASSUME loading' \in [Loads -> 0 .. 4], loading'[l] \in {3, 4},
             \A m \in Loads : m # l => loading'[m] = loading[m]
      PROVE  LoadsAgree'
  <2>1. ASSUME NEW m \in Loads \cap undisturbed', m # l
        PROVE  m \in Loads \cap undisturbed /\ loading'[m] = loading[m] /\ merged'[m] = merged[m] /\ read'[m] = read[m]
    BY <1>1, <1>2, <2>1
  <2> QED
    BY <1>1, <1>2, <2>1 DEF LoaderInv, LoadsAgree, Cl!Active
<1>3. CASE Cl!Valid(new)
  <2>1. /\ loading' = [loading EXCEPT ![l] = 3] /\ config' = new /\ sharers' = {}
        /\ silent' = FALSE /\ view' = IF destroyed THEN view ELSE new
        /\ viewShares' = ~destroyed /\ Cl!startWatching(generations + 1)
    BY <1>3 DEF Cl!Publish
  <2>2. Cardinality(Succeeded') = Cardinality(Succeeded) + 1 /\ Cardinality(Succeeded') <= Cardinality(Loads)
    <3>1. loading[l] # 3
      BY <1>0
    <3> QED
      BY <1>0, <2>1, <3>1, OneMoreSucceeds
  <2>3. generations \in Nat /\ generations = Cardinality(Succeeded) /\ Cardinality(Loads) \in Nat
    BY <1>0, NoMoreSucceed, LoaderConstants DEF LoaderInv, LoadsWatch
  <2> DEFINE g == generations + 1
  <2>4. g \in Cl!Generations /\ generations' = g
    BY <2>1, <2>2, <2>3, GenerationsAre DEF Cl!startWatching
  <2>5. /\ watchers' = watchers \cup {g} /\ files' \subseteq files \cup {g} /\ files \subseteq files'
        /\ pending' = [pending EXCEPT ![g] = Cl!Has(content["remote"])]
        /\ last' = [last EXCEPT ![g] = Cl!Empty] /\ UNCHANGED <<on, hasty>>
    BY <2>1 DEF Cl!startWatching
  <2>6. /\ pending' \in [Cl!Generations -> SUBSET Cl!ConfigKeys]
        /\ last' \in [Cl!Generations -> Configurations]
        /\ \A h \in Cl!Generations : h # g => pending'[h] = pending[h]
    BY <1>0, <2>5, EmptyAre DEF LoaderTypes, Cl!Has
  <2>7. LoaderTypes'
    <3>1. loading' \in [Loads -> 0 .. 4]
      BY <1>0, <2>1 DEF LoaderTypes
    <3>2. config' \in Configurations /\ view' \in Configurations
      BY <1>0, <2>1 DEF LoaderTypes
    <3>3. undisturbed' \subseteq Loads
      BY <1>0 DEF LoaderTypes
    <3> QED
      BY <1>0, <1>1, <2>5, <2>6, <3>1, <3>2, <3>3 DEF LoaderTypes
  <2>8. LoadsWatch'
    <3>1. watchers \cup files \cup hasty \subseteq 1 .. generations
      BY DEF LoaderInv, LoadsWatch
    <3>2. 1 .. generations \subseteq 1 .. g /\ g \in 1 .. g
      BY <2>3
    <3>3. watchers' \cup files' \cup sharers' \cup hasty' \subseteq 1 .. g
      BY <2>1, <2>5, <3>1, <3>2
    <3> QED
      BY <2>2, <2>3, <2>4, <3>3 DEF LoadsWatch
  <2>9. ViewFollows'
    BY <2>1 DEF ViewFollows
  <2>10. KeysOfWatchers'
    BY <2>5, <2>6 DEF LoaderInv, KeysOfWatchers
  <2>11. LoadsAgree'
    <3>1. loading' \in [Loads -> 0 .. 4]
      BY <2>7 DEF LoaderTypes
    <3> QED
      BY <1>0, <1>2, <2>1, <3>1 DEF LoaderTypes
  <2> QED
    BY <2>7, <2>8, <2>9, <2>10, <2>11 DEF LoaderInv
<1>4. CASE ~Cl!Valid(new)
  <2>1. /\ loading' = [loading EXCEPT ![l] = 4] /\ config' = new /\ sharers' = {} /\ silent' = TRUE
        /\ UNCHANGED <<view, watchers, generations, files, last, pending, on, hasty>>
    BY <1>4 DEF Cl!Publish
  <2>2. Succeeded' = Succeeded
    BY <1>0, <2>1 DEF LoaderTypes, Succeeded
  <2>3. loading' \in [Loads -> 0 .. 4]
    BY <1>0, <2>1 DEF LoaderTypes
  <2>4. LoaderTypes'
    BY <1>0, <1>1, <2>1, <2>3 DEF LoaderTypes
  <2>5. LoadsWatch' /\ ViewFollows' /\ KeysOfWatchers'
    BY <2>1, <2>2 DEF LoaderInv, LoadsWatch, ViewFollows, KeysOfWatchers
  <2>6. LoadsAgree'
    BY <1>0, <1>2, <2>1, <2>3 DEF LoaderTypes
  <2> QED
    BY <2>4, <2>5, <2>6 DEF LoaderInv
<1> QED
  BY <1>3, <1>4

\* What an undisturbed load has got of a source, when it has answered, is what is there.
LEMMA AnswersAre ==
  ASSUME LoaderInv, NEW l \in Loads, Cl!Answered(l)
  PROVE  /\ Cl!Answer(l) \in Configurations
         /\ l \in undisturbed => Cl!Answer(l) = content[priority[loading[l]]]
<1>1. /\ loading[l] \in {1, 2} /\ priority[loading[l]] \in {"file", "remote"}
      /\ Cl!Source(l) = priority[loading[l]]
  BY DEF LoaderInv, LoaderTypes, Cl!Answered, Cl!Active, Cl!Source
<1>2. read[l] \in Readings /\ content["file"] \in Configurations /\ content["remote"] \in Configurations
  BY DEF LoaderInv, LoaderTypes, Cl!Sources
<1>3. CASE Cl!Source(l) = "file"
  BY <1>1, <1>2, <1>3 DEF Cl!Answer
<1>4. CASE Cl!Source(l) = "remote"
  <2>1. Cl!Answer(l) = read[l].got /\ read[l].got \in Configurations
    BY <1>2, <1>4 DEF Cl!Answer, Readings
  <2>2. Cl!Active(l) /\ read[l].listed /\ read[l].keys = {}
    BY <1>4 DEF Cl!Answered, Cl!RemoteDone
  <2>3. ASSUME l \in undisturbed PROVE read[l].got = content["remote"]
    <3>1. \A k \in Cl!ConfigKeys : read[l].got[k] = content["remote"][k]
      BY <2>2, <2>3 DEF LoaderInv, LoadsAgree
    <3> QED
      BY <1>2, <2>1, <3>1 DEF Configurations
  <2> QED
    BY <1>1, <1>4, <2>1, <2>3
<1> QED
  BY <1>1, <1>3, <1>4

LEMMA NextSourceKeeps ==
  ASSUME LoaderInv, NEW l \in Loads, Cl!NextSource(l)
  PROVE  LoaderInv'
<1>1. /\ Cl!Answered(l) /\ loading[l] = 1 /\ loading' = [loading EXCEPT ![l] = 2]
      /\ merged' = [merged EXCEPT ![l] = Cl!DeepMerge(@, Cl!Answer(l))]
      /\ read' = [read EXCEPT ![l] = Cl!Unread]
      /\ UNCHANGED <<priority, backend, listening, content, sourceEdits, undisturbed, config, loaded, view,
                     viewShares, silent, watchers, generations, files, last, sharers, pending, on,
                     hasty, destroyed>>
  BY DEF Cl!NextSource, Cl!sourceVars, Cl!configVars, Cl!watchVars
<1>2. /\ Cl!Answer(l) \in Configurations
      /\ l \in undisturbed => Cl!Answer(l) = content[priority[1]]
  BY <1>1, AnswersAre
<1>3. merged[l] \in Configurations /\ (l \in undisturbed => merged[l] = Cl!Empty)
  BY <1>1 DEF LoaderInv, LoaderTypes, LoadsAgree
<1>4. /\ Cl!DeepMerge(merged[l], Cl!Answer(l)) \in Configurations
      /\ l \in undisturbed => Cl!DeepMerge(merged[l], Cl!Answer(l)) = content[priority[1]]
  BY <1>2, <1>3, MergedAre, MergedFirst
<1>5. LoaderTypes'
  BY <1>1, <1>4, EmptyAre DEF LoaderInv, LoaderTypes
<1>6. LoadsWatch' /\ ViewFollows' /\ KeysOfWatchers'
  <2>1. Succeeded' = Succeeded
    BY <1>1 DEF LoaderInv, LoaderTypes, Succeeded
  <2> QED
    BY <1>1, <2>1 DEF LoaderInv, LoadsWatch, ViewFollows, KeysOfWatchers
<1>7. LoadsAgree'
  BY <1>1, <1>4 DEF LoaderInv, LoaderTypes, LoadsAgree, Cl!Active, Cl!Unread
<1> QED
  BY <1>5, <1>6, <1>7 DEF LoaderInv

LEMMA LoadEndKeeps ==
  ASSUME LoaderInv, NEW l \in Loads, Cl!Loaded(l)
  PROVE  LoaderInv'
<1>1. Cl!Answered(l) /\ Cl!Active(l)
  BY DEF Cl!Loaded, Cl!Answered
<1>2. Cl!DeepMerge(merged[l], Cl!Answer(l)) \in Configurations
  BY <1>1, AnswersAre, MergedAre DEF LoaderInv, LoaderTypes
<1> QED
  BY <1>1, <1>2, PublishKeeps DEF Cl!Loaded, Cl!sourceVars

LEMMA SourceFailsKeeps ==
  ASSUME LoaderInv, NEW l \in Loads, Cl!SourceFails(l)
  PROVE  LoaderInv'
<1>1. /\ Cl!Active(l) /\ undisturbed' = undisturbed \ {l} /\ loading[l] \in {1, 2}
      /\ read' = [read EXCEPT ![l] = Cl!Unread]
      /\ UNCHANGED <<priority, backend, listening, content, sourceEdits, destroyed>>
  BY DEF Cl!SourceFails, Cl!sourceVars, Cl!Active
<1>2. CASE Cl!Publish(l, merged[l])
  BY <1>1, <1>2, PublishKeeps DEF LoaderInv, LoaderTypes
<1>3. CASE ~Cl!Publish(l, merged[l])
  <2>1. /\ UNCHANGED <<merged, config, loaded, view, viewShares, silent, watchers, generations, files,
                       last, sharers, pending, on, hasty>>
        /\ \E n \in {2, 4} : loading' = [loading EXCEPT ![l] = n]
    BY <1>3 DEF Cl!SourceFails, Cl!configVars, Cl!watchVars
  <2>2. LoaderTypes'
    BY <1>1, <2>1, EmptyAre DEF LoaderInv, LoaderTypes
  <2>3. LoadsWatch' /\ ViewFollows' /\ KeysOfWatchers'
    <3>1. Succeeded' = Succeeded
      BY <1>1, <2>1 DEF LoaderInv, LoaderTypes, Succeeded
    <3> QED
      BY <1>1, <2>1, <3>1 DEF LoaderInv, LoadsWatch, ViewFollows, KeysOfWatchers
  <2>4. LoadsAgree'
    BY <1>1, <2>1 DEF LoaderInv, LoaderTypes, LoadsAgree, Cl!Active
  <2> QED
    BY <2>2, <2>3, <2>4 DEF LoaderInv
<1> QED
  BY <1>2, <1>3
-----------------------------------------------------------------------------
\* A change is merged into a copy; whoever holds the object in it has the change already,
\* and whoever listens is told the rest.
LEMMA HandleKeeps ==
  ASSUME LoaderInv, NEW new \in Configurations, NEW by \in SUBSET files,
         Cl!handleConfigChange(new, by), read' \in [Loads \cup Tasks -> Readings],
         \A l \in Loads : read'[l] = read[l]
  PROVE  LoaderInv'
<1>1. /\ UNCHANGED <<priority, backend, listening, content, sourceEdits, loading, merged, undisturbed, loaded,
                     silent, watchers, generations, files, pending, on, hasty, destroyed>>
      /\ Cl!Handle(new, by)
  BY DEF Cl!handleConfigChange, Cl!sourceVars
<1>2. LoaderTypes
  BY DEF LoaderInv
<1> DEFINE made == new["n"] # 0 /\ config["n"] = 0
<1>3. /\ config' = Cl!DeepMerge(config, new)
      /\ sharers' \subseteq sharers \cup by
      /\ view' = IF destroyed THEN view
                 ELSE [p |-> IF config'["p"] # config["p"] THEN config'["p"] ELSE view["p"],
                       n |-> IF made \/ viewShares THEN config'["n"] ELSE view["n"]]
      /\ viewShares' = (viewShares \/ (made /\ ~destroyed))
  BY <1>1 DEF Cl!Handle
<1>4. last' = [g \in Cl!Generations |->
                 IF g \in by THEN new
                 ELSE IF config["n"] # 0 /\ g \in sharers THEN [last[g] EXCEPT !["n"] = config'["n"]]
                 ELSE last[g]]
  BY <1>1 DEF Cl!Handle
<1>5. /\ config' \in Configurations
      /\ \A k \in Cl!ConfigKeys : config'[k] = IF new[k] = 0 THEN config[k] ELSE new[k]
  BY <1>2, <1>3, MergedAre DEF LoaderTypes
<1>6. "p" \in Cl!ConfigKeys /\ "n" \in Cl!ConfigKeys /\ \A k \in Cl!ConfigKeys : k \in {"p", "n"}
  BY DEF Cl!ConfigKeys
<1>7. /\ config'["p"] \in Values \cup {0} /\ config'["n"] \in Values \cup {0}
      /\ view["p"] \in Values \cup {0} /\ view["n"] \in Values \cup {0}
  BY <1>2, <1>5, <1>6 DEF LoaderTypes, Configurations
<1>8. view' \in Configurations
  <2>1. CASE destroyed
    BY <1>2, <1>3, <2>1 DEF LoaderTypes
  <2>2. CASE ~destroyed
    <3>1. \A a, b \in Values \cup {0} : [p |-> a, n |-> b] \in Configurations
      BY DEF Configurations, Cl!ConfigKeys
    <3> QED
      BY <1>3, <1>7, <2>2, <3>1
  <2> QED
    BY <2>1, <2>2
<1>9. last' \in [Cl!Generations -> Configurations]
  <2>1. \A g \in Cl!Generations : [last[g] EXCEPT !["n"] = config'["n"]] \in Configurations
    BY <1>2, <1>6, <1>7 DEF LoaderTypes, Configurations
  <2> QED
    BY <1>2, <1>4, <2>1 DEF LoaderTypes
<1>10. LoaderTypes'
  BY <1>1, <1>2, <1>5, <1>8, <1>9 DEF LoaderTypes
<1>11. LoadsWatch' /\ KeysOfWatchers'
  <2>1. Succeeded' = Succeeded
    BY <1>1 DEF Succeeded
  <2> QED
    BY <1>1, <1>3, <2>1 DEF LoaderInv, LoadsWatch, KeysOfWatchers
<1>12. ViewFollows'
  <2>1. CASE silent \/ destroyed
    BY <1>1, <2>1 DEF ViewFollows
  <2>2. CASE ~silent /\ ~destroyed
    <3>1. view = config /\ (config["n"] # 0 => viewShares)
      BY <2>2 DEF LoaderInv, ViewFollows
    <3>2. config'["n"] # 0 => viewShares'
      BY <1>3, <1>5, <1>6, <2>2, <3>1
    <3>3. view'["p"] = config'["p"] /\ view'["n"] = config'["n"]
      BY <1>3, <1>5, <1>6, <2>2, <3>1
    <3>4. view' = config'
      BY <1>5, <1>6, <1>8, <3>3 DEF Configurations
    <3> QED
      BY <3>2, <3>4 DEF ViewFollows
  <2> QED
    BY <2>1, <2>2
<1>13. LoadsAgree'
  BY <1>1, LoadsAgreeStays DEF LoaderInv
<1> QED
  BY <1>10, <1>11, <1>12, <1>13 DEF LoaderInv

LEMMA FileEventKeeps ==
  ASSUME LoaderInv, NEW g \in Cl!Generations, Cl!FileEvent(g)
  PROVE  LoaderInv'
<1>1. content["file"] \in Configurations /\ {g} \in SUBSET files
  BY DEF LoaderInv, LoaderTypes, Cl!FileEvent, Cl!Sources
<1>2. read' = read /\ Cl!handleConfigChange(content["file"], {g})
  BY DEF Cl!FileEvent
<1> QED
  BY <1>1, <1>2, HandleKeeps DEF LoaderInv, LoaderTypes

LEMMA TaskDoneKeeps ==
  ASSUME LoaderInv, NEW t \in Tasks, Cl!TaskDone(t)
  PROVE  LoaderInv'
<1>1. read[t].got \in Configurations /\ {} \in SUBSET files
  BY DEF LoaderInv, LoaderTypes, Readings
<1>2. read' = [read EXCEPT ![t] = Cl!Unread] /\ Cl!handleConfigChange(read[t].got, {})
  BY DEF Cl!TaskDone
<1>3. read' \in [Loads \cup Tasks -> Readings] /\ \A l \in Loads : read'[l] = read[l]
  BY <1>2, EmptyAre, LoaderConstants DEF LoaderInv, LoaderTypes
<1> QED
  BY <1>1, <1>2, <1>3, HandleKeeps

LEMMA WatchKeyKeeps ==
  ASSUME LoaderInv, NEW g \in Cl!Generations, NEW k \in Cl!ConfigKeys, Cl!WatchKey(g, k)
  PROVE  LoaderInv'
<1>1. /\ UNCHANGED <<priority, backend, listening, content, sourceEdits, loading, read, merged, undisturbed, config,
                     loaded, view, viewShares, silent, watchers, generations, files, last, sharers,
                     hasty, destroyed>>
      /\ k \in pending[g]
      /\ pending' = [pending EXCEPT ![g] = @ \ {k}] /\ on' = [on EXCEPT ![g] = @ \cup {k}]
  BY DEF Cl!WatchKey, Cl!sourceVars, Cl!loadVars, Cl!configVars
<1>2. LoaderTypes'
  BY <1>1 DEF LoaderInv, LoaderTypes
<1>3. KeysOfWatchers'
  BY <1>1 DEF LoaderInv, LoaderTypes, KeysOfWatchers
<1>4. LoadsWatch' /\ ViewFollows' /\ LoadsAgree'
  <2>1. Succeeded' = Succeeded
    BY <1>1 DEF Succeeded
  <2> QED
    BY <1>1, <2>1, LoadsAgreeStays DEF LoaderInv, LoadsWatch, ViewFollows
<1> QED
  BY <1>2, <1>3, <1>4 DEF LoaderInv

\* Stopping forgets the watchers, and the keys that they watch by now.
LEMMA StopKeeps ==
  ASSUME LoaderInv, Cl!StopWatching \/ Cl!destroy
  PROVE  LoaderInv'
<1>1. /\ UNCHANGED <<priority, backend, content, sourceEdits, loading, read, merged, undisturbed, config,
                     loaded, silent, generations, pending>>
      /\ watchers' = {} /\ files' = files \ watchers /\ sharers' = sharers \ watchers
      /\ last' = [g \in Cl!Generations |-> IF g \in watchers THEN Cl!Empty ELSE last[g]]
      /\ on' = [g \in Cl!Generations |-> IF backend = "etcd" /\ g \in watchers THEN {} ELSE on[g]]
      /\ hasty' = hasty \cup {g \in watchers : backend = "etcd" /\ pending[g] # {}}
  BY DEF Cl!StopWatching, Cl!destroy, Cl!stopWatching, Cl!sourceVars, Cl!loadVars
<1>0. \/ view' = view /\ viewShares' = viewShares /\ destroyed' = destroyed
      \/ view' = Cl!Empty /\ destroyed' = TRUE
  BY DEF Cl!StopWatching, Cl!destroy
<1>2. LoaderTypes'
  BY <1>0, <1>1, EmptyAre DEF LoaderInv, LoaderTypes
<1>3. KeysOfWatchers'
  BY <1>1 DEF LoaderInv, LoaderTypes, KeysOfWatchers
<1>4. LoadsWatch' /\ ViewFollows' /\ LoadsAgree'
  <2>1. Succeeded' = Succeeded
    BY <1>1 DEF Succeeded
  <2>2. ViewFollows'
    BY <1>0, <1>1 DEF LoaderInv, ViewFollows
  <2> QED
    BY <1>1, <2>1, <2>2, LoadsAgreeStays DEF LoaderInv, LoadsWatch
<1> QED
  BY <1>2, <1>3, <1>4 DEF LoaderInv
-----------------------------------------------------------------------------
LEMMA LoaderInit == Cl!Init => LoaderInv
<1> SUFFICES ASSUME Cl!Init PROVE LoaderInv
  OBVIOUS
<1>1. LoaderTypes
  <2>1. 0 \in 0 .. MaxEdits /\ 0 \in 0 .. 4
    BY LoaderConstants
  <2> QED
    BY <2>1, EmptyAre DEF LoaderTypes, Cl!Init
<1>2. LoadsWatch
  <2>1. Succeeded = {}
    BY DEF Cl!Init, Succeeded
  <2>2. Cardinality(Succeeded) = 0
    BY <2>1, FS_EmptySet
  <2> QED
    BY <2>2 DEF Cl!Init, LoadsWatch
<1>3. ViewFollows /\ KeysOfWatchers /\ LoadsAgree
  BY DEF Cl!Init, ViewFollows, KeysOfWatchers, LoadsAgree, Cl!Empty, Cl!Unread, Cl!Active, Cl!ConfigKeys
<1> QED
  BY <1>1, <1>2, <1>3 DEF LoaderInv

LEMMA LoaderNext == LoaderInv /\ [Cl!Next]_(Cl!loaderVars) => LoaderInv'
<1> SUFFICES ASSUME LoaderInv, [Cl!Next]_(Cl!loaderVars) PROVE LoaderInv'
  OBVIOUS
<1>1. CASE \E s \in Cl!Sources, k \in Cl!ConfigKeys, v \in Values \cup {0} :
             content[s][k] # v /\ Cl!Edit(s, k, v)
  BY <1>1, EditKeeps
<1>2. CASE \E l \in Loads : \/ Cl!Load(l) \/ Cl!RemoteStep(l) \/ Cl!NextSource(l)
                            \/ Cl!Loaded(l) \/ Cl!SourceFails(l)
  BY <1>2, LoadKeeps, RemoteStepKeeps, NextSourceKeeps, LoadEndKeeps, SourceFailsKeeps
<1>3. CASE \E g \in Cl!Generations : Cl!FileEvent(g) \/ \E k \in Cl!ConfigKeys : Cl!WatchKey(g, k)
  BY <1>3, FileEventKeeps, WatchKeyKeeps
<1>4. CASE \E t \in Tasks : Cl!TaskStep(t) \/ Cl!TaskDone(t)
  BY <1>4, TaskStepKeeps, TaskDoneKeeps
<1>5. CASE Cl!StopWatching \/ Cl!destroy
  BY <1>5, StopKeeps
<1>6. CASE UNCHANGED Cl!loaderVars
  <2>1. UNCHANGED configurationVars
    BY <1>6 DEF Cl!loaderVars, configurationVars, Cl!sourceVars, Cl!loadVars, Cl!configVars, Cl!watchVars
  <2>2. Succeeded' = Succeeded
    BY <2>1 DEF configurationVars, Succeeded
  <2> QED
    BY <2>1, <2>2
    DEF configurationVars, LoaderInv, LoaderTypes, LoadsWatch, ViewFollows, KeysOfWatchers, LoadsAgree, Cl!Active
<1> QED
  BY <1>1, <1>2, <1>3, <1>4, <1>5, <1>6 DEF Cl!Next

\* What the invariant says of a state, and of the end of a load.
LEMMA LoaderSafe == LoaderInv => Cl!TypeOK /\ Cl!ListenersFollow /\ Cl!WatchersKnown
<1> SUFFICES ASSUME LoaderInv PROVE Cl!TypeOK /\ Cl!ListenersFollow /\ Cl!WatchersKnown
  OBVIOUS
<1>1. generations \in 0 .. Cardinality(Loads) /\ Cl!Cardinality(Loads) = Cardinality(Loads)
  BY NoMoreSucceed DEF LoaderInv, Cl!Cardinality, Cardinality
<1>2. \A k \in Cl!ConfigKeys : {config[k], view[k]} \subseteq Values \cup {0}
  BY DEF LoaderInv, LoaderTypes, Configurations
<1>3. Cl!TypeOK
  BY <1>1, <1>2 DEF LoaderInv, LoaderTypes, LoadsWatch, Cl!TypeOK
<1> QED
  BY <1>3 DEF LoaderInv, ViewFollows, KeysOfWatchers, Cl!ListenersFollow, Cl!WatchersKnown

\* The sources by priority are both of them.
LEMMA SourcesAre ==
  LoaderInv => /\ priority[1] \in Cl!Sources /\ priority[2] \in Cl!Sources
               /\ priority[1] # priority[2]
BY DEF LoaderInv, LoaderTypes, Cl!Sources

\* A load that nothing disturbed has merged its second source into its first.
LEMMA BothMerged ==
  ASSUME LoaderInv, [Cl!Next]_(Cl!loaderVars), NEW l \in Loads \cap undisturbed',
         loading[l] = 2, loading'[l] = 3
  PROVE  config' = Cl!DeepMerge(content[priority[1]], content[priority[2]])
<1>1. Cl!Loaded(l)
  <2>0. loading \in [Loads -> 0 .. 4]
    BY DEF LoaderInv, LoaderTypes
  <2>1. ASSUME NEW m \in Loads, \/ Cl!Load(m) \/ Cl!RemoteStep(m) \/ Cl!NextSource(m)
        PROVE  FALSE
    BY <2>0, <2>1 DEF Cl!Load, Cl!RemoteStep, Cl!NextSource
  <2>2. ASSUME NEW m \in Loads, Cl!SourceFails(m)
        PROVE  FALSE
    <3>1. m # l
      BY <2>2 DEF Cl!SourceFails
    <3> QED
      BY <2>0, <2>2, <3>1 DEF Cl!SourceFails, Cl!Publish
  <2>3. ASSUME NEW m \in Loads, m # l, Cl!Loaded(m)
        PROVE  FALSE
    BY <2>0, <2>3 DEF Cl!Loaded, Cl!Publish
  <2>4. loading' # loading
    BY <2>0
  <2> QED
    BY <2>1, <2>2, <2>3, <2>4
    DEF Cl!Next, Cl!loaderVars, Cl!loadVars, Cl!Edit, Cl!FileEvent, Cl!WatchKey, Cl!TaskStep, Cl!TaskDone,
        Cl!handleConfigChange, Cl!StopWatching, Cl!destroy, Cl!stopWatching
<1>2. Cl!Answered(l) /\ config' = Cl!DeepMerge(merged[l], Cl!Answer(l)) /\ undisturbed' = undisturbed
  BY <1>1 DEF Cl!Loaded, Cl!Publish
<1>3. Cl!Answer(l) = content[priority[2]] /\ merged[l] = content[priority[1]]
  BY <1>2, AnswersAre DEF LoaderInv, LoadsAgree
<1> QED
  BY <1>2, <1>3
-----------------------------------------------------------------------------
(* What lives until it is shut down: each kind of it has its own way to wait. *)

\* What a pending call waits for tells the kind, as do the flags that it sets.
OfItsKind ==
  /\ \A c \in Starts :
       /\ starts[c] = "binding" => lifetime \in {"exporter", "grpc"}
       /\ starts[c] \in {"importing", "made"} => lifetime \in {"metrics", "tracing", "client"}
       /\ starts[c] \in {"removing", "closingAll"} => lifetime = "pools"
       /\ starts[c] = "draining" => lifetime = "grpc"
  /\ ready => lifetime \in {"exporter", "metrics", "tracing", "client"}
  /\ stopping > 0 => lifetime \in {"exporter", "tracing", "client"}
  /\ lifetime # "metrics" => \A m \in Metrics : metrics[m] = Nothing

\* While no calls have overlapped, one at most is pending, and none beside a stop.
InTurn ==
  /\ lifetime # "grpc" => \A b, c \in Li!Pending : b = c
  /\ stopping > 0 => Li!Pending = {} /\ stopping = 1 /\ (lifetime # "client" => alive = {})
  /\ \A c \in Starts :
       /\ starts[c] \in {"importing", "removing", "closingAll"} => alive = {} /\ ~ready
       /\ starts[c] \in {"removing", "closingAll"} => server # Nothing
       /\ starts[c] = "binding" /\ lifetime = "exporter" => alive = {} /\ ~ready /\ server = c
       /\ starts[c] = "made" => server = c /\ IF lifetime = "client" THEN alive = {c} ELSE ~ready

\* And what is remembered is what lives.
Remembered ==
  /\ alive \subseteq {server}
  /\ ready => server # Nothing /\ (lifetime = "client" => alive = {server})
  /\ ~ready /\ Li!Pending = {} /\ lifetime \notin {"client", "pools", "grpc"} => alive = {}
  /\ ~wasShut => \A m \in Metrics : metrics[m] \in {Nothing, server}
  /\ lifetime = "metrics" /\ ~wasShut /\ ~ready => server = Nothing \/ Li!Pending # {}
  /\ lifetime = "metrics" /\ ~wasShut /\ (\E c \in Starts : starts[c] = "importing") => server = Nothing

\* A pool that nobody removes is open.
PoolIsOpen == lifetime = "pools" /\ server \notin alive \cup {Nothing} => Li!Pending # {}

\* The gauge of a breaker that is the first of its name.
GaugeFollows ==
  /\ told => noticed
  /\ ~replaced => /\ breaker = "none" => ~noticed
                  /\ ~noticed => gauge = "unset"
                  /\ ~untold => gauge \in {"unset", breaker}

LifetimeInv ==
  /\ Li!TypeOK /\ OfItsKind /\ (~overlap => InTurn /\ Remembered)
  /\ PoolIsOpen /\ Li!StoppedIsQuiet /\ GaugeFollows /\ Li!MeshAsTold

\* What the kinds that have servers, clients, calls and pools keep.
ServiceInv ==
  /\ lifetime \in Li!Kinds
  /\ starts \in [Starts -> {"idle", "binding", "importing", "made", "removing", "closingAll",
                            "draining", "done", "failed"}]
  /\ alive \subseteq Starts /\ server \in Li!Made /\ ready \in BOOLEAN
  /\ stopping \in 0 .. 2 /\ crashed \in BOOLEAN
  /\ metrics \in [Metrics -> Li!Made] /\ spans \in [Traced -> Li!Made]
  /\ overlap \in BOOLEAN /\ wasShut \in BOOLEAN
  /\ OfItsKind /\ (~overlap => InTurn /\ Remembered) /\ PoolIsOpen /\ Li!StoppedIsQuiet

LEMMA LifetimeConstants == Starts \subseteq Nat /\ Nothing \notin Starts /\ MaxSilence \in Nat
BY LifetimesAssumption DEF Li!OptionsOK


LEMMA ExporterStarts ==
  ASSUME ServiceInv, UNCHANGED lifetime, NEW c \in Starts,
         \/ Li!start(c)
         \/ Li!Bound(c)
         \/ Li!BindFails(c)
  PROVE  ServiceInv'
<1>0. \A b \in Starts : b # Nothing
  BY LifetimeConstants
<1>1. CASE Li!start(c)
  <2>1. /\ starts' \in [Starts -> {"idle", "binding", "importing", "made", "removing", "closingAll",
                              "draining", "done", "failed"}]
       /\ alive' \subseteq Starts /\ server' \in Li!Made /\ ready' \in BOOLEAN
       /\ stopping' \in 0 .. 2 /\ crashed' \in BOOLEAN /\ overlap' \in BOOLEAN /\ wasShut' \in BOOLEAN
       /\ metrics' \in [Metrics -> Li!Made] /\ spans' \in [Traced -> Li!Made]
    BY <1>0, <1>1 DEF ServiceInv, Li!Made, Li!start, Li!New
  <2>2. OfItsKind'
    BY <1>0, <1>1 DEF ServiceInv, OfItsKind, Li!start, Li!New
  <2>3. ASSUME ~overlap' PROVE InTurn'
    BY <1>0, <1>1, <2>3 DEF ServiceInv, OfItsKind, InTurn, Remembered, Li!Pending, Li!Made, Li!start, Li!New
  <2>4. ASSUME ~overlap' PROVE Remembered'
    BY <1>0, <1>1, <2>4 DEF ServiceInv, OfItsKind, InTurn, Remembered, Li!Pending, Li!Made, Li!start, Li!New
  <2>5. PoolIsOpen'
    BY <1>0, <1>1 DEF ServiceInv, OfItsKind, PoolIsOpen, Li!Pending, Li!Made, Li!start, Li!New
  <2>6. Li!StoppedIsQuiet'
    BY <1>0, <1>1 DEF ServiceInv, OfItsKind, Li!StoppedIsQuiet, Li!NoCalls, Li!start, Li!New
  <2> QED
    BY <1>1, <2>1, <2>2, <2>3, <2>4, <2>5, <2>6 DEF ServiceInv, Li!start, Li!New
<1>2. CASE Li!Bound(c)
  BY <1>0, <1>2
  DEF ServiceInv, OfItsKind, InTurn, Remembered, PoolIsOpen, Li!StoppedIsQuiet, Li!NoCalls,
      Li!Pending, Li!Made, Li!Bound
<1>3. CASE Li!BindFails(c)
  BY <1>0, <1>3
  DEF ServiceInv, OfItsKind, InTurn, Remembered, PoolIsOpen, Li!StoppedIsQuiet, Li!NoCalls,
      Li!Pending, Li!Made, Li!BindFails
<1> QED
  BY <1>1, <1>2, <1>3

LEMMA ExporterEnds ==
  ASSUME ServiceInv, UNCHANGED lifetime,
         \/ Li!stop
         \/ Li!Stopped
  PROVE  ServiceInv'
<1>0. \A b \in Starts : b # Nothing
  BY LifetimeConstants
<1>1. CASE Li!stop
  BY <1>0, <1>1
  DEF ServiceInv, OfItsKind, InTurn, Remembered, PoolIsOpen, Li!StoppedIsQuiet, Li!NoCalls,
      Li!Pending, Li!Made, Li!stop
<1>2. CASE Li!Stopped
  <2>1. /\ starts' \in [Starts -> {"idle", "binding", "importing", "made", "removing", "closingAll",
                              "draining", "done", "failed"}]
       /\ alive' \subseteq Starts /\ server' \in Li!Made /\ ready' \in BOOLEAN
       /\ stopping' \in 0 .. 2 /\ crashed' \in BOOLEAN /\ overlap' \in BOOLEAN /\ wasShut' \in BOOLEAN
       /\ metrics' \in [Metrics -> Li!Made] /\ spans' \in [Traced -> Li!Made]
    <3>1. stopping' \in 0 .. 2
      BY <1>2 DEF Li!Stopped
    <3>2. server' \in Li!Made
      BY <1>2 DEF Li!Stopped, Li!Made
    <3>3. UNCHANGED <<starts, alive, crashed, metrics, spans, overlap, wasShut>> /\ ready' = FALSE
      BY <1>2 DEF Li!Stopped
    <3> QED
      BY <3>1, <3>2, <3>3 DEF ServiceInv
  <2>2. OfItsKind'
    BY <1>0, <1>2 DEF ServiceInv, OfItsKind, Li!Stopped
  <2>3. ASSUME ~overlap' PROVE InTurn'
    BY <1>0, <1>2, <2>3 DEF ServiceInv, OfItsKind, InTurn, Remembered, Li!Pending, Li!Made, Li!Stopped
  <2>4. ASSUME ~overlap' PROVE Remembered'
    BY <1>0, <1>2, <2>4 DEF ServiceInv, OfItsKind, InTurn, Remembered, Li!Pending, Li!Made, Li!Stopped
  <2>5. PoolIsOpen'
    BY <1>0, <1>2 DEF ServiceInv, OfItsKind, PoolIsOpen, Li!Pending, Li!Made, Li!Stopped
  <2>6. Li!StoppedIsQuiet'
    BY <1>0, <1>2 DEF ServiceInv, OfItsKind, Li!StoppedIsQuiet, Li!NoCalls, Li!Stopped
  <2> QED
    BY <1>2, <2>1, <2>2, <2>3, <2>4, <2>5, <2>6 DEF ServiceInv, Li!Stopped
<1> QED
  BY <1>1, <1>2

LEMMA Imports ==
  ASSUME ServiceInv, UNCHANGED lifetime, NEW c \in Starts,
         \/ Li!initialize(c)
         \/ Li!initializePrometheus(c)
         \/ Li!MakeProvider(c)
         \/ Li!Initialized(c)
         \/ Li!InitializeFails(c)
  PROVE  ServiceInv'
<1>0. \A b \in Starts : b # Nothing
  BY LifetimeConstants
<1>1. CASE Li!initialize(c)
  <2>1. /\ starts' \in [Starts -> {"idle", "binding", "importing", "made", "removing", "closingAll",
                              "draining", "done", "failed"}]
       /\ alive' \subseteq Starts /\ server' \in Li!Made /\ ready' \in BOOLEAN
       /\ stopping' \in 0 .. 2 /\ crashed' \in BOOLEAN /\ overlap' \in BOOLEAN /\ wasShut' \in BOOLEAN
       /\ metrics' \in [Metrics -> Li!Made] /\ spans' \in [Traced -> Li!Made]
    BY <1>0, <1>1 DEF ServiceInv, Li!Made, Li!initialize, Li!New
  <2>2. OfItsKind'
    BY <1>0, <1>1 DEF ServiceInv, OfItsKind, Li!initialize, Li!New
  <2>3. ASSUME ~overlap' PROVE InTurn'
    BY <1>0, <1>1, <2>3 DEF ServiceInv, OfItsKind, InTurn, Remembered, Li!Pending, Li!Made, Li!initialize, Li!New
  <2>4. ASSUME ~overlap' PROVE Remembered'
    BY <1>0, <1>1, <2>4 DEF ServiceInv, OfItsKind, InTurn, Remembered, Li!Pending, Li!Made, Li!initialize, Li!New
  <2>5. PoolIsOpen'
    BY <1>0, <1>1 DEF ServiceInv, OfItsKind, PoolIsOpen, Li!Pending, Li!Made, Li!initialize, Li!New
  <2>6. Li!StoppedIsQuiet'
    BY <1>0, <1>1 DEF ServiceInv, OfItsKind, Li!StoppedIsQuiet, Li!NoCalls, Li!initialize, Li!New
  <2> QED
    BY <1>1, <2>1, <2>2, <2>3, <2>4, <2>5, <2>6 DEF ServiceInv, Li!initialize, Li!New
<1>2. CASE Li!initializePrometheus(c)
  <2>1. /\ starts' \in [Starts -> {"idle", "binding", "importing", "made", "removing", "closingAll",
                              "draining", "done", "failed"}]
       /\ alive' \subseteq Starts /\ server' \in Li!Made /\ ready' \in BOOLEAN
       /\ stopping' \in 0 .. 2 /\ crashed' \in BOOLEAN /\ overlap' \in BOOLEAN /\ wasShut' \in BOOLEAN
       /\ metrics' \in [Metrics -> Li!Made] /\ spans' \in [Traced -> Li!Made]
    BY <1>0, <1>2 DEF ServiceInv, Li!Made, Li!initializePrometheus
  <2>2. OfItsKind'
    BY <1>0, <1>2 DEF ServiceInv, OfItsKind, Li!initializePrometheus
  <2>3. ASSUME ~overlap' PROVE InTurn'
    BY <1>0, <1>2, <2>3 DEF ServiceInv, OfItsKind, InTurn, Remembered, Li!Pending, Li!Made, Li!initializePrometheus
  <2>4. ASSUME ~overlap' PROVE Remembered'
    BY <1>0, <1>2, <2>4 DEF ServiceInv, OfItsKind, InTurn, Remembered, Li!Pending, Li!Made, Li!initializePrometheus
  <2>5. PoolIsOpen'
    BY <1>0, <1>2 DEF ServiceInv, OfItsKind, PoolIsOpen, Li!Pending, Li!Made, Li!initializePrometheus
  <2>6. Li!StoppedIsQuiet'
    BY <1>0, <1>2 DEF ServiceInv, OfItsKind, Li!StoppedIsQuiet, Li!NoCalls, Li!initializePrometheus
  <2> QED
    BY <1>2, <2>1, <2>2, <2>3, <2>4, <2>5, <2>6 DEF ServiceInv, Li!initializePrometheus
<1>3. CASE Li!MakeProvider(c)
  BY <1>0, <1>3
  DEF ServiceInv, OfItsKind, InTurn, Remembered, PoolIsOpen, Li!StoppedIsQuiet, Li!NoCalls,
      Li!Pending, Li!Made, Li!MakeProvider
<1>4. CASE Li!Initialized(c)
  BY <1>0, <1>4
  DEF ServiceInv, OfItsKind, InTurn, Remembered, PoolIsOpen, Li!StoppedIsQuiet, Li!NoCalls,
      Li!Pending, Li!Made, Li!Initialized
<1>5. CASE Li!InitializeFails(c)
  <2>1. /\ starts' \in [Starts -> {"idle", "binding", "importing", "made", "removing", "closingAll",
                              "draining", "done", "failed"}]
       /\ alive' \subseteq Starts /\ server' \in Li!Made /\ ready' \in BOOLEAN
       /\ stopping' \in 0 .. 2 /\ crashed' \in BOOLEAN /\ overlap' \in BOOLEAN /\ wasShut' \in BOOLEAN
       /\ metrics' \in [Metrics -> Li!Made] /\ spans' \in [Traced -> Li!Made]
    BY <1>0, <1>5 DEF ServiceInv, Li!Made, Li!InitializeFails
  <2>2. OfItsKind'
    BY <1>0, <1>5 DEF ServiceInv, OfItsKind, Li!InitializeFails
  <2>3. ASSUME ~overlap' PROVE InTurn'
    BY <1>0, <1>5, <2>3 DEF ServiceInv, OfItsKind, InTurn, Remembered, Li!Pending, Li!Made, Li!InitializeFails
  <2>4. ASSUME ~overlap' PROVE Remembered'
    BY <1>0, <1>5, <2>4 DEF ServiceInv, OfItsKind, InTurn, Remembered, Li!Pending, Li!Made, Li!InitializeFails
  <2>5. PoolIsOpen'
    BY <1>0, <1>5 DEF ServiceInv, OfItsKind, PoolIsOpen, Li!Pending, Li!Made, Li!InitializeFails
  <2>6. Li!StoppedIsQuiet'
    BY <1>0, <1>5 DEF ServiceInv, OfItsKind, Li!StoppedIsQuiet, Li!NoCalls, Li!InitializeFails
  <2> QED
    BY <1>5, <2>1, <2>2, <2>3, <2>4, <2>5, <2>6 DEF ServiceInv, Li!InitializeFails
<1> QED
  BY <1>1, <1>2, <1>3, <1>4, <1>5

LEMMA MetricsEnd ==
  ASSUME ServiceInv, UNCHANGED lifetime,
         \/ Li!ShutdownMetrics
         \/ Li!ShutdownTracing
         \/ \E flushed \in BOOLEAN : Li!TracingStopped(flushed)
         \/ \E m \in Metrics : Li!createCounter(m)
  PROVE  ServiceInv'
<1>0. \A b \in Starts : b # Nothing
  BY LifetimeConstants
<1>1. CASE Li!ShutdownMetrics
  BY <1>0, <1>1
  DEF ServiceInv, OfItsKind, InTurn, Remembered, PoolIsOpen, Li!StoppedIsQuiet, Li!NoCalls,
      Li!Pending, Li!Made, Li!ShutdownMetrics
<1>2. CASE Li!ShutdownTracing
  <2>1. /\ starts' \in [Starts -> {"idle", "binding", "importing", "made", "removing", "closingAll",
                              "draining", "done", "failed"}]
       /\ alive' \subseteq Starts /\ server' \in Li!Made /\ ready' \in BOOLEAN
       /\ stopping' \in 0 .. 2 /\ crashed' \in BOOLEAN /\ overlap' \in BOOLEAN /\ wasShut' \in BOOLEAN
       /\ metrics' \in [Metrics -> Li!Made] /\ spans' \in [Traced -> Li!Made]
    BY <1>0, <1>2 DEF ServiceInv, Li!Made, Li!ShutdownTracing
  <2>2. OfItsKind'
    BY <1>0, <1>2 DEF ServiceInv, OfItsKind, Li!ShutdownTracing
  <2>3. ASSUME ~overlap' PROVE InTurn'
    <3>1. ~overlap /\ Li!Pending = {} /\ Li!Pending' = {} /\ stopping = 0
      <4>1. ~overlap /\ Li!Pending = {} /\ ~(stopping > 0) /\ starts' = starts
        BY <1>2, <2>3 DEF Li!ShutdownTracing
      <4>2. stopping = 0
        BY <4>1 DEF ServiceInv
      <4> QED
        BY <4>1, <4>2 DEF Li!Pending
    <3>2. stopping' = 1 /\ UNCHANGED <<starts, server, ready>> /\ alive' = {}
      BY <1>2, <3>1 DEF ServiceInv, Remembered, Li!ShutdownTracing
    <3>3. \A b \in Starts : starts[b] \in {"idle", "done", "failed"}
      BY <3>1 DEF Li!Pending
    <3> QED
      BY <1>2, <3>1, <3>2, <3>3 DEF InTurn, Li!ShutdownTracing
  <2>4. ASSUME ~overlap' PROVE Remembered'
    BY <1>0, <1>2, <2>4 DEF ServiceInv, OfItsKind, InTurn, Remembered, Li!Pending, Li!Made, Li!ShutdownTracing
  <2>5. PoolIsOpen'
    BY <1>0, <1>2 DEF ServiceInv, OfItsKind, PoolIsOpen, Li!Pending, Li!Made, Li!ShutdownTracing
  <2>6. Li!StoppedIsQuiet'
    BY <1>0, <1>2 DEF ServiceInv, OfItsKind, Li!StoppedIsQuiet, Li!NoCalls, Li!ShutdownTracing
  <2> QED
    BY <1>2, <2>1, <2>2, <2>3, <2>4, <2>5, <2>6 DEF ServiceInv, Li!ShutdownTracing
<1>3. CASE \E flushed \in BOOLEAN : Li!TracingStopped(flushed)
  BY <1>0, <1>3
  DEF ServiceInv, OfItsKind, InTurn, Remembered, PoolIsOpen, Li!StoppedIsQuiet, Li!NoCalls,
      Li!Pending, Li!Made, Li!TracingStopped
<1>4. CASE \E m \in Metrics : Li!createCounter(m)
  BY <1>0, <1>4
  DEF ServiceInv, OfItsKind, InTurn, Remembered, PoolIsOpen, Li!StoppedIsQuiet, Li!NoCalls,
      Li!Pending, Li!Made, Li!createCounter
<1> QED
  BY <1>1, <1>2, <1>3, <1>4

LEMMA SpansKeep ==
  ASSUME ServiceInv, UNCHANGED lifetime,
         \/ \E c \in Traced : Li!startSpan(c)
         \/ \E c \in Traced : Li!EndSpan(c)
         \/ \E c \in Traced : Li!CallArrives(c)
  PROVE  ServiceInv'
<1>0. \A b \in Starts : b # Nothing
  BY LifetimeConstants
<1>1. CASE \E c \in Traced : Li!startSpan(c)
  BY <1>0, <1>1
  DEF ServiceInv, OfItsKind, InTurn, Remembered, PoolIsOpen, Li!StoppedIsQuiet, Li!NoCalls,
      Li!Pending, Li!Made, Li!startSpan
<1>2. CASE \E c \in Traced : Li!EndSpan(c)
  BY <1>0, <1>2
  DEF ServiceInv, OfItsKind, InTurn, Remembered, PoolIsOpen, Li!StoppedIsQuiet, Li!NoCalls,
      Li!Pending, Li!Made, Li!EndSpan
<1>3. CASE \E c \in Traced : Li!CallArrives(c)
  BY <1>0, <1>3
  DEF ServiceInv, OfItsKind, InTurn, Remembered, PoolIsOpen, Li!StoppedIsQuiet, Li!NoCalls,
      Li!Pending, Li!Made, Li!CallArrives
<1> QED
  BY <1>1, <1>2, <1>3

LEMMA ClientsConnect ==
  ASSUME ServiceInv, UNCHANGED lifetime, NEW c \in Starts,
         \/ Li!connect(c)
         \/ Li!MakeClient(c)
         \/ \E reachable \in BOOLEAN : Li!Connected(c, reachable)
  PROVE  ServiceInv'
<1>0. \A b \in Starts : b # Nothing
  BY LifetimeConstants
<1>1. CASE Li!connect(c)
  <2>1. /\ starts' \in [Starts -> {"idle", "binding", "importing", "made", "removing", "closingAll",
                              "draining", "done", "failed"}]
       /\ alive' \subseteq Starts /\ server' \in Li!Made /\ ready' \in BOOLEAN
       /\ stopping' \in 0 .. 2 /\ crashed' \in BOOLEAN /\ overlap' \in BOOLEAN /\ wasShut' \in BOOLEAN
       /\ metrics' \in [Metrics -> Li!Made] /\ spans' \in [Traced -> Li!Made]
    BY <1>0, <1>1 DEF ServiceInv, Li!Made, Li!connect, Li!New
  <2>2. OfItsKind'
    BY <1>0, <1>1 DEF ServiceInv, OfItsKind, Li!connect, Li!New
  <2>3. ASSUME ~overlap' PROVE InTurn'
    BY <1>0, <1>1, <2>3 DEF ServiceInv, OfItsKind, InTurn, Remembered, Li!Pending, Li!Made, Li!connect, Li!New
  <2>4. ASSUME ~overlap' PROVE Remembered'
    BY <1>0, <1>1, <2>4 DEF ServiceInv, OfItsKind, InTurn, Remembered, Li!Pending, Li!Made, Li!connect, Li!New
  <2>5. PoolIsOpen'
    BY <1>0, <1>1 DEF ServiceInv, OfItsKind, PoolIsOpen, Li!Pending, Li!Made, Li!connect, Li!New
  <2>6. Li!StoppedIsQuiet'
    BY <1>0, <1>1 DEF ServiceInv, OfItsKind, Li!StoppedIsQuiet, Li!NoCalls, Li!connect, Li!New
  <2> QED
    BY <1>1, <2>1, <2>2, <2>3, <2>4, <2>5, <2>6 DEF ServiceInv, Li!connect, Li!New
<1>2. CASE Li!MakeClient(c)
  BY <1>0, <1>2
  DEF ServiceInv, OfItsKind, InTurn, Remembered, PoolIsOpen, Li!StoppedIsQuiet, Li!NoCalls,
      Li!Pending, Li!Made, Li!MakeClient
<1>3. CASE \E reachable \in BOOLEAN : Li!Connected(c, reachable)
  BY <1>0, <1>3
  DEF ServiceInv, OfItsKind, InTurn, Remembered, PoolIsOpen, Li!StoppedIsQuiet, Li!NoCalls,
      Li!Pending, Li!Made, Li!Connected
<1> QED
  BY <1>1, <1>2, <1>3

LEMMA ClientsEnd ==
  ASSUME ServiceInv, UNCHANGED lifetime,
         \/ \E up \in BOOLEAN : Li!ClientEvent(up)
         \/ Li!close
         \/ \E quits \in BOOLEAN : Li!Closed(quits)
  PROVE  ServiceInv'
<1>0. \A b \in Starts : b # Nothing
  BY LifetimeConstants
<1>1. CASE \E up \in BOOLEAN : Li!ClientEvent(up)
  BY <1>0, <1>1
  DEF ServiceInv, OfItsKind, InTurn, Remembered, PoolIsOpen, Li!StoppedIsQuiet, Li!NoCalls,
      Li!Pending, Li!Made, Li!ClientEvent
<1>2. CASE Li!close
  <2>1. /\ starts' \in [Starts -> {"idle", "binding", "importing", "made", "removing", "closingAll",
                              "draining", "done", "failed"}]
       /\ alive' \subseteq Starts /\ server' \in Li!Made /\ ready' \in BOOLEAN
       /\ stopping' \in 0 .. 2 /\ crashed' \in BOOLEAN /\ overlap' \in BOOLEAN /\ wasShut' \in BOOLEAN
       /\ metrics' \in [Metrics -> Li!Made] /\ spans' \in [Traced -> Li!Made]
    BY <1>0, <1>2 DEF ServiceInv, Li!Made, Li!close
  <2>2. OfItsKind'
    BY <1>0, <1>2 DEF ServiceInv, OfItsKind, Li!close
  <2>3. ASSUME ~overlap' PROVE InTurn'
    <3>1. ~overlap /\ Li!Pending = {} /\ Li!Pending' = {} /\ stopping = 0
      <4>1. ~overlap /\ Li!Pending = {} /\ ~(stopping > 0) /\ starts' = starts
        BY <1>2, <2>3 DEF Li!close
      <4>2. stopping = 0
        BY <4>1 DEF ServiceInv
      <4> QED
        BY <4>1, <4>2 DEF Li!Pending
    <3>2. stopping' = 1 /\ UNCHANGED <<starts, server, ready>> /\ UNCHANGED alive
      BY <1>2, <3>1 DEF ServiceInv, Remembered, Li!close
    <3>3. \A b \in Starts : starts[b] \in {"idle", "done", "failed"}
      BY <3>1 DEF Li!Pending
    <3> QED
      BY <1>2, <3>1, <3>2, <3>3 DEF InTurn, Li!close
  <2>4. ASSUME ~overlap' PROVE Remembered'
    BY <1>0, <1>2, <2>4 DEF ServiceInv, OfItsKind, InTurn, Remembered, Li!Pending, Li!Made, Li!close
  <2>5. PoolIsOpen'
    BY <1>0, <1>2 DEF ServiceInv, OfItsKind, PoolIsOpen, Li!Pending, Li!Made, Li!close
  <2>6. Li!StoppedIsQuiet'
    BY <1>0, <1>2 DEF ServiceInv, OfItsKind, Li!StoppedIsQuiet, Li!NoCalls, Li!close
  <2> QED
    BY <1>2, <2>1, <2>2, <2>3, <2>4, <2>5, <2>6 DEF ServiceInv, Li!close
<1>3. CASE \E quits \in BOOLEAN : Li!Closed(quits)
  BY <1>0, <1>3
  DEF ServiceInv, OfItsKind, InTurn, Remembered, PoolIsOpen, Li!StoppedIsQuiet, Li!NoCalls,
      Li!Pending, Li!Made, Li!Closed
<1> QED
  BY <1>1, <1>2, <1>3

LEMMA PoolsKeep ==
  ASSUME ServiceInv, UNCHANGED lifetime, NEW c \in Starts,
         \/ Li!getOrCreate(c)
         \/ \E how \in {"removing", "closingAll"} : Li!remove(c, how)
         \/ Li!Removed(c)
         \/ Li!closeAll(c)
  PROVE  ServiceInv'
<1>0. \A b \in Starts : b # Nothing
  BY LifetimeConstants
<1>1. CASE Li!getOrCreate(c)
  <2>1. /\ starts' \in [Starts -> {"idle", "binding", "importing", "made", "removing", "closingAll",
                              "draining", "done", "failed"}]
       /\ alive' \subseteq Starts /\ server' \in Li!Made /\ ready' \in BOOLEAN
       /\ stopping' \in 0 .. 2 /\ crashed' \in BOOLEAN /\ overlap' \in BOOLEAN /\ wasShut' \in BOOLEAN
       /\ metrics' \in [Metrics -> Li!Made] /\ spans' \in [Traced -> Li!Made]
    BY <1>0, <1>1 DEF ServiceInv, Li!Made, Li!getOrCreate, Li!Free
  <2>2. OfItsKind'
    BY <1>0, <1>1 DEF ServiceInv, OfItsKind, Li!getOrCreate, Li!Free
  <2>3. ASSUME ~overlap' PROVE InTurn'
    BY <1>0, <1>1, <2>3 DEF ServiceInv, OfItsKind, InTurn, Remembered, Li!Pending, Li!Made, Li!getOrCreate, Li!Free
  <2>4. ASSUME ~overlap' PROVE Remembered'
    BY <1>0, <1>1, <2>4 DEF ServiceInv, OfItsKind, InTurn, Remembered, Li!Pending, Li!Made, Li!getOrCreate, Li!Free
  <2>5. PoolIsOpen'
    BY <1>0, <1>1 DEF ServiceInv, OfItsKind, PoolIsOpen, Li!Pending, Li!Made, Li!getOrCreate, Li!Free
  <2>6. Li!StoppedIsQuiet'
    BY <1>0, <1>1 DEF ServiceInv, OfItsKind, Li!StoppedIsQuiet, Li!NoCalls, Li!getOrCreate, Li!Free
  <2> QED
    BY <1>1, <2>1, <2>2, <2>3, <2>4, <2>5, <2>6 DEF ServiceInv, Li!getOrCreate, Li!Free
<1>2. CASE \E how \in {"removing", "closingAll"} : Li!remove(c, how)
  <2>1. /\ starts' \in [Starts -> {"idle", "binding", "importing", "made", "removing", "closingAll",
                              "draining", "done", "failed"}]
       /\ alive' \subseteq Starts /\ server' \in Li!Made /\ ready' \in BOOLEAN
       /\ stopping' \in 0 .. 2 /\ crashed' \in BOOLEAN /\ overlap' \in BOOLEAN /\ wasShut' \in BOOLEAN
       /\ metrics' \in [Metrics -> Li!Made] /\ spans' \in [Traced -> Li!Made]
    BY <1>0, <1>2 DEF ServiceInv, Li!Made, Li!remove, Li!Free
  <2>2. OfItsKind'
    BY <1>0, <1>2 DEF ServiceInv, OfItsKind, Li!remove, Li!Free
  <2>3. ASSUME ~overlap' PROVE InTurn'
    <3>1. ~overlap /\ Li!Pending = {} /\ InTurn /\ Remembered
      BY <1>2, <2>3 DEF ServiceInv, Li!remove
    <3>2. \A b \in Starts : starts[b] \in {"idle", "done", "failed"}
      BY <3>1 DEF Li!Pending
    <3>3. PICK how \in {"removing", "closingAll"} : Li!remove(c, how)
      BY <1>2
    <3>4. /\ \A b \in Starts : starts'[b] = IF b = c THEN how ELSE starts[b]
          /\ lifetime = "pools" /\ alive' = {} /\ server' = server /\ server # Nothing
          /\ UNCHANGED <<ready, stopping>>
      BY <3>1, <3>3 DEF ServiceInv, Remembered, Li!remove
    <3>5. \A b \in Li!Pending' : b = c
      BY <3>2, <3>4 DEF Li!Pending
    <3>6. ~ready /\ ~(stopping > 0)
      BY <3>4 DEF ServiceInv, OfItsKind
    <3> QED
      BY <3>2, <3>3, <3>4, <3>5, <3>6 DEF InTurn
  <2>4. ASSUME ~overlap' PROVE Remembered'
    BY <1>0, <1>2, <2>4 DEF ServiceInv, OfItsKind, InTurn, Remembered, Li!Pending, Li!Made, Li!remove, Li!Free
  <2>5. PoolIsOpen'
    BY <1>0, <1>2 DEF ServiceInv, OfItsKind, PoolIsOpen, Li!Pending, Li!Made, Li!remove, Li!Free
  <2>6. Li!StoppedIsQuiet'
    BY <1>0, <1>2 DEF ServiceInv, OfItsKind, Li!StoppedIsQuiet, Li!NoCalls, Li!remove, Li!Free
  <2> QED
    BY <1>2, <2>1, <2>2, <2>3, <2>4, <2>5, <2>6 DEF ServiceInv, Li!remove, Li!Free
<1>3. CASE Li!Removed(c)
  BY <1>0, <1>3
  DEF ServiceInv, OfItsKind, InTurn, Remembered, PoolIsOpen, Li!StoppedIsQuiet, Li!NoCalls,
      Li!Pending, Li!Made, Li!Removed
<1>4. CASE Li!closeAll(c)
  BY <1>0, <1>4
  DEF ServiceInv, OfItsKind, InTurn, Remembered, PoolIsOpen, Li!StoppedIsQuiet, Li!NoCalls,
      Li!Pending, Li!Made, Li!closeAll
<1> QED
  BY <1>1, <1>2, <1>3, <1>4

LEMMA ServersKeep ==
  ASSUME ServiceInv, UNCHANGED lifetime, NEW c \in Starts,
         \/ Li!StartServer(c)
         \/ Li!StopServer(c)
         \/ \E binds \in BOOLEAN : Li!ServerBound(c, binds)
         \/ \E byForce \in BOOLEAN : Li!ServerStopped(c, byForce)
  PROVE  ServiceInv'
<1>0. \A b \in Starts : b # Nothing
  BY LifetimeConstants
<1>1. CASE Li!StartServer(c)
  BY <1>0, <1>1
  DEF ServiceInv, OfItsKind, InTurn, Remembered, PoolIsOpen, Li!StoppedIsQuiet, Li!NoCalls,
      Li!Pending, Li!Made, Li!StartServer, Li!New
<1>2. CASE Li!StopServer(c)
  BY <1>0, <1>2
  DEF ServiceInv, OfItsKind, InTurn, Remembered, PoolIsOpen, Li!StoppedIsQuiet, Li!NoCalls,
      Li!Pending, Li!Made, Li!StopServer, Li!New
<1>3. CASE \E binds \in BOOLEAN : Li!ServerBound(c, binds)
  BY <1>0, <1>3
  DEF ServiceInv, OfItsKind, InTurn, Remembered, PoolIsOpen, Li!StoppedIsQuiet, Li!NoCalls,
      Li!Pending, Li!Made, Li!ServerBound
<1>4. CASE \E byForce \in BOOLEAN : Li!ServerStopped(c, byForce)
  BY <1>0, <1>4
  DEF ServiceInv, OfItsKind, InTurn, Remembered, PoolIsOpen, Li!StoppedIsQuiet, Li!NoCalls,
      Li!Pending, Li!Made, Li!ServerStopped
<1> QED
  BY <1>1, <1>2, <1>3, <1>4

\* A step of what is started and stopped, whatever its kind.
LEMMA ServicesKeep ==
  ASSUME ServiceInv, Li!ServiceStep, UNCHANGED lifetime
  PROVE  ServiceInv'
<1>1. ASSUME NEW c \in Starts, Li!start(c) \/ Li!Bound(c) \/ Li!BindFails(c) PROVE ServiceInv'
  BY <1>1, ExporterStarts
<1>2. ASSUME NEW c \in Starts,
             \/ Li!initialize(c) \/ Li!initializePrometheus(c) \/ Li!MakeProvider(c)
             \/ Li!Initialized(c) \/ Li!InitializeFails(c)
      PROVE  ServiceInv'
  BY <1>2, Imports
<1>3. ASSUME NEW c \in Starts,
             \/ Li!connect(c) \/ Li!MakeClient(c)
             \/ \E reachable \in BOOLEAN : Li!Connected(c, reachable)
      PROVE  ServiceInv'
  BY <1>3, ClientsConnect
<1>4. ASSUME NEW c \in Starts,
             \/ Li!getOrCreate(c) \/ Li!Removed(c) \/ Li!closeAll(c)
             \/ \E how \in {"removing", "closingAll"} : Li!remove(c, how)
      PROVE  ServiceInv'
  BY <1>4, PoolsKeep
<1>5. ASSUME NEW c \in Starts,
             \/ Li!StartServer(c) \/ Li!StopServer(c)
             \/ \E how \in BOOLEAN : Li!ServerBound(c, how) \/ Li!ServerStopped(c, how)
      PROVE  ServiceInv'
  BY <1>5, ServersKeep
<1>6. ASSUME Li!stop \/ Li!Stopped PROVE ServiceInv'
  BY <1>6, ExporterEnds
<1>7. ASSUME \/ Li!ShutdownMetrics \/ Li!ShutdownTracing
             \/ \E flushed \in BOOLEAN : Li!TracingStopped(flushed)
             \/ \E m \in Metrics : Li!createCounter(m)
      PROVE  ServiceInv'
  BY <1>7, MetricsEnd
<1>8. ASSUME Li!close \/ \E well \in BOOLEAN : Li!ClientEvent(well) \/ Li!Closed(well)
      PROVE  ServiceInv'
  BY <1>8, ClientsEnd
<1>9. ASSUME NEW call \in Traced, Li!startSpan(call) \/ Li!CallArrives(call) \/ Li!EndSpan(call)
      PROVE  ServiceInv'
  BY <1>9, SpansKeep
<1> QED
  BY <1>1, <1>2, <1>3, <1>4, <1>5, <1>6, <1>7, <1>8, <1>9 DEF Li!ServiceStep

LEMMA ServicesStutter ==
  ASSUME ServiceInv, UNCHANGED <<lifetime, Li!serviceVars>>
  PROVE  ServiceInv'
<1>1. UNCHANGED <<lifetime, starts, alive, server, ready, stopping, crashed, metrics, spans, overlap, wasShut>>
  BY DEF Li!serviceVars
<1>2. Li!Pending' = Li!Pending
  BY <1>1 DEF Li!Pending
<1>3. OfItsKind' /\ PoolIsOpen' /\ Li!StoppedIsQuiet'
  BY <1>1, <1>2 DEF ServiceInv, OfItsKind, PoolIsOpen, Li!StoppedIsQuiet, Li!NoCalls
<1>4. InTurn' <=> InTurn
  BY <1>1, <1>2 DEF InTurn
<1>5. Remembered' <=> Remembered
  BY <1>1, <1>2 DEF Remembered
<1> QED
  BY <1>1, <1>3, <1>4, <1>5 DEF ServiceInv

GaugeInv ==
  /\ breaker \in {"none", "closed", "open", "half_open"}
  /\ gauge \in {"closed", "open", "half_open", "unset"} /\ collecting \in BOOLEAN
  /\ told \in BOOLEAN /\ noticed \in BOOLEAN /\ untold \in BOOLEAN /\ replaced \in BOOLEAN
  /\ GaugeFollows

\* While a breaker is the first of its name, a gauge that has been set has a listener that
\* stays, and changes that no listener shows are known.
LEMMA BreakerKeeps ==
  ASSUME GaugeInv, Li!BreakerStep
  PROVE  GaugeInv'
<1>1. CASE Li!Settles
  BY <1>1 DEF GaugeInv, GaugeFollows, Li!Settles, Li!Shown
<1>2. CASE Li!StateChanges
  BY <1>2 DEF GaugeInv, GaugeFollows, Li!StateChanges, Li!Shown
<1>3. CASE Li!ResetBreaker
  BY <1>3 DEF GaugeInv, GaugeFollows, Li!ResetBreaker
<1>4. CASE Li!OldSettles
  BY <1>4 DEF GaugeInv, GaugeFollows, Li!OldSettles
<1>5. CASE Li!unregisterBreaker
  BY <1>5 DEF GaugeInv, GaugeFollows, Li!unregisterBreaker
<1>6. CASE Li!RemoveBreaker
  BY <1>6 DEF GaugeInv, GaugeFollows, Li!RemoveBreaker
<1>7. CASE \E collected \in BOOLEAN : Li!createBreaker(collected)
  <2>1. /\ breaker' = IF breaker = "none" THEN "closed" ELSE breaker
        /\ UNCHANGED <<gauge, untold, replaced>>
    BY <1>7 DEF Li!createBreaker
  <2>2. \/ UNCHANGED <<collecting, told, noticed>>
        \/ collecting' = TRUE /\ told' = TRUE /\ noticed' = TRUE
    BY <1>7 DEF Li!createBreaker, Li!Collect
  <2>3. ~replaced /\ breaker = "none" => gauge = "unset"
    BY DEF GaugeInv, GaugeFollows
  <2>4. breaker' \in {"none", "closed", "open", "half_open"} /\ (breaker' = "none" => breaker = "none")
    BY <2>1 DEF GaugeInv
  <2>5. CASE UNCHANGED <<collecting, told, noticed>>
    BY <2>1, <2>3, <2>4, <2>5 DEF GaugeInv, GaugeFollows
  <2>6. CASE collecting' = TRUE /\ told' = TRUE /\ noticed' = TRUE
    <3>1. ~replaced /\ ~untold => gauge \in {"unset", breaker'}
      BY <2>1, <2>3 DEF GaugeInv, GaugeFollows
    <3>2. breaker' # "none"
      BY <2>1
    <3>3. GaugeFollows'
      BY <2>1, <2>6, <3>1, <3>2 DEF GaugeFollows
    <3>4. /\ gauge' \in {"closed", "open", "half_open", "unset"} /\ untold' \in BOOLEAN
          /\ replaced' \in BOOLEAN /\ collecting' \in BOOLEAN /\ told' \in BOOLEAN /\ noticed' \in BOOLEAN
      BY <2>1, <2>6 DEF GaugeInv
    <3> QED
      BY <2>4, <3>3, <3>4 DEF GaugeInv
  <2> QED
    BY <2>2, <2>5, <2>6
<1> QED
  BY <1>1, <1>2, <1>3, <1>4, <1>5, <1>6, <1>7 DEF Li!BreakerStep

MeshInv ==
  /\ status \in [Meshed -> {"none", "UP", "DOWN", "MAINTENANCE"}]
  /\ said \in [Meshed -> {"none", "UP", "DOWN", "MAINTENANCE"}]
  /\ silence \in [Meshed -> 0 .. MaxSilence + 1] /\ missed \subseteq Meshed
  /\ Li!MeshAsTold

LEMMA MeshKeeps ==
  ASSUME MeshInv, Li!MeshStep
  PROVE  MeshInv'
<1>0. MaxSilence \in Nat
  BY LifetimeConstants
<1>1. ASSUME NEW m \in Meshed, NEW now \in {"none", "UP", "DOWN", "MAINTENANCE"}, Li!Given(m, now)
      PROVE  MeshInv'
  <2>1. status' \in [Meshed -> {"none", "UP", "DOWN", "MAINTENANCE"}]
        /\ said' \in [Meshed -> {"none", "UP", "DOWN", "MAINTENANCE"}]
        /\ missed' \subseteq Meshed /\ Li!MeshAsTold'
    BY <1>1 DEF MeshInv, Li!Given, Li!MeshAsTold, Li!Healthy
  <2>2. silence' \in [Meshed -> 0 .. MaxSilence + 1]
    BY <1>0, <1>1 DEF MeshInv, Li!Given
  <2> QED
    BY <2>1, <2>2 DEF MeshInv
<1>2. ASSUME NEW m \in Meshed, Li!heartbeat(m) \/ Li!NoHeartbeat(m)
      PROVE  MeshInv'
  <2>1. silence' \in [Meshed -> 0 .. MaxSilence + 1]
    BY <1>0, <1>2 DEF MeshInv, Li!heartbeat, Li!NoHeartbeat
  <2>2. UNCHANGED <<status, said, missed>>
    BY <1>2 DEF Li!heartbeat, Li!NoHeartbeat
  <2> QED
    BY <2>1, <2>2 DEF MeshInv, Li!MeshAsTold, Li!Healthy
<1>3. ASSUME NEW m \in Meshed, Li!checkServiceHealth(m)
      PROVE  MeshInv'
  BY <1>3 DEF MeshInv, Li!checkServiceHealth, Li!MeshAsTold, Li!Healthy
<1> QED
  BY <1>1, <1>2, <1>3 DEF Li!MeshStep, Li!deregisterService, Li!registerService, Li!updateServiceStatus

LEMMA LifetimeParts == LifetimeInv <=> ServiceInv /\ GaugeInv /\ MeshInv
BY DEF LifetimeInv, ServiceInv, GaugeInv, MeshInv, Li!TypeOK

LEMMA LifetimeInit == Li!Init => LifetimeInv
<1> SUFFICES ASSUME Li!Init PROVE LifetimeInv
  OBVIOUS
<1>1. ServiceInv
  <2>1. Li!Pending = {}
    BY DEF Li!Init, Li!Pending
  <2>2. 0 \in 0 .. 2 /\ ~(0 > 0)
    OBVIOUS
  <2> QED
    BY <2>1, <2>2
    DEF Li!Init, ServiceInv, Li!Made, OfItsKind, InTurn, Remembered, PoolIsOpen, Li!StoppedIsQuiet, Li!NoCalls
<1>2. GaugeInv
  BY DEF Li!Init, GaugeInv, GaugeFollows
<1>3. MeshInv
  <2>1. 0 \in 0 .. MaxSilence + 1
    BY LifetimeConstants
  <2> QED
    BY <2>1 DEF Li!Init, MeshInv, Li!MeshAsTold, Li!Healthy
<1> QED
  BY <1>1, <1>2, <1>3, LifetimeParts

LEMMA LifetimeNext == LifetimeInv /\ [Li!Next]_(Li!lifetimeVars) => LifetimeInv'
<1> SUFFICES ASSUME LifetimeInv, [Li!Next]_(Li!lifetimeVars) PROVE LifetimeInv'
  OBVIOUS
<1>0. ServiceInv /\ GaugeInv /\ MeshInv
  BY LifetimeParts
<1>1. ServiceInv'
  <2>1. CASE Li!ServiceStep /\ UNCHANGED lifetime
    BY <1>0, <2>1, ServicesKeep
  <2>2. CASE UNCHANGED <<lifetime, Li!serviceVars>>
    BY <1>0, <2>2, ServicesStutter
  <2> QED
    BY <2>1, <2>2 DEF Li!Next, Li!lifetimeVars, Li!serviceVars
<1>2. GaugeInv'
  <2>1. CASE Li!BreakerStep
    BY <1>0, <2>1, BreakerKeeps
  <2>2. CASE UNCHANGED Li!breakerVars
    BY <1>0, <2>2 DEF Li!breakerVars, GaugeInv, GaugeFollows
  <2> QED
    BY <2>1, <2>2 DEF Li!Next, Li!lifetimeVars, Li!breakerVars
<1>3. MeshInv'
  <2>1. CASE Li!MeshStep
    BY <1>0, <2>1, MeshKeeps
  <2>2. CASE UNCHANGED Li!meshVars
    BY <1>0, <2>2 DEF Li!meshVars, MeshInv, Li!MeshAsTold, Li!Healthy
  <2> QED
    BY <2>1, <2>2 DEF Li!Next, Li!lifetimeVars, Li!meshVars
<1>4. (ServiceInv /\ GaugeInv /\ MeshInv)' => LifetimeInv'
  BY DEF LifetimeInv, ServiceInv, GaugeInv, MeshInv, Li!TypeOK
<1> QED
  BY <1>1, <1>2, <1>3, <1>4

\* What the invariant says of a state.
LEMMA LifetimeSafe ==
  LifetimeInv => Li!TypeOK /\ Li!NothingLeaks /\ Li!StoppedIsQuiet /\ Li!MeshAsTold /\ Li!MetricsShown
<1> SUFFICES ASSUME LifetimeInv
             PROVE  Li!TypeOK /\ Li!NothingLeaks /\ Li!StoppedIsQuiet /\ Li!MeshAsTold /\ Li!MetricsShown
  OBVIOUS
<1>0. ServiceInv /\ GaugeInv
  BY LifetimeParts
<1>1. Li!NothingLeaks
  <2>1. ASSUME ~overlap
        PROVE  /\ alive \subseteq {server}
               /\ ready /\ stopping = 0 => server # Nothing
               /\ ready /\ lifetime = "client" /\ stopping = 0 => alive = {server}
    BY <1>0, <2>1 DEF ServiceInv, Remembered
  <2>2. ASSUME ~overlap, ~ready, stopping = 0, Li!Pending = {}, lifetime \notin {"client", "pools", "grpc"}
        PROVE  alive = {}
    BY <1>0, <2>2 DEF ServiceInv, Remembered
  <2>3. lifetime = "pools" /\ server \notin alive \cup {Nothing} => Li!Pending # {}
    BY <1>0 DEF ServiceInv, PoolIsOpen
  <2> QED
    BY <2>1, <2>2, <2>3 DEF Li!NothingLeaks
<1>2. Li!MetricsShown
  BY <1>0 DEF ServiceInv, GaugeInv, Remembered, GaugeFollows, Li!MetricsShown
<1> QED
  BY <1>1, <1>2 DEF LifetimeInv
-----------------------------------------------------------------------------
(* The classes share nothing: a step of the toolkit is one of the class    *)
(* under test, or leaves it as it is.                                      *)

LEMMA SqlSteps == [Next]_vars => [Sq!Next]_(Sq!storeVars)
BY DEF Next, vars, sqlVars, Sq!storeVars, Sq!poolVars, Sq!serverVars, Sq!callVars,
  VersionsStep, RetryStep, DeadlineStep, BusStep, HelperStep, SqlStep, CacheStep,
  ConfigurationStep, LifetimeStep, PipelineStep, MiddlewareStep

LEMMA VersionsSteps == [Next]_vars => [Cv!Next]_(Cv!versionVars)
BY DEF Next, vars, versionVars, Cv!versionVars,
  VersionsStep, RetryStep, DeadlineStep, BusStep, HelperStep, SqlStep, CacheStep,
  ConfigurationStep, LifetimeStep, PipelineStep, MiddlewareStep

LEMMA LifetimeSteps == [Next]_vars => [Li!Next]_(Li!lifetimeVars)
BY DEF Next, vars, lifetimeVars, Li!lifetimeVars,
  VersionsStep, RetryStep, DeadlineStep, BusStep, HelperStep, SqlStep, CacheStep,
  ConfigurationStep, LifetimeStep, PipelineStep, MiddlewareStep

(* However calls of createVersion() and rollback() overlap, the newest     *)
(* versions of the configuration are kept, and calls one at a time leave   *)
(* memory, file and manager in agreement; what transaction() tells its     *)
(* caller is what the database has, and its clients return to the pool;    *)
(* what starts and stops without overlapping leaves nothing running that   *)
(* nobody remembers.                                                       *)
THEOREM StorageIsTold == Spec => []StorageTold
<1>1. Init => VersionsInv /\ SqlInv /\ LifetimeInv
  BY VersionsInit, SqlInit, LifetimeInit DEF Init
<1>2. VersionsInv /\ SqlInv /\ LifetimeInv /\ [Next]_vars => (VersionsInv /\ SqlInv /\ LifetimeInv)'
  BY VersionsNext, VersionsSteps, SqlNext, SqlSteps, LifetimeNext, LifetimeSteps
<1>3. VersionsInv /\ SqlInv /\ LifetimeInv => StorageTold
  BY VersionsHold, SqlHolds, LifetimeSafe DEF StorageTold
<1> QED
  BY <1>1, <1>2, <1>3, PTL DEF Spec

LEMMA BusSteps == [Next]_vars => [Eb!Next]_(Eb!busVars)
BY DEF Next, vars, busVars, Eb!busVars, Eb!sourceVars,
  VersionsStep, RetryStep, DeadlineStep, BusStep, HelperStep, SqlStep, CacheStep,
  ConfigurationStep, LifetimeStep, PipelineStep, MiddlewareStep

LEMMA HelperSteps == [Next]_vars => [Ah!Next]_(Ah!helperVars)
BY DEF Next, vars, helperVars, Ah!helperVars, Ah!timerVars, Ah!jobVars,
  VersionsStep, RetryStep, DeadlineStep, BusStep, HelperStep, SqlStep, CacheStep,
  ConfigurationStep, LifetimeStep, PipelineStep, MiddlewareStep

LEMMA BusHolds == BusInv => Eb!NobodyIsSkipped /\ Eb!NamesAreLive /\ Eb!EveryoneIsTold
BY DEF BusInv

(* However handlers subscribe, unsubscribe, emit and throw in the middle   *)
(* of the bus's loop, and whoever else is gone, everyone is called or      *)
(* written to; a call of a debounced or throttled function is not lost,    *)
(* and the workers of mapReduce() take each item once.                     *)
THEOREM NobodyLeftOut == Spec => []NobodyIsSkipped
<1>1. Init => BusInv /\ HelperInv
  BY BusInit, HelperInit DEF Init
<1>2. BusInv /\ HelperInv /\ [Next]_vars => (BusInv /\ HelperInv)'
  BY BusNext, BusSteps, HelperNext, HelperSteps
<1>3. BusInv /\ HelperInv => NobodyIsSkipped
  BY BusHolds, HelpersHold DEF NobodyIsSkipped
<1> QED
  BY <1>1, <1>2, <1>3, PTL DEF Spec

(* A wrapper of once() that has run is dead in the Set that the map holds; *)
(* the listeners of a centre agree with it when a loop that nobody         *)
(* confused is over; debounced and throttled calls keep their distance.    *)
THEOREM OrderIsKept == Spec => CallsInOrder
<1>1. Init => BusInv /\ HelperInv
  BY BusInit, HelperInit DEF Init
<1>2. BusInv /\ HelperInv /\ [Next]_vars => (BusInv /\ HelperInv)'
  BY BusNext, BusSteps, HelperNext, HelperSteps
<1>3. BusInv /\ [Next]_vars =>
        [\A f \in DOMAIN frames' :
           LET set == frames[f].set
               i == frames'[f].next - 1
           IN  f \in DOMAIN frames /\ frames'[f].next > frames[f].next /\ set = registered /\ sets[set][i].once
               => <<set, i>> \notin ran]_(Eb!busVars)
  <2> SUFFICES ASSUME BusInv, [Eb!Next]_(Eb!busVars), NEW f \in DOMAIN frames', f \in DOMAIN frames,
                      frames'[f].next > frames[f].next, frames[f].set = registered
               PROVE  <<frames[f].set, frames'[f].next - 1>> \notin ran
    BY BusSteps
  <2> QED
    BY OnceOnly
<1>4. BusInv /\ [Next]_vars =>
        [/\ role = "center" /\ Len(frames) = 1 /\ frames' = <<>> /\ ~confused'
         => \A h \in Eb!Subscribed : \A i \in Eb!EntryOf(h) : heard[h] = emits]_(Eb!busVars)
  BY BusSteps, AllInformed
<1>5. HelperInv /\ [Next]_vars =>
        [/\ helper = "debounce" /\ ~tangled =>
              \A t \in timers \ timers' :
                t.due <= clock /\ lastArgs # Ah!None => clock - invokedAt >= Pause
         /\ runs' # runs => clock - ranAt >= Pause]_(Ah!helperVars)
  BY HelperSteps, CallsApart DEF Ah!None
<1> QED
  BY <1>1, <1>2, <1>3, <1>4, <1>5, PTL DEF Spec, CallsInOrder, Eb!OnceIsOnce, Eb!ListenersAgree, Ah!CallsAreApart

LEMMA RetrySteps == [Next]_vars => [Rt!Next]_(Rt!retryVars)
BY DEF Next, vars, retryVars, Rt!retryVars, Rt!breakerVars,
  VersionsStep, RetryStep, DeadlineStep, BusStep, HelperStep, SqlStep, CacheStep,
  ConfigurationStep, LifetimeStep, PipelineStep, MiddlewareStep

LEMMA BudgetSteps == [Next]_vars => [Tb!Next]_(Tb!budgetVars)
BY DEF Next, vars, deadlineVars, Tb!budgetVars,
  VersionsStep, RetryStep, DeadlineStep, BusStep, HelperStep, SqlStep, CacheStep,
  ConfigurationStep, LifetimeStep, PipelineStep, MiddlewareStep

(* Retry loops make their attempts, wait before their deadlines, and begin *)
(* nothing in an open breaker; deadlines shrink along a chain of services, *)
(* and no race begins below a call that has the buffer left, or less.      *)
THEOREM DeadlinesAreKept == Spec => DeadlinesHold
<1>1. Init => RetryInv /\ BudgetInv
  BY RetryInit, BudgetInit DEF Init
<1>2. RetryInv /\ BudgetInv /\ [Next]_vars => (RetryInv /\ BudgetInv)'
  BY RetryNext, RetrySteps, BudgetNext, BudgetSteps
<1>3. RetryInv /\ BudgetInv =>
        /\ subject = "Retrying" => Rt!GivesUpForAReason /\ Rt!WaitsBeforeDeadline
        /\ subject = "TimeoutBudget" => Tb!ChainShrinks
  BY RetriesHold DEF BudgetInv
<1>4. RetryInv /\ [Next]_vars =>
        [\A c \in Retriers :
           loops'[c].tries > loops[c].tries /\ Rt!UsesBreaker(c) =>
             /\ kind[c] = "engine" => left[c] > 0
             /\ state' # "open"]_(Rt!retryVars)
  BY RetrySteps, StartsTimely
<1>5. BudgetInv /\ [Next]_vars =>
        [/\ \A d \in racing' \ racing : \A a \in Tb!Above(d) : Tb!remainingMs(a) > Buffer
         /\ Tb!Latest' > Tb!Latest =>
              LET new == deadlines'[Tb!Latest]
              IN  new.parent = Tb!NoParent \/ new.remote \/ ~Tb!isExpired(new.parent)]_(Tb!budgetVars)
  BY BudgetSteps, BudgetFails
<1> QED
  BY <1>1, <1>2, <1>3, <1>4, <1>5, PTL DEF Spec, DeadlinesHold, Rt!StartsInTime, Tb!FailsFast

LEMMA CacheSteps == [Next]_vars => [Sc!Next]_(Sc!cacheVars)
BY DEF Next, vars, cacheVars, Sc!cacheVars, Sc!redisVars,
  VersionsStep, RetryStep, DeadlineStep, BusStep, HelperStep, SqlStep, CacheStep,
  ConfigurationStep, LifetimeStep, PipelineStep, MiddlewareStep

(* For every number of callers, values and queued jobs and all times to    *)
(* live: what a level, a server or a decorated method has is up to date    *)
(* when the calls have ended, unless a change overtook one of them, a time *)
(* below a second was refused, or a prefix keeps the invalidation out; and *)
(* no entry lives longer than it was meant to.  A mesh has its services as *)
(* it was told, and the metrics that are served are those that are counted.*)
THEOREM CachesStayTrue == Spec => []CachesAgree
<1>1. Init => CacheInv /\ LifetimeInv
  BY CacheInit, LifetimeInit DEF Init
<1>2. CacheInv /\ LifetimeInv /\ [Next]_vars => (CacheInv /\ LifetimeInv)'
  BY CacheNext, CacheSteps, LifetimeNext, LifetimeSteps
<1>3. CacheInv /\ LifetimeInv => CachesAgree
  BY CachesFit, LifetimeSafe DEF CachesAgree
<1> QED
  BY <1>1, <1>2, <1>3, PTL DEF Spec

LEMMA ConfigurationSteps == [Next]_vars => [Cl!Next]_(Cl!loaderVars)
BY DEF Next, vars, configurationVars, Cl!loaderVars, Cl!sourceVars, Cl!loadVars, Cl!configVars, Cl!watchVars,
  VersionsStep, RetryStep, DeadlineStep, BusStep, HelperStep, SqlStep, CacheStep,
  ConfigurationStep, LifetimeStep, PipelineStep, MiddlewareStep

(* Whatever is loaded, reloaded, changed and watched at the same time: a   *)
(* listener that was not passed over has the current configuration; every  *)
(* file watcher that runs can be stopped, and every key of etcd unless it  *)
(* was registered too late, which is not said of consul; and a load that   *)
(* nothing disturbed ends with what both sources say, merged in one order. *)
THEOREM ConfigurationIsFollowed == Spec => ConfigurationFollowed
<1>1. Init => LoaderInv
  BY LoaderInit DEF Init
<1>2. LoaderInv /\ [Next]_vars => LoaderInv'
  BY LoaderNext, ConfigurationSteps
<1>3. LoaderInv => (subject = "ConfigLoader" => Cl!ListenersFollow /\ Cl!WatchersKnown)
  BY LoaderSafe
<1>4. LoaderInv /\ [Next]_vars =>
        [\A l \in Loads \cap undisturbed' :
           loading[l] = 2 /\ loading'[l] = 3
           => \E s, t \in Cl!Sources :
                s # t /\ config' = Cl!DeepMerge(content[s], content[t])]_(Cl!loaderVars)
  BY ConfigurationSteps, BothMerged, SourcesAre
<1> QED
  BY <1>1, <1>2, <1>3, <1>4, PTL DEF Spec, ConfigurationFollowed, Cl!SourcesMerged

LEMMA PipelineSteps == [Next]_vars => [Rp!Next]_(Rp!pipelineVars)
BY DEF Next, vars, pipelineVars, Rp!pipelineVars, Rp!tableVars, Rp!requestVars, Rp!bulkheadVars,
  VersionsStep, RetryStep, DeadlineStep, BusStep, HelperStep, SqlStep, CacheStep,
  ConfigurationStep, LifetimeStep, PipelineStep, MiddlewareStep

LEMMA MiddlewareSteps == [Next]_vars => [Mw!Next]_(Mw!middlewareVars)
BY DEF Next, vars, middlewareVars, Mw!middlewareVars,
  VersionsStep, RetryStep, DeadlineStep, BusStep, HelperStep, SqlStep, CacheStep,
  ConfigurationStep, LifetimeStep, PipelineStep, MiddlewareStep

(* For every number of requests, plugins, faults, places and hooks: a      *)
(* request passes plugins and faults as they are set, more handlers run    *)
(* than there are places only by waits of the bulkhead that ended unserved,*)
(* and every request that is over was settled; hooks answer a request or   *)
(* hand it on, and what is cached for a url is a response to a GET of it.  *)
THEOREM RequestsAreSettled == Spec => RequestsSettled
<1>1. Init => PipelineInv /\ MiddlewareInv
  BY PipelineInit, MiddlewareInit DEF Init
<1>2. PipelineInv /\ MiddlewareInv /\ [Next]_vars => (PipelineInv /\ MiddlewareInv)'
  BY PipelineNext, PipelineSteps, MiddlewareNext, MiddlewareSteps
<1>3. PipelineInv =>
        (subject = "RequestPipeline" => Rp!EveryPluginAsked /\ Rp!WithinLimits /\ Rp!EveryRequestSettled)
  BY PipelineHolds
<1>4. MiddlewareInv =>
        (subject = "Middleware" => Mw!EveryRequestAnswered /\ Mw!CacheServesAnswers)
  BY MiddlewareHolds
<1> QED
  BY <1>1, <1>2, <1>3, <1>4, PTL DEF Spec, RequestsSettled

LEMMA VersionTypesHold == VersionsInv => Cv!TypeOK
BY DEF VersionsInv, VersionTypes, VersionCalls, Histories, Cv!TypeOK

LEMMA HelperTypesHold == HelperInv => Ah!TypeOK
BY HelperConstants DEF HelperInv, TimerTypes, JobTypes, Ah!TypeOK

LEMMA SqlTypesHold == SqlInv => Sq!TypeOK
BY DEF SqlInv, SqlTypes, SqlSessions, Sq!TypeOK

(* Every variable of the eleven classes stays in its range: what a queue,  *)
(* a timer, a deadline, a breaker or a Set of handlers has is bounded.     *)
THEOREM ToolkitTypes == Spec => []TypeOK
<1> DEFINE Invs == /\ VersionsInv /\ RetryInv /\ BreakerInv /\ BudgetInv
                   /\ BusInv /\ EntriesBounded /\ HelperInv /\ SqlInv /\ CacheInv
                   /\ LoaderInv /\ LifetimeInv /\ PipelineInv /\ MiddlewareInv
<1>1. Init => Invs
  <2>1. Rt!Init => Rt!Cb!Init
    BY DEF Rt!Init
  <2> QED
    BY <2>1, VersionsInit, RetryInit, BreakerInit, BudgetInit, BusInit, EntriesInit, HelperInit, SqlInit,
       CacheInit, LoaderInit, LifetimeInit, PipelineInit, MiddlewareInit DEF Init
<1>2. Invs /\ [Next]_vars => Invs'
  <2>1. RetryInv /\ BreakerInv /\ [Next]_vars => (RetryInv /\ BreakerInv)'
    BY RetryNext, BreakerNext, RetrySteps, BreakerSteps
  <2>2. BusInv /\ EntriesBounded /\ [Next]_vars => (BusInv /\ EntriesBounded)'
    BY BusNext, EntriesNext, BusSteps
  <2>3. /\ VersionsInv /\ [Next]_vars => VersionsInv'
        /\ BudgetInv /\ [Next]_vars => BudgetInv'
        /\ HelperInv /\ [Next]_vars => HelperInv'
        /\ SqlInv /\ [Next]_vars => SqlInv'
        /\ CacheInv /\ [Next]_vars => CacheInv'
    BY VersionsNext, VersionsSteps, BudgetNext, BudgetSteps, HelperNext, HelperSteps, SqlNext, SqlSteps, CacheNext, CacheSteps
  <2>4. /\ LoaderInv /\ [Next]_vars => LoaderInv'
        /\ LifetimeInv /\ [Next]_vars => LifetimeInv'
    BY LoaderNext, ConfigurationSteps, LifetimeNext, LifetimeSteps
  <2>5. /\ PipelineInv /\ [Next]_vars => PipelineInv'
        /\ MiddlewareInv /\ [Next]_vars => MiddlewareInv'
    BY PipelineNext, PipelineSteps, MiddlewareNext, MiddlewareSteps
  <2> QED
    BY <2>1, <2>2, <2>3, <2>4, <2>5
<1>3. Invs => TypeOK
  BY VersionTypesHold, RetryTypesHold, BudgetTypesHold, BusTypesHold, HelperTypesHold, SqlTypesHold, CachesTyped,
     LoaderSafe, LifetimeSafe, PipelineHolds, MiddlewareHolds DEF TypeOK
<1> QED
  BY <1>1, <1>2, <1>3, PTL DEF Spec
=============================================================================
