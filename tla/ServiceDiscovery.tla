--------------------------- MODULE ServiceDiscovery ---------------------------
(***************************************************************************)
(* BaseServiceDiscovery and its static, etcd, kubernetes and consul        *)
(* backends (packages/discovery/src/service-discovery.ts).  A refresh asks *)
(* the source with one or more awaited calls and then publishes what it    *)
(* has got; nothing keeps refreshes from overlapping.  The application is  *)
(* taken to listen for 'error', so that emitError does not throw.          *)
(*                                                                         *)
(* The second part is InMemoryServiceRegistry (service-registry.ts of the  *)
(* same package) and the memory backend, which listens to its 'register'   *)
(* and 'deregister' events for one service name.                           *)
(***************************************************************************)
EXTENDS Naturals, Sequences, SequencesExt, FiniteSets

CONSTANTS
  Instances,  \* what may be registered at the source
  Watchers,   \* callbacks given to watch()
  OneShot,    \* the watchers that unwatch from their own callback
  Refreshes,  \* refreshes in flight (a bound)
  MaxChanges, \* changes of the source (a bound)
  Observed    \* the backends that are given watchers (a bound: all share the loop)

VARIABLES
  backend,     \* options.type
  registered,  \* the instances registered at the source
  changes,     \* how often they have changed
  running, instances, watchers,  \* the fields of the base class
  seen,        \* the list each watcher was last called with (none once it has left)
  departed,    \* the one-shot watchers that have been called and have left
  watching,    \* the source's watch exists
  opening,     \* kubernetes: startWatch() awaits its module
  events,      \* its undelivered events
  closing,     \* stop() awaits client.close()
  refreshes,   \* the refreshes (for consul: polls) in flight
  failed       \* a refresh has failed

discoveryVars == <<backend, registered, changes, running, instances, watchers, seen, departed, watching, opening,
                   events, closing, refreshes, failed>>

OptionsOK == OneShot \subseteq Watchers /\ MaxChanges \in Nat
Polled == backend \in {"etcd", "kubernetes"}  \* backends with a watch of the source

\* stable and ever are history: what was registered all the time, or at some
\* time, since the refresh began.
Idle == [stage |-> "idle", initial |-> FALSE, left |-> {}, got |-> {},
         stable |-> {}, ever |-> {}]
Begun(first) == [Idle EXCEPT !.stage = "listing", !.initial = first,
                             !.stable = registered, !.ever = registered]
Free(r) == refreshes[r].stage = "idle"
FirstFree(r) == Free(r) /\ \A q \in Refreshes : Free(q) => r <= q
Starting == \E r \in Refreshes : refreshes[r].initial

Init ==
  /\ backend \in {"static", "etcd", "kubernetes", "consul"}
  /\ registered \in SUBSET Instances /\ changes = 0 /\ instances = {}
  /\ running = FALSE /\ watching = FALSE /\ opening = FALSE /\ closing = FALSE /\ failed = FALSE
  /\ watchers = <<>> /\ departed = {} /\ events = 0
  /\ seen = [w \in Watchers |-> {}]
  /\ refreshes = [r \in Refreshes |-> Idle]

\* Those in line that belong to a set, as filter() leaves them.
Kept(q, S) ==
  LET kept[n \in 0 .. Len(q)] ==
        IF n = 0 THEN <<>> ELSE IF q[n] \in S THEN Append(kept[n - 1], q[n]) ELSE kept[n - 1]
  IN  kept[Len(q)]

\* The places of the live array whose watchers the loop of updateInstances calls:
\* one that unwatches from its callback moves the next one into its place, and that
\* one is missed.
Called(places) ==
  places = {k \in DOMAIN watchers : k = 1 \/ ~(k - 1 \in places /\ watchers[k - 1] \in OneShot)}

UpdateInstances(list) ==
  \E places \in SUBSET DOMAIN watchers :
    LET told == {watchers[k] : k \in places}
    IN  /\ Called(places)
        /\ instances' = list
        /\ seen' = [w \in Watchers |-> IF w \in told \ OneShot THEN list
                                       ELSE IF w \in told THEN {} ELSE seen[w]]
        /\ departed' = departed \cup (told \cap OneShot)
        /\ watchers' = Kept(watchers, Watchers \ departed')

Watch(w) ==
  /\ backend \in Observed /\ w \notin ToSet(watchers) \cup departed
  /\ watchers' = Append(watchers, w)
  /\ seen' = [seen EXCEPT ![w] = instances]
  /\ UNCHANGED <<backend, registered, changes, running, instances, departed, watching, opening, events, closing, refreshes, failed>>

Unwatch(w) ==
  /\ w \notin OneShot
  /\ \E k \in DOMAIN watchers : watchers[k] = w /\ watchers' = RemoveAt(watchers, k)
  /\ seen' = [seen EXCEPT ![w] = {}]
  /\ UNCHANGED <<backend, registered, changes, running, instances, departed, watching, opening, events, closing, refreshes, failed>>

\* The source changes.  While it is watched an event is on its way.
SourceChanges(list) ==
  /\ list # registered /\ changes < MaxChanges
  /\ registered' = list /\ changes' = changes + 1
  /\ refreshes' = [r \in Refreshes |->
        IF Free(r) THEN Idle
        ELSE [refreshes[r] EXCEPT !.stable = @ \cap list, !.ever = @ \cup list]]
  /\ events' = IF watching THEN events + 1 ELSE events
  /\ UNCHANGED <<backend, running, instances, watchers, seen, departed, watching, opening, closing, failed>>

\* updateStaticInstances: the source of the static backend is its own field.
UpdateStaticInstances(list) ==
  /\ backend = "static" /\ list # registered /\ changes < MaxChanges
  /\ registered' = list /\ changes' = changes + 1
  /\ IF running THEN UpdateInstances(list) ELSE UNCHANGED <<instances, watchers, seen, departed>>
  /\ UNCHANGED <<backend, running, watching, opening, events, closing, refreshes, failed>>

StartStatic ==
  /\ backend = "static"
  /\ running' = TRUE
  /\ UpdateInstances(registered)
  /\ UNCHANGED <<backend, registered, changes, watching, opening, events, closing, refreshes, failed>>

\* start() of etcd and kubernetes awaits a first refresh, and only then watches.
\* (The application starts it once at a time, and not again while a watch that
\* stop() missed is still there.)
StartWatched(r) ==
  /\ Polled /\ ~running /\ ~Starting /\ ~closing /\ ~watching /\ ~opening /\ FirstFree(r)
  /\ refreshes' = [refreshes EXCEPT ![r] = Begun(TRUE)]
  /\ UNCHANGED <<backend, registered, changes, running, instances, watchers, seen, departed, watching, opening, events, closing, failed>>

\* start() of consul polls first and sets running afterwards; poll() returns at
\* once unless running, so that only a second start() begins to poll.  That one
\* sets running once more when its first poll has ended.
StartConsul ==
  /\ backend = "consul"
  /\ running' = TRUE
  /\ IF running
     THEN \E r \in Refreshes : FirstFree(r) /\ refreshes' = [refreshes EXCEPT ![r] = Begun(TRUE)]
     ELSE UNCHANGED refreshes
  /\ UNCHANGED <<backend, registered, changes, instances, watchers, seen, departed, watching, opening, events, closing, failed>>

EventDropped(r) ==  \* faulty: an event during a refresh is taken for one and the same change
  /\ events > 0 /\ FirstFree(r) /\ events' = events - 1
  /\ refreshes' = IF \E q \in Refreshes : ~Free(q) THEN refreshes
                  ELSE [refreshes EXCEPT ![r] = Begun(FALSE)]
  /\ UNCHANGED <<backend, registered, changes, running, instances, watchers, seen, departed, watching, opening, closing, failed>>

EventArrives(r) ==
  /\ events > 0 /\ FirstFree(r)
  /\ events' = events - 1
  /\ refreshes' = [refreshes EXCEPT ![r] = Begun(FALSE)]
  /\ UNCHANGED <<backend, registered, changes, running, instances, watchers, seen, departed, watching, opening, closing, failed>>

\* What follows the last call of a refresh: a start() that waited for it goes on
\* to watch (for kubernetes after awaiting a module), a poll polls again while
\* running.
Ended(r) ==
  /\ refreshes' = [refreshes EXCEPT ![r] =
        IF backend = "consul" /\ running THEN Begun(FALSE) ELSE Idle]
  /\ watching' = (watching \/ (refreshes[r].initial /\ backend = "etcd"))
  /\ opening' = (opening \/ (refreshes[r].initial /\ backend = "kubernetes"))
  /\ running' = (running \/ refreshes[r].initial)

WatchOpens ==
  /\ opening /\ opening' = FALSE /\ watching' = TRUE
  /\ UNCHANGED <<backend, registered, changes, running, instances, watchers, seen, departed, events,
                 closing, refreshes, failed>>

Publish(r, list) == UpdateInstances(list) /\ Ended(r)

\* The source answers a listing.  For kubernetes this is all; consul's empty
\* answers are ignored; for etcd each key listed is then read on its own.
List(r) ==
  /\ refreshes[r].stage = "listing"
  /\ CASE backend = "consul" /\ registered = {} ->
            Ended(r) /\ UNCHANGED <<instances, watchers, seen, departed>>
       [] backend = "etcd" /\ registered # {} ->
            /\ refreshes' = [refreshes EXCEPT ![r].stage = "reading", ![r].left = registered]
            /\ UNCHANGED <<running, instances, watchers, seen, departed, watching, opening>>
       [] OTHER -> Publish(r, registered)
  /\ UNCHANGED <<backend, registered, changes, events, closing, failed>>

ReadFirstOnly(r, i) ==  \* faulty: the list is published with the first answer
  /\ refreshes[r].stage = "reading" /\ i \in refreshes[r].left
  /\ Publish(r, {i} \cap registered)
  /\ UNCHANGED <<backend, registered, changes, events, closing, failed>>

\* etcd: one key is read, and skipped if it has gone meanwhile; the last one ends
\* the refresh.
Read(r, i) ==
  /\ refreshes[r].stage = "reading" /\ i \in refreshes[r].left
  /\ LET got == refreshes[r].got \cup ({i} \cap registered)
     IN  IF refreshes[r].left = {i}
         THEN Publish(r, got)
         ELSE /\ refreshes' = [refreshes EXCEPT ![r].left = @ \ {i}, ![r].got = got]
              /\ UNCHANGED <<running, instances, watchers, seen, departed, watching, opening>>
  /\ UNCHANGED <<backend, registered, changes, events, closing, failed>>

Fail(r) ==
  /\ ~Free(r)
  /\ Ended(r) /\ failed' = TRUE
  /\ UNCHANGED <<backend, registered, changes, instances, watchers, seen, departed, events, closing>>

\* stop(): cancels the watch; etcd then waits for its client to close.  Nothing
\* ends the refreshes in flight, or a watch that is about to open.
Stop ==
  /\ ~closing
  /\ watching' = FALSE /\ events' = 0
  /\ IF backend = "etcd"
     THEN closing' = TRUE /\ UNCHANGED <<running, instances, watchers, seen, departed>>
     ELSE running' = FALSE /\ UpdateInstances({}) /\ UNCHANGED closing
  /\ UNCHANGED <<backend, registered, changes, opening, refreshes, failed>>

Closed ==
  /\ closing /\ closing' = FALSE
  /\ running' = FALSE
  /\ UpdateInstances({})
  /\ UNCHANGED <<backend, registered, changes, watching, opening, events, refreshes, failed>>

Next ==
  \/ \E w \in Watchers : Watch(w) \/ Unwatch(w)
  \/ \E list \in SUBSET Instances :
       \/ backend # "static" /\ SourceChanges(list)
       \/ UpdateStaticInstances(list)
  \/ StartStatic \/ StartConsul \/ WatchOpens \/ Stop \/ Closed
  \/ \E r \in Refreshes :
       \/ StartWatched(r) \/ EventArrives(r) \/ List(r) \/ Fail(r)
       \/ \E i \in Instances : Read(r, i)

\* The source answers what it is asked and delivers its events.
Fairness ==
  /\ WF_discoveryVars(Closed)
  /\ WF_discoveryVars(\E r \in Refreshes : EventArrives(r))
  /\ \A r \in Refreshes : WF_discoveryVars(List(r) \/ \E i \in Instances : Read(r, i))

Spec == Init /\ [][Next]_discoveryVars /\ Fairness
-----------------------------------------------------------------------------
TypeOK ==
  /\ backend \in {"static", "etcd", "kubernetes", "consul"}
  /\ registered \subseteq Instances /\ instances \subseteq Instances
  /\ {running, watching, opening, closing, failed} \subseteq BOOLEAN
  /\ ToSet(watchers) \subseteq Watchers /\ IsInjective(watchers)
  /\ events \in 0 .. MaxChanges /\ changes \in 0 .. MaxChanges
  /\ seen \in [Watchers -> SUBSET Instances]

\* A watcher has the list that getInstances() returns, except that each one-shot
\* watcher that left from its callback may have cost one other a call.
WatchersAgree ==
  Cardinality({w \in ToSet(watchers) : seen[w] # instances})
    <= Cardinality(departed)

\* Whatever overlaps, the list a refresh publishes lacks no instance that was
\* registered all the while and has none that was registered at no time.
PublishedIsRegular ==
  [][\A r \in Refreshes :
       (~Free(r) /\ Free(r)' /\ instances' # instances) =>
          refreshes[r].stable \subseteq instances' /\ instances' \subseteq refreshes[r].ever]_discoveryVars

\* When the source has changed for the last time, an event of its watch brings the
\* registered instances into the published list, unless a refresh fails or the
\* discovery is stopped.
CatchesUp ==
  (events > 0 /\ changes = MaxChanges) ~> (instances = registered \/ failed \/ ~watching)
-----------------------------------------------------------------------------
(* The registry and the memory backend *)

CONSTANTS
  Ids,        \* instance ids
  Services,   \* service names
  Name,       \* the discovery's options.serviceName
  NoService,
  MaxStarts   \* calls of the discovery's start() (a bound)

VARIABLES
  serviceOf,   \* instances: the name each id is registered with, or NoService
  heartbeats,  \* the ids with a heartbeat timer
  shutdown,    \* "no", "running" while deregisterAll walks the map, "done"
  listeners,   \* how often the discovery has added its listeners
  listening, published,  \* its fields running and instances
  moved        \* history: re-registered under another name since the last refresh

registryVars == <<serviceOf, heartbeats, shutdown, listeners, listening, published, moved>>

RegistryOptionsOK == Name \in Services /\ NoService \notin Services /\ MaxStarts \in Nat

Present == {i \in Ids : serviceOf[i] # NoService}
ListInstances(name) == {i \in Ids : serviceOf[i] = name}

RegistryInit ==
  /\ serviceOf = [i \in Ids |-> NoService]
  /\ heartbeats = {} /\ shutdown = "no" /\ listeners = 0
  /\ listening = FALSE /\ published = {} /\ moved = {}

\* The event handlers of the memory backend.  stop() does not take them away.
Notify(name) ==
  IF listeners > 0 /\ name = Name
  THEN published' = {i \in Ids : serviceOf'[i] = Name} /\ moved' = {}
  ELSE UNCHANGED published /\ moved' = moved \cup {i \in published : serviceOf'[i] # Name}

\* createInstance replaces what the id stood for; an older timer stays unless a
\* new one takes its place.
Register(i, name, withHeartbeat) ==
  /\ serviceOf' = [serviceOf EXCEPT ![i] = name]
  /\ heartbeats' = IF withHeartbeat THEN heartbeats \cup {i} ELSE heartbeats
  /\ Notify(name)
  /\ UNCHANGED <<shutdown, listeners, listening>>

DeregisterKeepingTimer(i) ==  \* faulty: the heartbeat is not stopped
  /\ serviceOf' = [serviceOf EXCEPT ![i] = NoService]
  /\ Notify(serviceOf[i]) /\ UNCHANGED heartbeats

DeregisterIn(i) ==
  /\ heartbeats' = heartbeats \ {i}
  /\ serviceOf' = [serviceOf EXCEPT ![i] = NoService]
  /\ Notify(serviceOf[i])

Deregister(i) ==
  /\ i \in Present /\ DeregisterIn(i)
  /\ UNCHANGED <<shutdown, listeners, listening>>

Shutdown ==
  /\ shutdown # "running" /\ shutdown' = "running"
  /\ heartbeats' = {}
  /\ UNCHANGED <<serviceOf, listeners, listening, published, moved>>

\* deregisterAll awaits each deregister(); the map's iterator also visits what is
\* registered meanwhile, so that the loop ends with an empty map.
DeregisterAll ==
  /\ shutdown = "running"
  /\ IF Present = {}
     THEN shutdown' = "done" /\ UNCHANGED <<serviceOf, heartbeats, published, moved>>
     ELSE (\E i \in Present : DeregisterIn(i)) /\ UNCHANGED shutdown
  /\ UNCHANGED <<listeners, listening>>

StartDiscovery ==
  /\ listeners < MaxStarts
  /\ listening' = TRUE /\ listeners' = listeners + 1
  /\ published' = ListInstances(Name) /\ moved' = {}
  /\ UNCHANGED <<serviceOf, heartbeats, shutdown>>

StopDiscovery ==
  /\ listening' = FALSE /\ published' = {} /\ moved' = {}
  /\ UNCHANGED <<serviceOf, heartbeats, shutdown, listeners>>

RegistryNext ==
  \/ \E i \in Ids :
       \/ Deregister(i)
       \/ \E name \in Services, beats \in BOOLEAN : Register(i, name, beats)
  \/ Shutdown \/ DeregisterAll \/ StartDiscovery \/ StopDiscovery

RegistrySpec == RegistryInit /\ [][RegistryNext]_registryVars
-----------------------------------------------------------------------------
RegistryTypeOK ==
  /\ serviceOf \in [Ids -> Services \cup {NoService}]
  /\ heartbeats \subseteq Ids /\ published \subseteq Ids /\ moved \subseteq Ids
  /\ shutdown \in {"no", "running", "done"} /\ listeners \in 0 .. MaxStarts
  /\ listening \in BOOLEAN

\* No timer outlives its instance, whatever registrations fall into a shutdown: a
\* beat always finds the instance, and the handler's catch is never needed.
TimersHaveInstances == heartbeats \subseteq Present

\* While it runs the memory backend publishes every instance of its service; what
\* it publishes besides was registered under another name afterwards.  When it
\* has been stopped it publishes nothing, or the truth again.
MemoryIsCurrent ==
  \/ ListInstances(Name) \subseteq published
     /\ published \ ListInstances(Name) \subseteq moved
  \/ ~listening /\ published = {}
=============================================================================
