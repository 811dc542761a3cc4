------------------------------- MODULE Cluster -------------------------------
(***************************************************************************)
(* The classes that keep a copy of something elsewhere, checked together:  *)
(* service discovery and the registry of packages/discovery, the           *)
(* configuration watcher of packages/config, the cache of packages/cache,  *)
(* the health checks of packages/http.                                     *)
(* They share nothing, so one of them is under test in each behaviour      *)
(* ("subject").                                                            *)
(***************************************************************************)
EXTENDS Naturals, TLC, FifoLemmas

CONSTANTS Instances, Watchers, OneShot, Refreshes, MaxChanges, Observed,  \* discovery
          Ids, Services, Name, NoService, MaxStarts,                      \* registry
          Keys, Values, Undefined, Checks,                                \* watcher
          CacheKeys, Fills, MaxSize, Ttl,                                 \* cache
          Names, Assignments, UsedAtMost, Runs, Threshold, MaxHealthChanges                  \* health checks

VARIABLES subject,
          backend, registered, changes, running, instances, watchers, seen, departed,
          watching, opening, events, closing, refreshes, failed,
          serviceOf, heartbeats, shutdown, listeners, listening, published, moved,
          sync, source, polling, ticking, lastConfig, checks, view,
          order, entries, size, fills, announced, quiet,
          healthChecks, indicator, found, runs, lastResult, periodic, healthChanges, wasUp, wasDown

Sd == INSTANCE ServiceDiscovery
Cw == INSTANCE ConfigWatcher WITH running <- polling
Cm == INSTANCE CacheManager WITH Keys <- CacheKeys
Hc == INSTANCE HealthCheck
        WITH MaxChanges <- MaxHealthChanges, checks <- healthChecks, changes <- healthChanges

ASSUME DiscoveryAssumption == Sd!OptionsOK
ASSUME RegistryAssumption == Sd!RegistryOptionsOK
ASSUME WatcherAssumption == Cw!OptionsOK
ASSUME CacheAssumption == Cm!OptionsOK
ASSUME HealthAssumption == Hc!OptionsOK

discoveryVars == <<backend, registered, changes, running, instances, watchers, seen, departed,
                   watching, opening, events, closing, refreshes, failed>>
registryVars == <<serviceOf, heartbeats, shutdown, listeners, listening, published, moved>>
watcherVars == <<sync, source, polling, ticking, lastConfig, checks, view>>
cacheVars == <<order, entries, size, fills, announced, quiet>>
healthVars == <<healthChecks, indicator, found, runs, lastResult, periodic, healthChanges, wasUp, wasDown>>
vars == <<subject, discoveryVars, registryVars, watcherVars, cacheVars, healthVars>>

\* The options of the classes that are not under test do not matter.
Init ==
  /\ subject \in {"ServiceDiscovery", "ServiceRegistry", "ConfigWatcher", "CacheManager", "HealthCheck"}
  /\ Sd!Init /\ Sd!RegistryInit /\ Cw!Init /\ Cm!Init /\ Hc!Init
  /\ subject # "ServiceDiscovery" => backend = "static" /\ registered = {}
  /\ subject # "ConfigWatcher" => sync

DiscoveryStep ==
  /\ subject = "ServiceDiscovery" /\ Sd!Next
  /\ UNCHANGED <<subject, registryVars, watcherVars, cacheVars, healthVars>>

RegistryStep ==
  /\ subject = "ServiceRegistry" /\ Sd!RegistryNext
  /\ UNCHANGED <<subject, discoveryVars, watcherVars, cacheVars, healthVars>>

WatcherStep ==
  /\ subject = "ConfigWatcher" /\ Cw!Next
  /\ UNCHANGED <<subject, discoveryVars, registryVars, cacheVars, healthVars>>

CacheStep ==
  /\ subject = "CacheManager" /\ Cm!Next
  /\ UNCHANGED <<subject, discoveryVars, registryVars, watcherVars, healthVars>>

HealthStep ==
  /\ subject = "HealthCheck" /\ Hc!Next
  /\ UNCHANGED <<subject, discoveryVars, registryVars, watcherVars, cacheVars>>

Next == DiscoveryStep \/ RegistryStep \/ WatcherStep \/ CacheStep \/ HealthStep

\* No fair action is enabled in an object that nobody has used, so the fairness
\* of each class only bears on the one under test.
Fairness ==
  /\ Sd!Fairness /\ Cw!Fairness /\ Cm!Fairness
  /\ Hc!Fairness

Spec == Init /\ [][Next]_vars /\ Fairness

-----------------------------------------------------------------------------
TypeOK == Sd!TypeOK /\ Sd!RegistryTypeOK /\ Cw!TypeOK /\ Cm!TypeOK /\ Hc!TypeOK

\* What is published agrees with those who read it: the watchers of a discovery
\* have its list, but for the calls that unwatching costs; the memory backend has
\* its registry's list, and no heartbeat outlives its instance; the changes that a
\* configuration watcher announces add up to the configuration it has.
CopiesAgree ==
  Sd!WatchersAgree /\ Sd!MemoryIsCurrent /\ Sd!TimersHaveInstances /\ Cw!EventsAddUp

\* CacheManager: never more entries than its maximum, and none that is old for any
\* reason but the races the code leaves open (see StaleIsExplained).
CacheIsTruthful == Cm!WithinMax /\ Cm!StaleIsExplained

\* However refreshes overlap, a discovery publishes no list that was true at no
\* time since the refresh began; nor does a health check publish a result that its
\* checks did not give while it ran.
PublishedIsRegular == Sd!PublishedIsRegular /\ Hc!ResultIsRegular

\* An event of the source's watch reaches the published list, a configuration that
\* stays reaches the listeners, old cache entries end with their ttl, and a check
\* that stays down shows in the health.
CatchesUp == Sd!CatchesUp /\ Cw!Settles /\ Cm!StaleEnds /\ Hc!FailureShows
-----------------------------------------------------------------------------
(* Indicators for TLC: two names, each of another kind. *)

MCAssignments == {"n1" :> "memory" @@ "n2" :> "ping", "n1" :> "http" @@ "n2" :> "disk", "n1" :> "heap" @@ "n2" :> "ping"}
-----------------------------------------------------------------------------
(* The registry and the memory backend of packages/discovery. *)

\* Before its first start() the memory backend does not listen and has nothing.
Unstarted == listeners = 0 => ~listening /\ published = {}

RegistryInv ==
  Sd!RegistryTypeOK /\ Unstarted /\ Sd!TimersHaveInstances /\ Sd!MemoryIsCurrent

LEMMA RegistryConstants == Name \in Services /\ NoService \notin Services /\ MaxStarts \in Nat
BY RegistryAssumption DEF Sd!RegistryOptionsOK

LEMMA RegistryInit == Sd!RegistryInit => RegistryInv
<1> SUFFICES ASSUME Sd!RegistryInit PROVE RegistryInv
  OBVIOUS
<1>1. Sd!RegistryTypeOK
  <2>1. 0 \in 0 .. MaxStarts
    BY RegistryConstants
  <2>2. listening \in BOOLEAN
    BY DEF Sd!RegistryInit
  <2> QED
    BY <2>1, <2>2 DEF Sd!RegistryInit, Sd!RegistryTypeOK
<1>2. Unstarted /\ Sd!TimersHaveInstances /\ Sd!MemoryIsCurrent
  BY DEF Sd!RegistryInit, Unstarted, Sd!TimersHaveInstances, Sd!MemoryIsCurrent
<1> QED
  BY <1>1, <1>2 DEF RegistryInv

\* What an event does to the list, when an id has gone from a name or come to it: the
\* instances of another name stay as they are.
LEMMA NotifyKeeps ==
  ASSUME RegistryInv, NEW name \in Services, NEW i \in Ids,
         NEW new \in Services \cup {NoService},
         serviceOf' = [serviceOf EXCEPT ![i] = new],
         new = name \/ (new = NoService /\ serviceOf[i] = name),
         Sd!Notify(name), UNCHANGED <<shutdown, listeners, listening>>,
         heartbeats' \subseteq Ids,
         heartbeats' \subseteq Sd!Present'
  PROVE  RegistryInv'
<1>1. /\ serviceOf \in [Ids -> Services \cup {NoService}]
      /\ published \subseteq Ids /\ moved \subseteq Ids
  BY DEF RegistryInv, Sd!RegistryTypeOK
<1>2. serviceOf' \in [Ids -> Services \cup {NoService}]
  BY <1>1
<1>3. Sd!RegistryTypeOK' /\ Unstarted'
  <2>1. published' \subseteq Ids /\ moved' \subseteq Ids
    BY <1>1 DEF Sd!Notify
  <2>2. Unstarted'
    BY DEF RegistryInv, Unstarted, Sd!Notify
  <2> QED
    BY <1>2, <2>1, <2>2 DEF RegistryInv, Sd!RegistryTypeOK
<1>4. Sd!MemoryIsCurrent'
  <2>1. CASE listeners > 0 /\ name = Name
    BY <2>1 DEF Sd!Notify, Sd!MemoryIsCurrent, Sd!ListInstances
  <2>2. CASE ~(listeners > 0) /\ name = Name
    <3>1. listeners = 0
      BY <2>2, RegistryConstants DEF RegistryInv, Sd!RegistryTypeOK
    <3>2. ~listening' /\ published' = {}
      BY <2>2, <3>1 DEF RegistryInv, Unstarted, Sd!Notify
    <3> QED
      BY <3>2 DEF Sd!MemoryIsCurrent
  <2>3. CASE name # Name
    <3>1. published' = published /\ moved' = moved \cup {j \in published : serviceOf'[j] # Name}
      BY <2>3 DEF Sd!Notify
    <3>2. CASE ~listening /\ published = {}
      BY <3>1, <3>2 DEF Sd!MemoryIsCurrent
    <3>3. CASE Sd!ListInstances(Name) \subseteq published
      <4>1. Sd!ListInstances(Name)' \subseteq Sd!ListInstances(Name)
        BY <1>1, <2>3, RegistryConstants DEF Sd!ListInstances
      <4>2. published' \ Sd!ListInstances(Name)' \subseteq moved'
        BY <1>1, <3>1 DEF Sd!ListInstances
      <4> QED
        BY <3>1, <3>3, <4>1, <4>2 DEF Sd!MemoryIsCurrent
    <3> QED
      BY <3>2, <3>3 DEF RegistryInv, Sd!MemoryIsCurrent
  <2> QED
    BY <2>1, <2>2, <2>3
<1> QED
  BY <1>3, <1>4 DEF RegistryInv, Sd!TimersHaveInstances

LEMMA DeregisterKeeps ==
  ASSUME RegistryInv, NEW i \in Sd!Present, Sd!DeregisterIn(i),
         UNCHANGED <<shutdown, listeners, listening>>
  PROVE  RegistryInv'
<1>1. /\ serviceOf \in [Ids -> Services \cup {NoService}] /\ i \in Ids
      /\ serviceOf[i] \in Services /\ heartbeats \subseteq Ids /\ heartbeats \subseteq Sd!Present
  BY DEF RegistryInv, Sd!RegistryTypeOK, Sd!TimersHaveInstances, Sd!Present
<1>2. heartbeats' = heartbeats \ {i} /\ serviceOf' = [serviceOf EXCEPT ![i] = NoService]
  BY DEF Sd!DeregisterIn
<1>3. heartbeats' \subseteq Sd!Present'
  BY <1>1, <1>2 DEF Sd!Present
<1> QED
  BY <1>1, <1>2, <1>3, NotifyKeeps DEF Sd!DeregisterIn

LEMMA RegistryNext == RegistryInv /\ [Sd!RegistryNext]_(Sd!registryVars) => RegistryInv'
<1> SUFFICES ASSUME RegistryInv, [Sd!RegistryNext]_(Sd!registryVars) PROVE RegistryInv'
  OBVIOUS
<1>1. ASSUME NEW i \in Ids, Sd!Deregister(i) PROVE RegistryInv'
  BY <1>1, DeregisterKeeps DEF Sd!Deregister
<1>2. ASSUME NEW i \in Ids, NEW name \in Services, NEW beats \in BOOLEAN, Sd!Register(i, name, beats)
      PROVE  RegistryInv'
  <2>1. /\ serviceOf \in [Ids -> Services \cup {NoService}]
        /\ heartbeats \subseteq Ids /\ heartbeats \subseteq Sd!Present
    BY DEF RegistryInv, Sd!RegistryTypeOK, Sd!TimersHaveInstances
  <2>2. heartbeats' \subseteq heartbeats \cup {i} /\ serviceOf' = [serviceOf EXCEPT ![i] = name]
    BY <1>2 DEF Sd!Register
  <2>3. heartbeats' \subseteq Ids /\ heartbeats' \subseteq Sd!Present'
    BY <2>1, <2>2, RegistryConstants DEF Sd!Present
  <2> QED
    BY <1>2, <2>2, <2>3, NotifyKeeps DEF Sd!Register
<1>3. CASE Sd!Shutdown
  BY <1>3 DEF RegistryInv, Sd!RegistryTypeOK, Unstarted, Sd!TimersHaveInstances,
              Sd!MemoryIsCurrent, Sd!Shutdown, Sd!ListInstances
<1>4. CASE Sd!DeregisterAll
  <2>1. CASE Sd!Present = {}
    BY <1>4, <2>1 DEF RegistryInv, Sd!RegistryTypeOK, Unstarted, Sd!TimersHaveInstances,
                      Sd!MemoryIsCurrent, Sd!DeregisterAll, Sd!ListInstances, Sd!Present
  <2>2. CASE Sd!Present # {}
    BY <1>4, <2>2, DeregisterKeeps DEF Sd!DeregisterAll
  <2> QED
    BY <2>1, <2>2
<1>5. CASE Sd!StartDiscovery
  <2>1. listeners' \in 0 .. MaxStarts /\ listeners' # 0
    BY <1>5, RegistryConstants DEF RegistryInv, Sd!RegistryTypeOK, Sd!StartDiscovery
  <2>2. published' \subseteq Ids /\ Sd!MemoryIsCurrent'
    BY <1>5 DEF Sd!StartDiscovery, Sd!MemoryIsCurrent, Sd!ListInstances
  <2> QED
    BY <1>5, <2>1, <2>2 DEF RegistryInv, Sd!RegistryTypeOK, Unstarted, Sd!TimersHaveInstances,
                            Sd!StartDiscovery, Sd!Present
<1>6. CASE Sd!StopDiscovery
  BY <1>6 DEF RegistryInv, Sd!RegistryTypeOK, Unstarted, Sd!TimersHaveInstances,
              Sd!MemoryIsCurrent, Sd!StopDiscovery, Sd!Present
<1>7. CASE UNCHANGED Sd!registryVars
  BY <1>7 DEF RegistryInv, Sd!RegistryTypeOK, Unstarted, Sd!TimersHaveInstances,
              Sd!MemoryIsCurrent, Sd!registryVars, Sd!Present, Sd!ListInstances
<1> QED
  BY <1>1, <1>2, <1>3, <1>4, <1>5, <1>6, <1>7 DEF Sd!RegistryNext

-----------------------------------------------------------------------------
(* The configuration watcher of packages/config. *)

ConfigInv ==
  /\ Cw!TypeOK /\ Cw!EventsAddUp
  /\ checks \in [Checks -> [pending : BOOLEAN, config : Cw!Configs]]

\* The events of a check, applied to the old configuration, give the new one.
LEMMA EventsGiveTheNew ==
  ASSUME NEW old \in Cw!Configs, NEW new \in Cw!Configs
  PROVE  Cw!Apply(old, Cw!DetectChanges(old, new)) = new
<1> DEFINE Events == Cw!DetectChanges(old, new)
<1>1. old \in [Keys -> Values \cup {Undefined}] /\ new \in [Keys -> Values \cup {Undefined}]
  BY DEF Cw!Configs
<1>2. \A e \in Events : e.newValue = new[e.key] /\ e.key \in Keys /\ old[e.key] # new[e.key]
  BY DEF Cw!DetectChanges
<1>3. ASSUME NEW k \in Keys, old[k] # new[k] PROVE \E e \in Events : e.key = k
  <2>1. [key |-> k, newValue |-> new[k]] \in Events
    BY <1>3 DEF Cw!DetectChanges
  <2> QED
    BY <2>1
<1> HIDE DEF Events
<1>4. ASSUME NEW k \in Keys
      PROVE  (IF \E e \in Events : e.key = k
              THEN (CHOOSE e \in Events : e.key = k).newValue ELSE old[k]) = new[k]
  <2>1. CASE \E e \in Events : e.key = k
    BY <1>2, <2>1
  <2>2. CASE ~ \E e \in Events : e.key = k
    BY <1>3, <2>2
  <2> QED
    BY <2>1, <2>2
<1> QED
  BY <1>1, <1>4 DEF Cw!Apply, Events

LEMMA ConfigInit == Cw!Init => ConfigInv
<1>1. Cw!Empty \in Cw!Configs
  BY DEF Cw!Empty, Cw!Configs
<1> QED
  <2> SUFFICES ASSUME Cw!Init PROVE ConfigInv
    OBVIOUS
  <2>1. checks \in [Checks -> [pending : BOOLEAN, config : Cw!Configs]]
    BY <1>1 DEF Cw!Init, Cw!NoCheck
  <2>2. {sync, polling, ticking} \subseteq BOOLEAN /\ ~ticking
    BY DEF Cw!Init
  <2> QED
    BY <1>1, <2>1, <2>2 DEF Cw!Init, ConfigInv, Cw!TypeOK, Cw!EventsAddUp

LEMMA CompareKeeps ==
  ASSUME ConfigInv, NEW config \in Cw!Configs, Cw!Compare(config)
  PROVE  lastConfig' = config /\ view' = config
BY EventsGiveTheNew DEF ConfigInv, Cw!TypeOK, Cw!EventsAddUp, Cw!Compare

LEMMA ConfigNext == ConfigInv /\ [Cw!Next]_(Cw!watcherVars) => ConfigInv'
<1> SUFFICES ASSUME ConfigInv, [Cw!Next]_(Cw!watcherVars) PROVE ConfigInv'
  OBVIOUS
<1> USE DEF ConfigInv, Cw!TypeOK, Cw!EventsAddUp
<1>0. Cw!Empty \in Cw!Configs /\ Cw!NoCheck \in [pending : BOOLEAN, config : Cw!Configs]
  BY DEF Cw!Empty, Cw!Configs, Cw!NoCheck
<1>1. ASSUME NEW config \in Cw!Configs, Cw!SourceChanges(config) PROVE ConfigInv'
  BY <1>1 DEF Cw!SourceChanges
<1>2. CASE Cw!Start
  BY <1>0, <1>2 DEF Cw!Start
<1>3. CASE Cw!StartThrows
  BY <1>3 DEF Cw!StartThrows
<1>4. CASE Cw!Stop
  BY <1>4 DEF Cw!Stop
<1>5. CASE Cw!CheckAtOnce
  BY <1>5, CompareKeeps DEF Cw!CheckAtOnce
<1>6. ASSUME NEW c \in Checks, Cw!CheckBegins(c) PROVE ConfigInv'
  BY <1>6 DEF Cw!CheckBegins
<1>7. ASSUME NEW c \in Checks, Cw!CheckEnds(c) PROVE ConfigInv'
  <2>1. checks[c].config \in Cw!Configs
    OBVIOUS
  <2> QED
    BY <1>0, <1>7, <2>1, CompareKeeps DEF Cw!CheckEnds
<1>8. ASSUME NEW c \in Checks, Cw!LoadFails(c) PROVE ConfigInv'
  BY <1>0, <1>8 DEF Cw!LoadFails
<1>9. CASE UNCHANGED Cw!watcherVars
  BY <1>9 DEF Cw!watcherVars
<1> QED
  BY <1>1, <1>2, <1>3, <1>4, <1>5, <1>6, <1>7, <1>8, <1>9 DEF Cw!Next

-----------------------------------------------------------------------------
(* Service discovery of packages/discovery. *)

\* The instance counts and keeps lines as the library does.
LEMMA DiscoveryLibrary ==
  /\ \A S : Sd!Cardinality(S) = Cardinality(S)
  /\ \A q : Sd!IsInjective(q) = IsInjective(q) /\ Sd!ToSet(q) = Range(q)
<1>1. \A S : Sd!Cardinality(S) = Cardinality(S)
  BY DEF Sd!Cardinality, Cardinality
<1>2. \A q : Sd!IsInjective(q) = IsInjective(q)
  BY DEF Sd!IsInjective, IsInjective
<1>3. \A q : Sd!ToSet(q) = Range(q)
  BY DEF Sd!ToSet, Range
<1> QED
  BY <1>1, <1>2, <1>3

LEMMA DiscoveryKept ==
  ASSUME NEW q, NEW S PROVE Sd!Kept(q, S) = Kept(q, S)
BY DEF Sd!Kept, Kept

LEMMA DiscoveryConstants == OneShot \subseteq Watchers /\ MaxChanges \in Nat
BY DiscoveryAssumption DEF Sd!OptionsOK

\* The published list and those who were told.
WatchersInv ==
  /\ instances \subseteq Instances
  /\ watchers \in Seq(Watchers) /\ IsInjective(watchers)
  /\ seen \in [Watchers -> SUBSET Instances]
  /\ IsFiniteSet(departed)
  /\ Sd!WatchersAgree

\* The watchers that do not have the list.
Behind == {w \in Range(watchers) : seen[w] # instances}

LEMMA BehindCounted == Sd!WatchersAgree <=> Cardinality(Behind) <= Cardinality(departed)
BY DiscoveryLibrary DEF Sd!WatchersAgree, Behind

\* Some more of the watchers agree, and as many have left: the fewer are behind.
LEMMA FewerBehind ==
  ASSUME WatchersInv, Behind' \subseteq Behind, departed' = departed
  PROVE  Sd!WatchersAgree'
<1>1. IsFiniteSet(Behind)
  <2>1. IsFiniteSet(Range(watchers))
    BY LineCardinality DEF WatchersInv
  <2> QED
    BY <2>1, FS_Subset DEF Behind
<1>2. /\ Cardinality(Behind') <= Cardinality(Behind)
      /\ Cardinality(Behind') \in Nat /\ Cardinality(Behind) \in Nat /\ Cardinality(departed) \in Nat
  BY <1>1, FS_Subset, FS_CardinalityType DEF WatchersInv
<1>3. Cardinality(Behind) <= Cardinality(departed)
  BY BehindCounted DEF WatchersInv
<1>4. Cardinality(Behind') <= Cardinality(departed')
  BY <1>2, <1>3
<1> QED
  BY <1>4, DiscoveryLibrary DEF Sd!WatchersAgree, Behind

\* Who misses a call stands behind one that has left: there are no more of them.
LEMMA UpdateKeeps ==
  ASSUME WatchersInv, NEW list \in SUBSET Instances, Sd!UpdateInstances(list)
  PROVE  WatchersInv' /\ instances' = list
<1>1. /\ watchers \in Seq(Watchers) /\ IsInjective(watchers)
      /\ seen \in [Watchers -> SUBSET Instances] /\ IsFiniteSet(departed)
      /\ Len(watchers) \in Nat /\ DOMAIN watchers = 1 .. Len(watchers)
      /\ \A k \in DOMAIN watchers : watchers[k] \in Watchers
  BY LenProperties, ElementOfSeq DEF WatchersInv
<1>2. PICK places \in SUBSET DOMAIN watchers :
        LET told == {watchers[k] : k \in places}
        IN  /\ Sd!Called(places)
            /\ instances' = list
            /\ seen' = [w \in Watchers |-> IF w \in told \ OneShot THEN list
                                           ELSE IF w \in told THEN {} ELSE seen[w]]
            /\ departed' = departed \cup (told \cap OneShot)
            /\ watchers' = Sd!Kept(watchers, Watchers \ departed')
  BY DEF Sd!UpdateInstances
<1> DEFINE told == {watchers[k] : k \in places}
<1>3. /\ instances' = list
      /\ \A w \in Watchers : seen'[w] = IF w \in told \ OneShot THEN list
                                        ELSE IF w \in told THEN {} ELSE seen[w]
      /\ seen' \in [Watchers -> SUBSET Instances]
  BY <1>1, <1>2
<1>4. IsFiniteSet(departed')
  <2>1. IsFiniteSet(Range(watchers))
    BY <1>1, LineCardinality
  <2>2. told \cap OneShot \in SUBSET Range(watchers)
    BY <1>2 DEF Range
  <2>3. IsFiniteSet(told \cap OneShot)
    BY <2>1, <2>2, FS_Subset
  <2>4. departed' = departed \cup (told \cap OneShot)
    BY <1>2
  <2> QED
    BY <1>1, <2>3, <2>4, FS_Union
<1>5. /\ watchers' \in Seq(Watchers) /\ IsInjective(watchers')
      /\ Range(watchers') = Range(watchers) \cap (Watchers \ departed')
  <2>1. watchers' = Kept(watchers, Watchers \ departed')
    BY <1>2, DiscoveryKept
  <2> QED
    BY <1>1, <2>1, KeepLine
<1> DEFINE Place(w) == CHOOSE k \in DOMAIN watchers : watchers[k] = w
<1>6. ASSUME NEW w \in Behind'
      PROVE  /\ Place(w) \in DOMAIN watchers /\ watchers[Place(w)] = w
             /\ Place(w) - 1 \in DOMAIN watchers /\ watchers[Place(w) - 1] \in departed'
  <2>1. w \in Range(watchers) /\ w \in Watchers /\ w \notin departed' /\ seen'[w] # list
    BY <1>3, <1>5 DEF Behind
  <2>2. \E k \in DOMAIN watchers : watchers[k] = w
    BY <2>1 DEF Range
  <2>3. Place(w) \in DOMAIN watchers /\ watchers[Place(w)] = w
    BY <2>2
  <2> DEFINE k == Place(w)
  <2> HIDE DEF k
  <2>4. k \in DOMAIN watchers /\ watchers[k] = w
    BY <2>3 DEF k
  <2>5. departed' = departed \cup (told \cap OneShot)
    BY <1>2
  <2>6. w \notin told
    BY <1>3, <2>1, <2>5
  <2>7. k \notin places
    BY <2>4, <2>6
  <2>8. places = {j \in DOMAIN watchers : j = 1 \/ ~(j - 1 \in places /\ watchers[j - 1] \in OneShot)}
    BY <1>2 DEF Sd!Called
  <2>9. k - 1 \in places /\ watchers[k - 1] \in OneShot
    BY <2>4, <2>7, <2>8
  <2>10. k - 1 \in DOMAIN watchers /\ watchers[k - 1] \in departed'
    BY <1>2, <2>5, <2>9
  <2> QED
    BY <2>3, <2>10 DEF k
<1> HIDE DEF Place
<1>7. Cardinality(Behind') <= Cardinality(departed')
  <2> DEFINE f == [w \in Behind' |-> watchers[Place(w) - 1]]
  <2>1. f \in [Behind' -> departed']
    BY <1>6
  <2>2. ASSUME NEW a \in Behind', NEW b \in Behind', f[a] = f[b] PROVE a = b
    <3>1. watchers[Place(a) - 1] = watchers[Place(b) - 1]
      BY <2>2
    <3>2. Place(a) - 1 = Place(b) - 1
      BY <1>1, <1>6, <3>1 DEF IsInjective
    <3>3. Place(a) = Place(b)
      BY <1>1, <1>6, <3>2
    <3> QED
      BY <1>6, <3>3
  <2>3. f \in Injection(Behind', departed')
    BY <2>1, <2>2 DEF Injection, IsInjective
  <2> QED
    BY <1>4, <2>3, FS_Injection
<1>8. Sd!WatchersAgree'
  BY <1>7, DiscoveryLibrary DEF Sd!WatchersAgree, Behind
<1> QED
  BY <1>3, <1>4, <1>5, <1>8 DEF WatchersInv

\* What is under way: a refresh knows no instance that was never there, and has those
\* that were there all the time, or is going to ask for them.
Refreshing ==
  [stage : {"idle", "listing", "reading"}, initial : BOOLEAN, left : SUBSET Instances,
   got : SUBSET Instances, stable : SUBSET Instances, ever : SUBSET Instances]

RefreshFits(r) ==
  /\ ~Sd!Free(r) => refreshes[r].stable \subseteq registered /\ registered \subseteq refreshes[r].ever
  /\ refreshes[r].stage = "listing" => refreshes[r].got = {}
  /\ refreshes[r].stage = "reading" =>
       /\ refreshes[r].stable \subseteq refreshes[r].got \cup refreshes[r].left
       /\ refreshes[r].got \subseteq refreshes[r].ever

RefreshInv ==
  /\ registered \subseteq Instances
  /\ refreshes \in [Refreshes -> Refreshing]
  /\ \A r \in Refreshes : RefreshFits(r)

\* The numbers, and the fields that are true or false.
EventsInv == changes \in 0 .. MaxChanges /\ events \in 0 .. changes

DiscoveryFlags ==
  /\ backend \in {"static", "etcd", "kubernetes", "consul"}
  /\ {running, watching, opening, closing, failed} \subseteq BOOLEAN

\* The static backend has no source to ask.
StaticInv ==
  backend = "static" => events = 0 /\ ~watching /\ ~opening /\ \A r \in Refreshes : Sd!Free(r)

DiscoveryInv == WatchersInv /\ RefreshInv /\ EventsInv /\ DiscoveryFlags /\ StaticInv

LEMMA DiscoveryInit == Sd!Init => DiscoveryInv
<1> SUFFICES ASSUME Sd!Init PROVE DiscoveryInv
  OBVIOUS
<1>1. watchers = <<>> /\ departed = {} /\ IsInjective(watchers) /\ Range(watchers) = {}
  BY DEF Sd!Init, IsInjective, Range
<1>2. Behind = {} /\ IsFiniteSet(departed)
  BY <1>1, FS_EmptySet DEF Behind
<1>3. Sd!WatchersAgree
  BY <1>1, <1>2, BehindCounted, FS_EmptySet
<1>4. WatchersInv
  BY <1>1, <1>2, <1>3 DEF Sd!Init, WatchersInv
<1>5. RefreshInv
  BY DEF Sd!Init, Sd!Idle, RefreshInv, RefreshFits, Refreshing, Sd!Free
<1>6. EventsInv
  BY DiscoveryConstants DEF Sd!Init, EventsInv
<1>7. DiscoveryFlags
  BY DEF Sd!Init, DiscoveryFlags
<1>8. StaticInv
  BY DEF Sd!Init, Sd!Idle, Sd!Free, StaticInv
<1> QED
  BY <1>4, <1>5, <1>6, <1>7, <1>8 DEF DiscoveryInv

\* A refresh that begins knows what is registered.
LEMMA BegunFits ==
  ASSUME RefreshInv, NEW r \in Refreshes, NEW first \in BOOLEAN,
         refreshes' = [refreshes EXCEPT ![r] = Sd!Begun(first)], registered' = registered
  PROVE  RefreshInv'
<1>1. /\ Sd!Begun(first) \in Refreshing
      /\ Sd!Begun(first).stage = "listing" /\ Sd!Begun(first).got = {}
      /\ Sd!Begun(first).stable = registered /\ Sd!Begun(first).ever = registered
  BY DEF RefreshInv, Sd!Begun, Sd!Idle, Refreshing
<1>2. refreshes' \in [Refreshes -> Refreshing]
  BY <1>1 DEF RefreshInv
<1>3. ASSUME NEW q \in Refreshes PROVE RefreshFits(q)'
  <2>1. CASE q = r
    BY <1>1, <2>1 DEF RefreshInv, RefreshFits
  <2>2. CASE q # r
    <3>1. refreshes'[q] = refreshes[q] /\ RefreshFits(q)
      BY <2>2 DEF RefreshInv
    <3> QED
      BY <3>1 DEF RefreshFits, Sd!Free
  <2> QED
    BY <2>1, <2>2
<1> QED
  BY <1>2, <1>3 DEF RefreshInv

\* So does one that ends, or for consul begins anew.
LEMMA EndedFits ==
  ASSUME RefreshInv, NEW r \in Refreshes, Sd!Ended(r), registered' = registered
  PROVE  RefreshInv'
<1>1. CASE backend = "consul" /\ running
  BY <1>1, BegunFits DEF Sd!Ended
<1>2. CASE ~(backend = "consul" /\ running)
  <2>1. refreshes' = [refreshes EXCEPT ![r] = Sd!Idle]
    BY <1>2 DEF Sd!Ended
  <2>2. Sd!Idle \in Refreshing /\ Sd!Idle.stage = "idle"
    BY DEF Sd!Idle, Refreshing
  <2>3. ASSUME NEW q \in Refreshes PROVE RefreshFits(q)'
    <3>1. CASE q = r
      BY <2>1, <2>2, <3>1 DEF RefreshInv, RefreshFits, Sd!Free
    <3>2. CASE q # r
      <4>1. refreshes'[q] = refreshes[q] /\ RefreshFits(q)
        BY <2>1, <3>2 DEF RefreshInv
      <4> QED
        BY <4>1 DEF RefreshFits, Sd!Free
    <3> QED
      BY <3>1, <3>2
  <2> QED
    BY <2>1, <2>2, <2>3 DEF RefreshInv
<1> QED
  BY <1>1, <1>2

\* The source changes while refreshes are under way.
LEMMA ChangeFits ==
  ASSUME RefreshInv, NEW list \in SUBSET Instances, registered' = list,
         \/ refreshes' = [r \in Refreshes |->
              IF Sd!Free(r) THEN Sd!Idle
              ELSE [refreshes[r] EXCEPT !.stable = @ \cap list, !.ever = @ \cup list]]
         \/ refreshes' = refreshes /\ \A r \in Refreshes : Sd!Free(r)
  PROVE  RefreshInv'
<1>1. Sd!Idle \in Refreshing /\ Sd!Idle.stage = "idle"
  BY DEF Sd!Idle, Refreshing
<1>2. CASE refreshes' = refreshes /\ \A r \in Refreshes : Sd!Free(r)
  BY <1>2 DEF RefreshInv, RefreshFits, Sd!Free
<1>3. CASE refreshes' = [r \in Refreshes |->
              IF Sd!Free(r) THEN Sd!Idle
              ELSE [refreshes[r] EXCEPT !.stable = @ \cap list, !.ever = @ \cup list]]
  <2>1. refreshes' \in [Refreshes -> Refreshing]
    BY <1>1, <1>3 DEF RefreshInv, Refreshing
  <2>2. ASSUME NEW r \in Refreshes PROVE RefreshFits(r)'
    <3>1. CASE Sd!Free(r)
      <4>1. refreshes'[r] = Sd!Idle
        BY <1>3, <3>1
      <4> QED
        BY <1>1, <4>1 DEF RefreshFits, Sd!Free
    <3>2. CASE ~Sd!Free(r)
      <4>1. refreshes'[r] = [refreshes[r] EXCEPT !.stable = @ \cap list, !.ever = @ \cup list]
        BY <1>3, <3>2
      <4>2. refreshes[r] \in Refreshing /\ RefreshFits(r)
        BY DEF RefreshInv
      <4>3. /\ refreshes'[r].stable = refreshes[r].stable \cap list
            /\ refreshes'[r].ever = refreshes[r].ever \cup list
            /\ refreshes'[r].got = refreshes[r].got /\ refreshes'[r].left = refreshes[r].left
            /\ refreshes'[r].stage = refreshes[r].stage
        BY <4>1, <4>2 DEF Refreshing
      <4> QED
        BY <3>2, <4>2, <4>3 DEF RefreshFits, Sd!Free
    <3> QED
      BY <3>1, <3>2
  <2> QED
    BY <1>3, <2>1, <2>2 DEF RefreshInv
<1> QED
  BY <1>2, <1>3

\* The keys that etcd has listed, and those it has read.
LEMMA ReadingFits ==
  ASSUME RefreshInv, NEW r \in Refreshes, registered' = registered,
         NEW left \in SUBSET Instances, NEW got \in SUBSET Instances,
         refreshes' = [refreshes EXCEPT ![r].stage = "reading", ![r].left = left, ![r].got = got],
         ~Sd!Free(r),
         refreshes[r].stable \subseteq got \cup left, got \subseteq refreshes[r].ever
  PROVE  RefreshInv'
<1>1. refreshes[r] \in Refreshing /\ RefreshFits(r)
  BY DEF RefreshInv
<1>2. refreshes' \in [Refreshes -> Refreshing]
  <2> DEFINE new == [refreshes[r] EXCEPT !.stage = "reading", !.left = left, !.got = got]
  <2>1. new \in Refreshing
    BY <1>1 DEF Refreshing
  <2>2. refreshes' = [refreshes EXCEPT ![r] = new]
    BY DEF RefreshInv
  <2> HIDE DEF new
  <2> QED
    BY <2>1, <2>2 DEF RefreshInv
<1>3. ASSUME NEW q \in Refreshes PROVE RefreshFits(q)'
  <2>1. CASE q = r
    <3>1. /\ refreshes'[r].stable = refreshes[r].stable /\ refreshes'[r].ever = refreshes[r].ever
          /\ refreshes'[r].got = got /\ refreshes'[r].left = left
          /\ refreshes'[r].stage = "reading"
      BY <1>1 DEF RefreshInv, Refreshing
    <3> QED
      BY <1>1, <2>1, <3>1 DEF RefreshFits, Sd!Free
  <2>2. CASE q # r
    <3>1. refreshes'[q] = refreshes[q] /\ RefreshFits(q)
      BY <2>2 DEF RefreshInv
    <3> QED
      BY <3>1 DEF RefreshFits, Sd!Free
  <2> QED
    BY <2>1, <2>2
<1> QED
  BY <1>2, <1>3 DEF RefreshInv

\* Of the fields that are true or false; Next is taken apart here once.
LEMMA FlagSteps == DiscoveryInv /\ [Sd!Next]_(Sd!discoveryVars) => DiscoveryFlags' /\ StaticInv'
<1> SUFFICES ASSUME DiscoveryInv, [Sd!Next]_(Sd!discoveryVars) PROVE DiscoveryFlags' /\ StaticInv'
  OBVIOUS
<1> USE DEF DiscoveryFlags, StaticInv, Sd!Free
<1>0. DiscoveryFlags /\ StaticInv
  BY DEF DiscoveryInv
<1>1. ASSUME NEW w \in Watchers, Sd!Watch(w) \/ Sd!Unwatch(w) PROVE DiscoveryFlags' /\ StaticInv'
  BY <1>0, <1>1 DEF Sd!Watch, Sd!Unwatch
<1>2. ASSUME NEW list \in SUBSET Instances, backend # "static", Sd!SourceChanges(list)
      PROVE  DiscoveryFlags' /\ StaticInv'
  BY <1>0, <1>2 DEF Sd!SourceChanges
<1>3. ASSUME NEW list \in SUBSET Instances, Sd!UpdateStaticInstances(list)
      PROVE  DiscoveryFlags' /\ StaticInv'
  BY <1>0, <1>3 DEF Sd!UpdateStaticInstances
<1>4. CASE Sd!StartStatic
  BY <1>0, <1>4 DEF Sd!StartStatic
<1>5. CASE Sd!StartConsul
  BY <1>0, <1>5 DEF Sd!StartConsul
<1>6. CASE Sd!WatchOpens
  BY <1>0, <1>6 DEF Sd!WatchOpens
<1>7. CASE Sd!Stop
  BY <1>0, <1>7 DEF Sd!Stop
<1>8. CASE Sd!Closed
  BY <1>0, <1>8 DEF Sd!Closed
<1>9. ASSUME NEW r \in Refreshes, Sd!StartWatched(r) PROVE DiscoveryFlags' /\ StaticInv'
  BY <1>0, <1>9 DEF Sd!StartWatched, Sd!Polled
<1>10. ASSUME NEW r \in Refreshes, Sd!EventArrives(r) PROVE DiscoveryFlags' /\ StaticInv'
  <2>1. events > 0
    BY <1>10 DEF Sd!EventArrives
  <2>2. backend # "static"
    BY <1>0, <2>1 DEF StaticInv
  <2> QED
    BY <1>0, <1>10, <2>2 DEF Sd!EventArrives
<1>11. ASSUME NEW r \in Refreshes, Sd!Ended(r), backend' = backend, backend # "static",
              closing' = closing, failed' \in BOOLEAN
       PROVE  DiscoveryFlags' /\ StaticInv'
  <2>1. refreshes[r].initial \in BOOLEAN
    BY DEF DiscoveryInv, RefreshInv, Refreshing
  <2> QED
    BY <1>0, <1>11, <2>1 DEF Sd!Ended
<1>12. ASSUME NEW r \in Refreshes, Sd!List(r) PROVE DiscoveryFlags' /\ StaticInv'
  <2>1. backend # "static"
    BY <1>0, <1>12 DEF Sd!List
  <2>2. CASE Sd!Ended(r)
    BY <1>0, <1>11, <1>12, <2>1, <2>2 DEF Sd!List
  <2>3. CASE ~Sd!Ended(r)
    BY <1>0, <1>12, <2>1, <2>3 DEF Sd!List, Sd!Publish
  <2> QED
    BY <2>2, <2>3
<1>13. ASSUME NEW r \in Refreshes, Sd!Fail(r) PROVE DiscoveryFlags' /\ StaticInv'
  BY <1>0, <1>11, <1>13 DEF Sd!Fail
<1>14. ASSUME NEW r \in Refreshes, NEW i \in Instances, Sd!Read(r, i) PROVE DiscoveryFlags' /\ StaticInv'
  <2>1. backend # "static"
    BY <1>0, <1>14 DEF Sd!Read
  <2>2. CASE Sd!Ended(r)
    BY <1>0, <1>11, <1>14, <2>1, <2>2 DEF Sd!Read
  <2>3. CASE ~Sd!Ended(r)
    BY <1>0, <1>14, <2>1, <2>3 DEF Sd!Read, Sd!Publish
  <2> QED
    BY <2>2, <2>3
<1>15. CASE UNCHANGED Sd!discoveryVars
  BY <1>0, <1>15 DEF Sd!discoveryVars
<1> QED
  BY <1>1, <1>2, <1>3, <1>4, <1>5, <1>6, <1>7, <1>8, <1>9, <1>10, <1>12, <1>13, <1>14, <1>15
     DEF Sd!Next

\* Each refresh that ends, whoever else is under way, and each answer on its way.
LEMMA RefreshSteps == DiscoveryInv /\ [Sd!Next]_(Sd!discoveryVars) => RefreshInv'
<1> SUFFICES ASSUME DiscoveryInv, [Sd!Next]_(Sd!discoveryVars) PROVE RefreshInv'
  OBVIOUS
<1>0. RefreshInv /\ StaticInv
  BY DEF DiscoveryInv
<1>1. ASSUME UNCHANGED <<registered, refreshes>> PROVE RefreshInv'
  BY <1>0, <1>1 DEF RefreshInv, RefreshFits, Sd!Free
<1>2. ASSUME NEW w \in Watchers, Sd!Watch(w) \/ Sd!Unwatch(w) PROVE RefreshInv'
  BY <1>1, <1>2 DEF Sd!Watch, Sd!Unwatch
<1>3. ASSUME NEW list \in SUBSET Instances, Sd!SourceChanges(list) PROVE RefreshInv'
  BY <1>0, <1>3, ChangeFits DEF Sd!SourceChanges
<1>4. ASSUME NEW list \in SUBSET Instances, Sd!UpdateStaticInstances(list) PROVE RefreshInv'
  BY <1>0, <1>4, ChangeFits DEF Sd!UpdateStaticInstances, StaticInv
<1>5. CASE Sd!StartStatic \/ Sd!WatchOpens \/ Sd!Stop \/ Sd!Closed
  BY <1>1, <1>5 DEF Sd!StartStatic, Sd!WatchOpens, Sd!Stop, Sd!Closed
<1>6. CASE Sd!StartConsul
  <2>1. CASE running
    BY <1>0, <1>6, <2>1, BegunFits DEF Sd!StartConsul
  <2>2. CASE ~running
    BY <1>1, <1>6, <2>2 DEF Sd!StartConsul
  <2> QED
    BY <2>1, <2>2
<1>7. ASSUME NEW r \in Refreshes, Sd!StartWatched(r) PROVE RefreshInv'
  BY <1>0, <1>7, BegunFits DEF Sd!StartWatched
<1>8. ASSUME NEW r \in Refreshes, Sd!EventArrives(r) PROVE RefreshInv'
  BY <1>0, <1>8, BegunFits DEF Sd!EventArrives
<1>9. ASSUME NEW r \in Refreshes, Sd!List(r) PROVE RefreshInv'
  <2>1. registered' = registered /\ refreshes[r].stage = "listing"
    BY <1>9 DEF Sd!List
  <2>2. CASE Sd!Ended(r)
    BY <1>0, <2>1, <2>2, EndedFits
  <2>3. CASE ~Sd!Ended(r)
    <3>1. refreshes' = [refreshes EXCEPT ![r].stage = "reading", ![r].left = registered]
      BY <1>9, <2>3 DEF Sd!List, Sd!Publish
    <3>2. refreshes[r] \in Refreshing /\ RefreshFits(r) /\ ~Sd!Free(r)
      BY <1>0, <2>1 DEF RefreshInv, Sd!Free
    <3>3. /\ refreshes[r].got = {} /\ refreshes[r].stable \subseteq {} \cup registered
          /\ {} \subseteq refreshes[r].ever
      BY <2>1, <3>2 DEF RefreshFits
    <3>4. refreshes' = [refreshes EXCEPT ![r].stage = "reading", ![r].left = registered, ![r].got = {}]
      BY <1>0, <3>1, <3>2, <3>3 DEF RefreshInv, Refreshing
    <3>5. registered \in SUBSET Instances /\ {} \in SUBSET Instances
      BY <1>0 DEF RefreshInv
    <3> QED
      BY <1>0, <2>1, <3>2, <3>3, <3>4, <3>5, ReadingFits
  <2> QED
    BY <2>2, <2>3
<1>10. ASSUME NEW r \in Refreshes, Sd!Fail(r) PROVE RefreshInv'
  BY <1>0, <1>10, EndedFits DEF Sd!Fail
<1>11. ASSUME NEW r \in Refreshes, NEW i \in Instances, Sd!Read(r, i) PROVE RefreshInv'
  <2>1. registered' = registered /\ refreshes[r].stage = "reading" /\ i \in refreshes[r].left
    BY <1>11 DEF Sd!Read
  <2>2. CASE Sd!Ended(r)
    BY <1>0, <2>1, <2>2, EndedFits
  <2>3. CASE ~Sd!Ended(r)
    <3> DEFINE left == refreshes[r].left \ {i}
               got == refreshes[r].got \cup ({i} \cap registered)
    <3>1. refreshes' = [refreshes EXCEPT ![r].left = left, ![r].got = got]
      BY <1>11, <2>3 DEF Sd!Read, Sd!Publish
    <3>2. /\ refreshes[r] \in Refreshing /\ RefreshFits(r) /\ ~Sd!Free(r)
          /\ registered \in SUBSET Instances
      BY <1>0, <2>1 DEF RefreshInv, Sd!Free
    <3>3. left \in SUBSET Instances /\ got \in SUBSET Instances
      BY <3>2 DEF Refreshing
    <3>4. refreshes[r].stable \subseteq got \cup left /\ got \subseteq refreshes[r].ever
      BY <2>1, <3>2 DEF RefreshFits
    <3> HIDE DEF left, got
    <3>5. refreshes' = [refreshes EXCEPT ![r].stage = "reading", ![r].left = left, ![r].got = got]
      BY <1>0, <2>1, <3>1, <3>2 DEF RefreshInv, Refreshing
    <3> QED
      BY <1>0, <2>1, <3>2, <3>3, <3>4, <3>5, ReadingFits
  <2> QED
    BY <2>2, <2>3
<1>12. CASE UNCHANGED Sd!discoveryVars
  BY <1>1, <1>12 DEF Sd!discoveryVars
<1> QED
  BY <1>2, <1>3, <1>4, <1>5, <1>6, <1>7, <1>8, <1>9, <1>10, <1>11, <1>12 DEF Sd!Next

LEMMA EventSteps == DiscoveryInv /\ [Sd!Next]_(Sd!discoveryVars) => EventsInv'
<1> SUFFICES ASSUME DiscoveryInv, [Sd!Next]_(Sd!discoveryVars) PROVE EventsInv'
  OBVIOUS
<1>0. EventsInv /\ MaxChanges \in Nat
  BY DiscoveryConstants DEF DiscoveryInv
<1>1. ASSUME changes' = changes, events' \in {events, 0} PROVE EventsInv'
  BY <1>0, <1>1 DEF EventsInv
<1>2. ASSUME changes < MaxChanges, changes' = changes + 1, events' \in {events, events + 1}
      PROVE  EventsInv'
  BY <1>0, <1>2 DEF EventsInv
<1>3. ASSUME NEW list, Sd!SourceChanges(list) PROVE EventsInv'
  BY <1>2, <1>3 DEF Sd!SourceChanges
<1>4. ASSUME NEW list, Sd!UpdateStaticInstances(list) PROVE EventsInv'
  BY <1>2, <1>4 DEF Sd!UpdateStaticInstances
<1>5. ASSUME NEW r, Sd!EventArrives(r) PROVE EventsInv'
  <2>1. changes' = changes /\ events > 0 /\ events' = events - 1
    BY <1>5 DEF Sd!EventArrives
  <2> QED
    BY <1>0, <2>1 DEF EventsInv
<1>6. ASSUME NEW w, Sd!Watch(w) \/ Sd!Unwatch(w) PROVE EventsInv'
  BY <1>1, <1>6 DEF Sd!Watch, Sd!Unwatch
<1>7. CASE Sd!StartStatic \/ Sd!StartConsul \/ Sd!WatchOpens \/ Sd!Stop \/ Sd!Closed
  BY <1>1, <1>7 DEF Sd!StartStatic, Sd!StartConsul, Sd!WatchOpens, Sd!Stop, Sd!Closed
<1>8. ASSUME NEW r, NEW i, Sd!StartWatched(r) \/ Sd!List(r) \/ Sd!Fail(r) \/ Sd!Read(r, i)
      PROVE  EventsInv'
  BY <1>1, <1>8 DEF Sd!StartWatched, Sd!List, Sd!Fail, Sd!Read
<1>9. CASE UNCHANGED Sd!discoveryVars
  BY <1>1, <1>9 DEF Sd!discoveryVars
<1> QED
  BY <1>3, <1>4, <1>5, <1>6, <1>7, <1>8, <1>9 DEF Sd!Next

LEMMA WatchKeeps ==
  ASSUME WatchersInv, NEW w \in Watchers, Sd!Watch(w) PROVE WatchersInv'
<1>1. /\ watchers' = Append(watchers, w) /\ seen' = [seen EXCEPT ![w] = instances]
      /\ instances' = instances /\ departed' = departed /\ w \notin Range(watchers)
  BY DiscoveryLibrary DEF Sd!Watch
<1>2. /\ watchers' \in Seq(Watchers) /\ IsInjective(watchers')
      /\ Range(watchers') = Range(watchers) \cup {w}
  BY <1>1, AppendProperties, InjectiveAppend, RangeAppend DEF WatchersInv
<1>3. seen' \in [Watchers -> SUBSET Instances] /\ seen'[w] = instances
  BY <1>1 DEF WatchersInv
<1>4. Behind' \subseteq Behind
  <2>1. \A v \in Range(watchers) : v # w /\ seen'[v] = seen[v]
    BY <1>1, LineCardinality DEF WatchersInv
  <2> QED
    BY <1>1, <1>2, <1>3, <2>1 DEF Behind
<1>5. Sd!WatchersAgree'
  BY <1>1, <1>4, FewerBehind
<1> QED
  BY <1>1, <1>2, <1>3, <1>5 DEF WatchersInv

LEMMA UnwatchKeeps ==
  ASSUME WatchersInv, NEW w \in Watchers, Sd!Unwatch(w) PROVE WatchersInv'
<1>1. PICK k \in DOMAIN watchers : watchers[k] = w /\ watchers' = Sd!RemoveAt(watchers, k)
  BY DEF Sd!Unwatch
<1>2. /\ seen' = [seen EXCEPT ![w] = {}] /\ instances' = instances /\ departed' = departed
  BY DEF Sd!Unwatch
<1>3. k \in 1 .. Len(watchers)
  BY LenProperties DEF WatchersInv
<1>4. watchers' = SubSeq(watchers, 1, k - 1) \o SubSeq(watchers, k + 1, Len(watchers))
  BY <1>1 DEF Sd!RemoveAt
<1>5. /\ watchers' \in Seq(Watchers) /\ IsInjective(watchers')
      /\ Range(watchers') = Range(watchers) \ {w}
  BY <1>1, <1>3, <1>4, RemoveFromLine DEF WatchersInv
<1>6. seen' \in [Watchers -> SUBSET Instances]
  BY <1>2 DEF WatchersInv
<1>7. Behind' \subseteq Behind
  <2>1. \A v \in Range(watchers) \ {w} : seen'[v] = seen[v]
    BY <1>2, LineCardinality DEF WatchersInv
  <2> QED
    BY <1>2, <1>5, <2>1 DEF Behind
<1>8. Sd!WatchersAgree'
  BY <1>2, <1>7, FewerBehind
<1> QED
  BY <1>2, <1>5, <1>6, <1>8 DEF WatchersInv

\* Every list that a watcher is given was registered at some time, all of it.
LEMMA WatcherSteps == DiscoveryInv /\ [Sd!Next]_(Sd!discoveryVars) => WatchersInv'
<1> SUFFICES ASSUME DiscoveryInv, [Sd!Next]_(Sd!discoveryVars) PROVE WatchersInv'
  OBVIOUS
<1>0. WatchersInv /\ RefreshInv /\ registered \in SUBSET Instances /\ {} \in SUBSET Instances
  BY DEF DiscoveryInv, RefreshInv
<1>1. ASSUME UNCHANGED <<instances, watchers, seen, departed>> PROVE WatchersInv'
  <2>1. Behind' \subseteq Behind
    BY <1>1 DEF Behind
  <2>2. Sd!WatchersAgree'
    BY <1>0, <1>1, <2>1, FewerBehind
  <2> QED
    BY <1>0, <1>1, <2>2 DEF WatchersInv
<1>2. ASSUME NEW list \in SUBSET Instances, Sd!UpdateInstances(list) PROVE WatchersInv'
  BY <1>0, <1>2, UpdateKeeps
<1>3. ASSUME NEW w \in Watchers, Sd!Watch(w) \/ Sd!Unwatch(w) PROVE WatchersInv'
  BY <1>0, <1>3, WatchKeeps, UnwatchKeeps
<1>4. ASSUME NEW list \in SUBSET Instances, Sd!SourceChanges(list) PROVE WatchersInv'
  BY <1>1, <1>4 DEF Sd!SourceChanges
<1>5. ASSUME NEW list \in SUBSET Instances, Sd!UpdateStaticInstances(list) PROVE WatchersInv'
  BY <1>1, <1>2, <1>5 DEF Sd!UpdateStaticInstances
<1>6. CASE Sd!StartStatic
  BY <1>0, <1>2, <1>6 DEF Sd!StartStatic
<1>7. CASE Sd!StartConsul \/ Sd!WatchOpens
  BY <1>1, <1>7 DEF Sd!StartConsul, Sd!WatchOpens
<1>8. CASE Sd!Stop \/ Sd!Closed
  BY <1>0, <1>1, <1>2, <1>8 DEF Sd!Stop, Sd!Closed
<1>9. ASSUME NEW r \in Refreshes, Sd!StartWatched(r) \/ Sd!EventArrives(r) \/ Sd!Fail(r)
      PROVE  WatchersInv'
  BY <1>1, <1>9 DEF Sd!StartWatched, Sd!EventArrives, Sd!Fail
<1>10. ASSUME NEW r \in Refreshes, Sd!List(r) PROVE WatchersInv'
  BY <1>0, <1>1, <1>2, <1>10 DEF Sd!List, Sd!Publish
<1>11. ASSUME NEW r \in Refreshes, NEW i \in Instances, Sd!Read(r, i) PROVE WatchersInv'
  <2>1. refreshes[r].got \cup ({i} \cap registered) \in SUBSET Instances
    BY <1>0 DEF RefreshInv, Refreshing
  <2> QED
    BY <1>1, <1>2, <1>11, <2>1 DEF Sd!Read, Sd!Publish
<1>12. CASE UNCHANGED Sd!discoveryVars
  BY <1>1, <1>12 DEF Sd!discoveryVars
<1> QED
  BY <1>3, <1>4, <1>5, <1>6, <1>7, <1>8, <1>9, <1>10, <1>11, <1>12 DEF Sd!Next

LEMMA DiscoveryNext == DiscoveryInv /\ [Sd!Next]_(Sd!discoveryVars) => DiscoveryInv'
BY FlagSteps, RefreshSteps, EventSteps, WatcherSteps DEF DiscoveryInv

LEMMA DiscoveryHolds == DiscoveryInv => Sd!TypeOK /\ Sd!WatchersAgree
<1> SUFFICES ASSUME DiscoveryInv PROVE Sd!TypeOK /\ Sd!WatchersAgree
  OBVIOUS
<1>1. Range(watchers) \subseteq Watchers
  BY LineCardinality DEF DiscoveryInv, WatchersInv
<1>2. Sd!ToSet(watchers) \subseteq Watchers /\ Sd!IsInjective(watchers)
  BY <1>1, DiscoveryLibrary DEF DiscoveryInv, WatchersInv
<1>3. events \in 0 .. MaxChanges /\ changes \in 0 .. MaxChanges
  BY DiscoveryConstants DEF DiscoveryInv, EventsInv
<1> QED
  BY <1>2, <1>3 DEF DiscoveryInv, WatchersInv, RefreshInv, DiscoveryFlags, Sd!TypeOK

\* A refresh that ends with another list than the one published has asked for every
\* instance it knew, and got those that were there all the time.
DiscoveryRegular ==
  \A r \in Refreshes :
    (~Sd!Free(r) /\ Sd!Free(r)' /\ instances' # instances) =>
       refreshes[r].stable \subseteq instances' /\ instances' \subseteq refreshes[r].ever

LEMMA RegularSteps == DiscoveryInv /\ [Sd!Next]_(Sd!discoveryVars) => [DiscoveryRegular]_(Sd!discoveryVars)
<1> SUFFICES ASSUME DiscoveryInv, Sd!Next PROVE DiscoveryRegular
  OBVIOUS
<1>0. WatchersInv /\ RefreshInv /\ registered \in SUBSET Instances
  BY DEF DiscoveryInv, RefreshInv
<1>1. ASSUME instances' = instances PROVE DiscoveryRegular
  BY <1>1 DEF DiscoveryRegular
<1>2. ASSUME refreshes' = refreshes PROVE DiscoveryRegular
  BY <1>2 DEF DiscoveryRegular, Sd!Free
<1>3. ASSUME NEW list \in SUBSET Instances, NEW r \in Refreshes, Sd!Publish(r, list),
             refreshes[r].stable \subseteq list, list \subseteq refreshes[r].ever
      PROVE  DiscoveryRegular
  <2>1. instances' = list
    BY <1>0, <1>3, UpdateKeeps DEF Sd!Publish
  <2>2. \A q \in Refreshes \ {r} : refreshes'[q] = refreshes[q]
    BY <1>0, <1>3 DEF Sd!Publish, Sd!Ended, RefreshInv
  <2> QED
    BY <1>3, <2>1, <2>2 DEF DiscoveryRegular, Sd!Free
<1>4. ASSUME NEW w, Sd!Watch(w) \/ Sd!Unwatch(w) PROVE DiscoveryRegular
  BY <1>1, <1>4 DEF Sd!Watch, Sd!Unwatch
<1>5. ASSUME NEW list, Sd!SourceChanges(list) \/ Sd!UpdateStaticInstances(list) PROVE DiscoveryRegular
  BY <1>1, <1>2, <1>5 DEF Sd!SourceChanges, Sd!UpdateStaticInstances
<1>6. CASE Sd!StartStatic \/ Sd!StartConsul \/ Sd!WatchOpens \/ Sd!Stop \/ Sd!Closed
  BY <1>1, <1>2, <1>6 DEF Sd!StartStatic, Sd!StartConsul, Sd!WatchOpens, Sd!Stop, Sd!Closed
<1>7. ASSUME NEW r, Sd!StartWatched(r) \/ Sd!EventArrives(r) \/ Sd!Fail(r) PROVE DiscoveryRegular
  BY <1>1, <1>7 DEF Sd!StartWatched, Sd!EventArrives, Sd!Fail
<1>8. ASSUME NEW r \in Refreshes, Sd!List(r) PROVE DiscoveryRegular
  <2>1. RefreshFits(r) /\ ~Sd!Free(r)
    BY <1>0, <1>8 DEF RefreshInv, Sd!List, Sd!Free
  <2>2. CASE Sd!Publish(r, registered)
    BY <1>0, <1>3, <2>1, <2>2 DEF RefreshFits
  <2>3. CASE ~Sd!Publish(r, registered)
    BY <1>1, <1>8, <2>3 DEF Sd!List
  <2> QED
    BY <2>2, <2>3
<1>9. ASSUME NEW r \in Refreshes, NEW i \in Instances, Sd!Read(r, i) PROVE DiscoveryRegular
  <2> DEFINE got == refreshes[r].got \cup ({i} \cap registered)
  <2>1. RefreshFits(r) /\ ~Sd!Free(r) /\ refreshes[r].stage = "reading"
    BY <1>0, <1>9 DEF RefreshInv, Sd!Read, Sd!Free
  <2>2. got \in SUBSET Instances
    BY <1>0 DEF RefreshInv, Refreshing
  <2>3. CASE refreshes[r].left = {i}
    <3>1. Sd!Publish(r, got)
      BY <1>9, <2>3 DEF Sd!Read
    <3>2. refreshes[r].stable \subseteq got /\ got \subseteq refreshes[r].ever
      BY <2>1, <2>3 DEF RefreshFits
    <3> QED
      BY <1>3, <2>2, <3>1, <3>2
  <2>4. CASE refreshes[r].left # {i}
    BY <1>1, <1>9, <2>4 DEF Sd!Read
  <2> QED
    BY <2>3, <2>4
<1> QED
  BY <1>4, <1>5, <1>6, <1>7, <1>8, <1>9 DEF Sd!Next

-----------------------------------------------------------------------------
(* The cache of packages/cache. *)

\* The instance counts and keeps lines as the library does.
LEMMA CacheLibrary ==
  /\ \A S : Cm!Cardinality(S) = Cardinality(S)
  /\ \A q : Cm!IsInjective(q) = IsInjective(q) /\ Cm!ToSet(q) = Range(q)
<1>1. \A S : Cm!Cardinality(S) = Cardinality(S)
  BY DEF Cm!Cardinality, Cardinality
<1>2. \A q : Cm!IsInjective(q) = IsInjective(q)
  BY DEF Cm!IsInjective, IsInjective
<1>3. \A q : Cm!ToSet(q) = Range(q)
  BY DEF Cm!ToSet, Range
<1> QED
  BY <1>1, <1>2, <1>3

LEMMA CacheKept ==
  ASSUME NEW q, NEW S PROVE Cm!Kept(q, S) = Kept(q, S)
BY DEF Cm!Kept, Kept

LEMMA CacheConstants == MaxSize \in Nat \ {0} /\ Ttl \in Nat \ {0}
BY CacheAssumption DEF Cm!OptionsOK

CacheEntry ==
  [left : 0 .. Ttl + 1, idle : 0 .. Ttl,
   why : {"none", "current", "late", "update", "through", "behind"}]

\* A line of keys that fits the cache.
OrderInv ==
  /\ order \in Seq(CacheKeys) /\ IsInjective(order)
  /\ size \in Nat /\ Cm!WithinMax

EntriesInv ==
  /\ entries \in [CacheKeys -> CacheEntry]
  /\ \A k \in CacheKeys : k \notin Range(order) => entries[k] = Cm!NoEntry

\* A call of a factory is about a key, and what it has not got cannot be old.
FillsInv ==
  /\ fills \in [Fills -> [stage : {"idle", "called", "answered"},
                          key : CacheKeys \cup {Cm!IdleFill.key},
                          does : {"read", "write", "behind"}, old : BOOLEAN]]
  /\ \A f \in Fills : /\ fills[f].stage # "idle" => fills[f].key \in CacheKeys
                      /\ fills[f].stage # "answered" => ~fills[f].old

Explained(k) ==
  /\ entries[k].why = "update" => k \in announced
  /\ entries[k].why = "through" =>
       \E f \in Fills : fills[f].stage = "answered" /\ fills[f].key = k /\ ~fills[f].old

AnnouncedInv == announced \subseteq CacheKeys /\ \A k \in CacheKeys : Explained(k)

CacheInv == OrderInv /\ EntriesInv /\ FillsInv /\ AnnouncedInv

LEMMA CacheInit == Cm!Init => CacheInv
<1> SUFFICES ASSUME Cm!Init PROVE CacheInv
  OBVIOUS
<1>1. order = <<>> /\ order \in Seq(CacheKeys) /\ Len(order) = 0 /\ size = 0
      /\ IsInjective(order)
  BY DEF Cm!Init, IsInjective
<1>2. OrderInv
  BY <1>1, CacheConstants DEF OrderInv, Cm!WithinMax
<1>3. Cm!NoEntry \in CacheEntry /\ Cm!NoEntry.why = "none"
  BY CacheConstants DEF Cm!NoEntry, CacheEntry
<1>4. EntriesInv
  BY <1>3 DEF Cm!Init, EntriesInv
<1>5. FillsInv
  BY DEF Cm!Init, FillsInv, Cm!IdleFill
<1>6. AnnouncedInv
  BY <1>3 DEF Cm!Init, AnnouncedInv, Explained
<1> QED
  BY <1>2, <1>4, <1>5, <1>6 DEF CacheInv

LEMMA CacheHolds == CacheInv => Cm!TypeOK /\ Cm!WithinMax /\ Cm!StaleIsExplained
<1> SUFFICES ASSUME CacheInv PROVE Cm!TypeOK /\ Cm!WithinMax /\ Cm!StaleIsExplained
  OBVIOUS
<1>1. Range(order) \subseteq CacheKeys /\ Cm!Here = Range(order) /\ Cm!IsInjective(order)
  BY LineCardinality, CacheLibrary DEF CacheInv, OrderInv, Cm!Here
<1>2. \A k \in CacheKeys : entries[k].left \in 0 .. Ttl + 1
  BY DEF CacheInv, EntriesInv, CacheEntry
<1>3. Cm!TypeOK
  BY <1>1, <1>2 DEF CacheInv, OrderInv, EntriesInv, AnnouncedInv, Cm!TypeOK
<1>4. Cm!StaleIsExplained
  BY <1>1 DEF CacheInv, AnnouncedInv, Explained, Cm!StaleIsExplained
<1> QED
  BY <1>3, <1>4 DEF CacheInv, OrderInv

\* What delete(), cleanup() and an expired entry leave.
LEMMA RemovedKeeps ==
  ASSUME OrderInv, EntriesInv, NEW ks, Cm!Removed(ks)
  PROVE  /\ order' \in Seq(CacheKeys) /\ IsInjective(order')
         /\ Len(order') \in Nat /\ Len(order') <= Len(order) /\ Len(order') <= MaxSize
         /\ EntriesInv'
         /\ \A k \in CacheKeys : entries'[k] = IF k \in ks THEN Cm!NoEntry ELSE entries[k]
<1>1. order' = Kept(order, CacheKeys \ ks)
  BY CacheKept DEF Cm!Removed
<1>2. /\ order' \in Seq(CacheKeys) /\ IsInjective(order')
      /\ Range(order') = Range(order) \cap (CacheKeys \ ks)
  BY <1>1, KeepLine DEF OrderInv
<1>3. Len(order') \in Nat /\ Len(order') <= Len(order) /\ Len(order) \in Nat
  <2>1. /\ IsFiniteSet(Range(order)) /\ Cardinality(Range(order)) = Len(order)
        /\ Cardinality(Range(order')) = Len(order')
    BY <1>2, LineCardinality DEF OrderInv
  <2>2. Cardinality(Range(order')) <= Cardinality(Range(order))
    BY <1>2, <2>1, FS_Subset
  <2> QED
    BY <1>2, <2>1, <2>2, LenProperties DEF OrderInv
<1>4. Len(order') <= MaxSize
  BY <1>3, CacheConstants DEF OrderInv, Cm!WithinMax
<1>5. \A k \in CacheKeys : entries'[k] = IF k \in ks THEN Cm!NoEntry ELSE entries[k]
  BY DEF Cm!Removed
<1>6. Cm!NoEntry \in CacheEntry
  BY CacheConstants DEF Cm!NoEntry, CacheEntry
<1>7. entries' \in [CacheKeys -> CacheEntry]
  BY <1>6 DEF EntriesInv, Cm!Removed
<1>8. \A k \in CacheKeys : k \notin Range(order') => entries'[k] = Cm!NoEntry
  BY <1>2, <1>5 DEF EntriesInv
<1> QED
  BY <1>2, <1>3, <1>4, <1>5, <1>7, <1>8 DEF EntriesInv

\* evict() finds somebody: the entry that was not used for longest, and of those the
\* first in the Map.
LEMMA SomebodyIsEvicted ==
  ASSUME NEW keys \in Seq(CacheKeys), keys # <<>>, NEW used \in [CacheKeys -> CacheEntry]
  PROVE  \E j \in DOMAIN keys : keys[j] \in Cm!LeastRecent(keys, used)
<1> DEFINE Idle(j) == used[keys[j]].idle
           before(i, j) == Idle(i) > Idle(j) \/ (Idle(i) = Idle(j) /\ i < j)
<1>1. Len(keys) \in Nat \ {0} /\ DOMAIN keys = 1 .. Len(keys)
  BY LenProperties, EmptySeq
<1>2. \A j \in DOMAIN keys : Idle(j) \in 0 .. Ttl
  <2>1. \A j \in DOMAIN keys : keys[j] \in CacheKeys
    BY <1>1, ElementOfSeq
  <2> QED
    BY <2>1 DEF CacheEntry
<1> HIDE DEF Idle
<1> DEFINE Waits == {Ttl - Idle(j) : j \in DOMAIN keys}
<1>3. Waits \in SUBSET Nat /\ Waits # {}
  <2>1. 1 \in DOMAIN keys
    BY <1>1
  <2>2. \A j \in DOMAIN keys : Ttl - Idle(j) \in Nat
    BY <1>2, CacheConstants
  <2> QED
    BY <2>1, <2>2
<1>4. PICK a \in DOMAIN keys : \A j \in DOMAIN keys : Ttl - Idle(a) <= Ttl - Idle(j)
  <2>1. PICK w \in Waits : \A v \in Waits : w <= v
    BY <1>3, Smallest
  <2>2. PICK a \in DOMAIN keys : w = Ttl - Idle(a)
    OBVIOUS
  <2> QED
    BY <2>1, <2>2
<1>5. \A j \in DOMAIN keys : Idle(j) <= Idle(a)
  BY <1>2, <1>4, CacheConstants
<1> DEFINE Longest == {j \in DOMAIN keys : Idle(j) = Idle(a)}
<1>6. Longest \in SUBSET Nat /\ Longest # {}
  BY <1>1
<1>7. PICK j \in Longest : \A i \in Longest : j <= i
  BY <1>6, Smallest
<1>8. {i \in DOMAIN keys : before(i, j)} = {}
  <2> SUFFICES ASSUME NEW i \in DOMAIN keys, before(i, j) PROVE FALSE
    OBVIOUS
  <2>1. i \in Nat /\ j \in Nat /\ Idle(i) <= Idle(j) /\ Idle(i) \in Nat /\ Idle(j) \in Nat
    BY <1>1, <1>2, <1>5, <1>7
  <2>2. Idle(i) = Idle(j) /\ i < j
    BY <2>1
  <2>3. j <= i
    BY <1>7, <2>2
  <2> QED
    BY <2>1, <2>2, <2>3
<1>9. Cm!Cardinality({i \in DOMAIN keys : before(i, j)}) < Cm!Tenth
  <2>1. Cm!Tenth \in Nat /\ Cm!Tenth >= 1
    BY CacheConstants DEF Cm!Tenth
  <2>2. Cm!Cardinality({i \in DOMAIN keys : before(i, j)}) = 0
    BY <1>8, CacheLibrary, FS_EmptySet
  <2> QED
    BY <2>1, <2>2
<1> QED
  BY <1>7, <1>9 DEF Cm!LeastRecent, Idle

\* set() makes room for the key, its own place if it must.
LEMMA SetKeeps ==
  ASSUME OrderInv, EntriesInv, NEW k \in CacheKeys, NEW why \in {"current", "late"}, Cm!Set(k, why)
  PROVE  /\ OrderInv' /\ EntriesInv'
         /\ entries'[k].why \in {"current", "late", "none"}
         /\ \A l \in CacheKeys \ {k} : entries'[l] \in {entries[l], Cm!NoEntry}
<1> DEFINE keys == IF k \in Cm!Here THEN order ELSE Append(order, k)
           with == [entries EXCEPT ![k] = Cm!Entry(why)]
           out == IF Len(keys) > MaxSize THEN Cm!LeastRecent(keys, with) ELSE {}
<1>0. MaxSize \in Nat \ {0} /\ Ttl \in Nat \ {0} /\ Len(order) \in Nat /\ Len(order) <= MaxSize
      /\ Cm!Here = Range(order)
  BY CacheConstants, CacheLibrary, LenProperties DEF OrderInv, Cm!WithinMax, Cm!Here
<1>1. /\ keys \in Seq(CacheKeys) /\ IsInjective(keys) /\ Range(keys) = Range(order) \cup {k}
      /\ Len(keys) \in Nat /\ Len(keys) <= MaxSize + 1
  <2>1. CASE k \in Range(order)
    BY <1>0, <2>1 DEF OrderInv
  <2>2. CASE k \notin Range(order)
    <3>1. keys = Append(order, k)
      BY <1>0, <2>2
    <3>2. /\ Append(order, k) \in Seq(CacheKeys) /\ IsInjective(Append(order, k))
          /\ Range(Append(order, k)) = Range(order) \cup {k}
          /\ Len(Append(order, k)) = Len(order) + 1
      BY <2>2, AppendProperties, InjectiveAppend, RangeAppend DEF OrderInv
    <3> QED
      BY <1>0, <3>1, <3>2
  <2> QED
    BY <2>1, <2>2
<1>2. Cm!Entry(why) \in CacheEntry /\ Cm!NoEntry \in CacheEntry /\ Cm!Entry(why).why = why
      /\ Cm!NoEntry.why = "none"
  BY <1>0 DEF Cm!Entry, Cm!NoEntry, CacheEntry
<1>3. with \in [CacheKeys -> CacheEntry] /\ with[k] = Cm!Entry(why)
      /\ \A l \in CacheKeys \ {k} : with[l] = entries[l]
  BY <1>2 DEF EntriesInv
<1>4. /\ order' = Kept(keys, CacheKeys \ out)
      /\ entries' = [l \in CacheKeys |-> IF l \in out THEN Cm!NoEntry ELSE with[l]]
      /\ size' = Len(order')
  <2>1. /\ order' = Cm!Kept(keys, CacheKeys \ out)
        /\ entries' = [l \in CacheKeys |-> IF l \in out THEN Cm!NoEntry ELSE with[l]]
        /\ size' = Len(order')
    BY DEF Cm!Set
  <2>2. Cm!Kept(keys, CacheKeys \ out) = Kept(keys, CacheKeys \ out)
    BY CacheKept
  <2> HIDE DEF keys, with, out
  <2> QED
    BY <2>1, <2>2
<1> HIDE DEF keys, with
<1>5. /\ order' \in Seq(CacheKeys) /\ IsInjective(order')
      /\ Range(order') = Range(keys) \cap (CacheKeys \ out)
  BY <1>1, <1>4, KeepLine
<1>6. Len(order') \in Nat /\ Len(order') <= MaxSize
  <2>1. /\ IsFiniteSet(Range(keys)) /\ Cardinality(Range(keys)) = Len(keys)
        /\ Cardinality(Range(order')) = Len(order') /\ Len(order') \in Nat
    BY <1>1, <1>5, LineCardinality, LenProperties
  <2>2. CASE Len(keys) > MaxSize
    <3>1. keys # <<>>
      BY <1>0, <2>2, EmptySeq
    <3>2. PICK j \in DOMAIN keys : keys[j] \in Cm!LeastRecent(keys, with)
      BY <1>1, <1>3, <3>1, SomebodyIsEvicted
    <3>3. keys[j] \in Range(keys) /\ Range(order') \subseteq Range(keys) \ {keys[j]}
      BY <1>5, <2>2, <3>2 DEF Range
    <3>4. IsFiniteSet(Range(keys) \ {keys[j]})
          /\ Cardinality(Range(keys) \ {keys[j]}) = Cardinality(Range(keys)) - 1
      BY <2>1, <3>3, FS_RemoveElement
    <3>5. Cardinality(Range(order')) <= Cardinality(Range(keys) \ {keys[j]})
      BY <3>3, <3>4, FS_Subset
    <3> QED
      BY <1>0, <1>1, <2>1, <3>4, <3>5
  <2>3. CASE ~(Len(keys) > MaxSize)
    <3>1. Cardinality(Range(order')) <= Cardinality(Range(keys))
      BY <1>5, <2>1, FS_Subset
    <3> QED
      BY <1>0, <1>1, <2>1, <2>3, <3>1
  <2> QED
    BY <2>2, <2>3
<1>7. OrderInv'
  BY <1>4, <1>5, <1>6 DEF OrderInv, Cm!WithinMax
<1> HIDE DEF out
<1>8. entries' \in [CacheKeys -> CacheEntry]
  BY <1>2, <1>3, <1>4
<1>9. ASSUME NEW l \in CacheKeys, l \notin Range(order') PROVE entries'[l] = Cm!NoEntry
  <2>1. CASE l \in out
    BY <1>4, <2>1
  <2>2. CASE l \notin out
    <3>1. l \notin Range(order) /\ l # k
      BY <1>1, <1>5, <1>9, <2>2
    <3> QED
      BY <1>3, <1>4, <2>2, <3>1 DEF EntriesInv
  <2> QED
    BY <2>1, <2>2
<1>10. entries'[k].why \in {"current", "late", "none"}
  BY <1>2, <1>3, <1>4
<1>11. \A l \in CacheKeys \ {k} : entries'[l] \in {entries[l], Cm!NoEntry}
  BY <1>3, <1>4
<1> QED
  BY <1>7, <1>8, <1>9, <1>10, <1>11 DEF EntriesInv

\* An entry stays explained unless it becomes old, its update is taken for done, or a
\* call that is about to set it is given up.
LEMMA ExplainedStill ==
  ASSUME NEW k \in CacheKeys, Explained(k),
         entries'[k].why \in {entries[k].why, "none", "current", "late", "behind"},
         k \in announced => k \in announced',
         \A f \in Fills : fills[f].stage = "answered" /\ fills[f].key = k => fills'[f] = fills[f]
  PROVE  Explained(k)'
BY DEF Explained

\* A call begins where none was.
LEMMA CallKeeps ==
  ASSUME FillsInv, NEW f \in Fills, Cm!Free(f), NEW k \in CacheKeys,
         NEW does \in {"read", "write", "behind"}, Cm!Call(f, k, does)
  PROVE  FillsInv' /\ \A g \in Fills : fills[g].stage = "answered" => fills'[g] = fills[g]
<1> DEFINE new == [Cm!IdleFill EXCEPT !.stage = "called", !.key = k, !.does = does]
<1>1. fills' = [fills EXCEPT ![f] = new]
  BY DEF Cm!Call
<1>2. /\ new \in [stage : {"idle", "called", "answered"}, key : CacheKeys \cup {Cm!IdleFill.key},
                    does : {"read", "write", "behind"}, old : BOOLEAN]
      /\ new.stage = "called" /\ new.key = k /\ ~new.old
  <2>1. Cm!IdleFill \in [stage : {"idle", "called", "answered"}, key : CacheKeys \cup {Cm!IdleFill.key},
                         does : {"read", "write", "behind"}, old : BOOLEAN]
        /\ ~Cm!IdleFill.old
    BY DEF Cm!IdleFill
  <2> QED
    BY <2>1
<1> HIDE DEF new
<1> QED
  BY <1>1, <1>2 DEF FillsInv, Cm!Free

\* A call ends: nobody waits for what it would have set but its own key.
LEMMA IdleKeeps ==
  ASSUME FillsInv, NEW f \in Fills, fills' = [fills EXCEPT ![f] = Cm!IdleFill]
  PROVE  FillsInv' /\ \A g \in Fills \ {f} : fills'[g] = fills[g]
<1>1. Cm!IdleFill.stage = "idle" /\ ~Cm!IdleFill.old
      /\ Cm!IdleFill \in [stage : {"idle", "called", "answered"},
                          key : CacheKeys \cup {Cm!IdleFill.key},
                          does : {"read", "write", "behind"}, old : BOOLEAN]
  BY DEF Cm!IdleFill
<1> QED
  BY <1>1 DEF FillsInv

\* A change of the store: what has been read before is old.
LEMMA OutdatedKeeps ==
  ASSUME FillsInv, NEW k
  PROVE  /\ \A f \in Fills : /\ Cm!Outdated(k)[f].stage = fills[f].stage
                             /\ Cm!Outdated(k)[f].key = fills[f].key
                             /\ Cm!Outdated(k)[f].does = fills[f].does
                             /\ Cm!Outdated(k)[f].old \in BOOLEAN
                             /\ fills[f].stage # "answered" \/ fills[f].key # k =>
                                  Cm!Outdated(k)[f] = fills[f]
         /\ Cm!Outdated(k) \in [Fills -> [stage : {"idle", "called", "answered"},
                                          key : CacheKeys \cup {Cm!IdleFill.key},
                                          does : {"read", "write", "behind"}, old : BOOLEAN]]
BY DEF Cm!Outdated, FillsInv

LEMMA StoreChangesKeeps ==
  ASSUME EntriesInv, NEW k \in CacheKeys,
         NEW why \in {"update", "through", "behind"}, Cm!StoreChanges(k, why), order' = order
  PROVE  /\ EntriesInv' /\ entries'[k].why \in {"none", why}
         /\ \A l \in CacheKeys \ {k} : entries'[l] = entries[l]
<1> DEFINE new == [entries[k] EXCEPT !.why = IF @ = "none" THEN @ ELSE why]
<1>1. new \in CacheEntry /\ new.why = (IF entries[k].why = "none" THEN "none" ELSE why)
      /\ (entries[k] = Cm!NoEntry => new = Cm!NoEntry)
  BY DEF EntriesInv, CacheEntry, Cm!NoEntry
<1>2. entries' = [entries EXCEPT ![k] = new]
  BY DEF Cm!StoreChanges, EntriesInv
<1> HIDE DEF new
<1> QED
  BY <1>1, <1>2 DEF EntriesInv

LEMMA CacheNext == CacheInv /\ [Cm!Next]_(Cm!cacheVars) => CacheInv'
<1> SUFFICES ASSUME CacheInv, [Cm!Next]_(Cm!cacheVars) PROVE CacheInv'
  OBVIOUS
<1>0. OrderInv /\ EntriesInv /\ FillsInv /\ AnnouncedInv /\ announced \subseteq CacheKeys
      /\ Cm!Here = Range(order) /\ Range(order) \subseteq CacheKeys
  BY LineCardinality, CacheLibrary DEF CacheInv, AnnouncedInv, OrderInv, Cm!Here
<1>01. Cm!NoEntry.why = "none" /\ Cm!NoEntry \in CacheEntry
  BY CacheConstants DEF Cm!NoEntry, CacheEntry
<1>02. Len(order) \in Nat /\ Len(order) <= size /\ Len(order) <= MaxSize
  BY <1>0, LenProperties DEF OrderInv, Cm!WithinMax
<1>03. ASSUME NEW ks, Cm!Removed(ks) PROVE \A k \in CacheKeys : entries'[k].why \in {entries[k].why, "none"}
  BY <1>0, <1>01, <1>03, RemovedKeeps
<1>04. ASSUME NEW k \in CacheKeys, Cm!Touch(k), size' = size
       PROVE  OrderInv' /\ EntriesInv' /\ \A l \in CacheKeys : entries'[l].why = entries[l].why
  <2>1. Cm!NoEntry.idle = 0 /\ 0 \in 0 .. Ttl
    BY CacheConstants DEF Cm!NoEntry
  <2>2. [entries[k] EXCEPT !.idle = 0] \in CacheEntry
        /\ [entries[k] EXCEPT !.idle = 0].why = entries[k].why
        /\ (entries[k] = Cm!NoEntry => [entries[k] EXCEPT !.idle = 0] = Cm!NoEntry)
    BY <1>0, <2>1 DEF EntriesInv, CacheEntry, Cm!NoEntry
  <2>3. entries' = [entries EXCEPT ![k] = [entries[k] EXCEPT !.idle = 0]] /\ order' = order
    BY <1>0, <1>04 DEF Cm!Touch, EntriesInv
  <2> DEFINE new == [entries[k] EXCEPT !.idle = 0]
  <2> HIDE DEF new
  <2>4. EntriesInv'
    BY <1>0, <2>2, <2>3 DEF EntriesInv, new
  <2>5. \A l \in CacheKeys : entries'[l].why = entries[l].why
    BY <1>0, <2>2, <2>3 DEF EntriesInv, new
  <2> QED
    BY <1>0, <1>04, <2>3, <2>4, <2>5 DEF OrderInv, Cm!WithinMax
<1>05. ASSUME \A k \in CacheKeys : entries'[k].why \in {entries[k].why, "none"},
              announced' = announced,
              \A f \in Fills : fills[f].stage = "answered" => fills'[f] = fills[f]
       PROVE  AnnouncedInv'
  BY <1>0, <1>05, ExplainedStill DEF AnnouncedInv
<1>06. ASSUME NEW ks, Cm!Removed(ks), size' \in {size, Len(order')} PROVE OrderInv' /\ EntriesInv'
  BY <1>0, <1>02, <1>06, RemovedKeeps DEF OrderInv, Cm!WithinMax
<1>07. ASSUME UNCHANGED <<order, entries, size>> PROVE OrderInv' /\ EntriesInv'
  BY <1>0, <1>07 DEF OrderInv, EntriesInv, Cm!WithinMax
<1>1. ASSUME NEW k \in CacheKeys, Cm!Look(k) PROVE CacheInv'
  <2>1. FillsInv'
    BY <1>0, <1>1 DEF Cm!Look, FillsInv
  <2>2. OrderInv' /\ EntriesInv' /\ \A l \in CacheKeys : entries'[l].why \in {entries[l].why, "none"}
    BY <1>1, <1>03, <1>04, <1>06 DEF Cm!Look
  <2>3. AnnouncedInv'
    BY <1>1, <1>05, <2>2 DEF Cm!Look
  <2> QED
    BY <2>1, <2>2, <2>3 DEF CacheInv
<1>2. ASSUME NEW k \in CacheKeys, Cm!Update(k) PROVE CacheInv'
  <2>1. Cm!StoreChanges(k, "update") /\ order' = order /\ size' = size
        /\ fills' = Cm!Outdated(k) /\ announced' = announced \cup {k}
    BY <1>2 DEF Cm!Update
  <2>2. EntriesInv' /\ \A l \in CacheKeys \ {k} : entries'[l] = entries[l]
    BY <1>0, <2>1, StoreChangesKeeps
  <2>3. entries'[k].why \in {"none", "update"}
    BY <1>0, <2>1, StoreChangesKeeps
  <2>4. FillsInv' /\ \A f \in Fills : fills[f].key # k => fills'[f] = fills[f]
    BY <1>0, <2>1, OutdatedKeeps DEF FillsInv
  <2>5. ASSUME NEW l \in CacheKeys PROVE Explained(l)'
    <3>1. CASE l = k
      BY <2>1, <2>3, <3>1 DEF Explained
    <3>2. CASE l # k
      <4>1. Explained(l)
        BY <1>0 DEF AnnouncedInv
      <4> QED
        BY <2>1, <2>2, <2>4, <3>2, <4>1, ExplainedStill
    <3> QED
      BY <3>1, <3>2
  <2>6. OrderInv'
    BY <1>0, <2>1 DEF OrderInv, Cm!WithinMax
  <2> QED
    BY <1>0, <2>1, <2>2, <2>4, <2>5, <2>6 DEF CacheInv, AnnouncedInv
<1>3. ASSUME NEW k \in CacheKeys, Cm!Delete(k) PROVE CacheInv'
  <2>1. Cm!Removed({k}) /\ announced' = announced \ {k} /\ fills' = fills
    BY <1>3 DEF Cm!Delete
  <2>2. OrderInv' /\ EntriesInv'
    BY <1>3, <1>06, <2>1 DEF Cm!Delete
  <2>3. ASSUME NEW l \in CacheKeys PROVE Explained(l)'
    <3>1. CASE l = k
      <4>1. entries'[l] = Cm!NoEntry
        BY <1>0, <2>1, <3>1, RemovedKeeps
      <4> QED
        BY <1>01, <4>1 DEF Explained
    <3>2. CASE l # k
      <4>1. Explained(l) /\ entries'[l].why \in {entries[l].why, "none"}
        BY <1>0, <1>03, <2>1 DEF AnnouncedInv
      <4> QED
        BY <2>1, <3>2, <4>1, ExplainedStill
    <3> QED
      BY <3>1, <3>2
  <2>4. FillsInv'
    BY <1>0, <2>1 DEF FillsInv
  <2> QED
    BY <1>0, <2>1, <2>2, <2>3, <2>4 DEF CacheInv, AnnouncedInv
<1>4. ASSUME NEW f \in Fills, NEW k \in CacheKeys, Cm!WriteThrough(f, k) \/ Cm!RefreshAhead(f, k)
      PROVE  CacheInv'
  <2>1. /\ Cm!Free(f) /\ (Cm!Call(f, k, "write") \/ Cm!Call(f, k, "read"))
        /\ UNCHANGED <<order, entries, size, announced>>
    BY <1>4 DEF Cm!WriteThrough, Cm!RefreshAhead
  <2>2. FillsInv' /\ \A g \in Fills : fills[g].stage = "answered" => fills'[g] = fills[g]
    BY <1>0, <2>1, CallKeeps
  <2>3. AnnouncedInv'
    BY <1>05, <2>1, <2>2
  <2> QED
    BY <1>07, <2>1, <2>2, <2>3 DEF CacheInv
<1>5. ASSUME NEW f \in Fills, NEW k \in CacheKeys, Cm!WriteBehind(f, k) PROVE CacheInv'
  <2>1. Cm!Free(f) /\ Cm!Call(f, k, "behind") /\ Cm!Touch(k) /\ UNCHANGED <<size, announced>>
    BY <1>5 DEF Cm!WriteBehind
  <2>2. FillsInv' /\ \A g \in Fills : fills[g].stage = "answered" => fills'[g] = fills[g]
    BY <1>0, <2>1, CallKeeps
  <2>3. OrderInv' /\ EntriesInv' /\ \A l \in CacheKeys : entries'[l].why = entries[l].why
    BY <1>04, <2>1
  <2>4. AnnouncedInv'
    BY <1>05, <2>1, <2>2, <2>3
  <2> QED
    BY <2>2, <2>3, <2>4 DEF CacheInv
<1>6. ASSUME NEW f \in Fills, NEW k \in CacheKeys, NEW does \in {"read", "write"},
             Cm!CallOnMiss(f, k, does)
      PROVE  CacheInv'
  <2>1. Cm!Free(f) /\ Cm!Call(f, k, does) /\ Cm!Removed({k}) /\ UNCHANGED <<size, announced>>
    BY <1>6 DEF Cm!CallOnMiss
  <2>2. FillsInv' /\ \A g \in Fills : fills[g].stage = "answered" => fills'[g] = fills[g]
    BY <1>0, <2>1, CallKeeps
  <2>3. OrderInv' /\ EntriesInv' /\ AnnouncedInv'
    BY <1>03, <1>05, <1>06, <2>1, <2>2
  <2> QED
    BY <2>2, <2>3 DEF CacheInv
<1>7. ASSUME NEW f \in Fills, Cm!FactoryReads(f) PROVE CacheInv'
  <2>1. /\ fills[f].stage = "called" /\ fills' = [fills EXCEPT ![f].stage = "answered"]
        /\ UNCHANGED <<order, entries, size, announced>>
    BY <1>7 DEF Cm!FactoryReads
  <2>2. FillsInv' /\ \A g \in Fills : fills[g].stage = "answered" => fills'[g] = fills[g]
    BY <1>0, <2>1 DEF FillsInv
  <2>3. AnnouncedInv'
    BY <1>05, <2>1, <2>2
  <2> QED
    BY <1>07, <2>1, <2>2, <2>3 DEF CacheInv
<1>8. ASSUME NEW f \in Fills, Cm!FactoryFails(f) PROVE CacheInv'
  <2>1. /\ fills[f].stage = "called" /\ fills' = [fills EXCEPT ![f] = Cm!IdleFill]
        /\ UNCHANGED <<order, entries, size, announced>>
    BY <1>8 DEF Cm!FactoryFails
  <2>2. FillsInv' /\ \A g \in Fills : fills[g].stage = "answered" => fills'[g] = fills[g]
    BY <1>0, <2>1, IdleKeeps
  <2>3. AnnouncedInv'
    BY <1>05, <2>1, <2>2
  <2> QED
    BY <1>07, <2>1, <2>2, <2>3 DEF CacheInv
<1>9. ASSUME NEW f \in Fills, Cm!FactoryWrites(f) PROVE CacheInv'
  <2> DEFINE k == fills[f].key
  <2>1. /\ fills[f].stage = "called" /\ Cm!StoreChanges(k, "through")
        /\ fills' = [Cm!Outdated(k) EXCEPT ![f].stage = "answered"]
        /\ UNCHANGED <<order, size, announced>>
    BY <1>9 DEF Cm!FactoryWrites
  <2>2. k \in CacheKeys /\ ~fills[f].old
    BY <1>0, <2>1 DEF FillsInv
  <2>3. Cm!Outdated(k)[f] = fills[f]
    BY <1>0, <2>1, OutdatedKeeps
  <2>4. fills' \in [Fills -> [stage : {"idle", "called", "answered"},
                              key : CacheKeys \cup {Cm!IdleFill.key},
                              does : {"read", "write", "behind"}, old : BOOLEAN]]
    BY <1>0, <2>1, OutdatedKeeps
  <2>5. fills'[f].stage = "answered" /\ fills'[f].key = k /\ ~fills'[f].old
    BY <1>0, <2>1, <2>2, <2>3, OutdatedKeeps DEF FillsInv
  <2>6. \A g \in Fills \ {f} : fills'[g] = Cm!Outdated(k)[g]
    BY <1>0, <2>1, OutdatedKeeps
  <2>7. \A g \in Fills \ {f} : fills'[g].stage = fills[g].stage /\ fills'[g].key = fills[g].key
                               /\ (fills[g].stage # "answered" \/ fills[g].key # k => fills'[g] = fills[g])
    BY <1>0, <2>6, OutdatedKeeps
  <2>8. FillsInv'
    BY <1>0, <2>2, <2>4, <2>5, <2>7 DEF FillsInv
  <2>9. /\ EntriesInv' /\ entries'[k].why \in {"none", "through"}
        /\ \A l \in CacheKeys \ {k} : entries'[l] = entries[l]
    BY <1>0, <2>1, <2>2, StoreChangesKeeps
  <2> HIDE DEF k
  <2>10. ASSUME NEW l \in CacheKeys PROVE Explained(l)'
    <3>1. CASE l = k
      BY <2>5, <2>9, <3>1 DEF Explained
    <3>2. CASE l # k
      <4>1. Explained(l)
        BY <1>0 DEF AnnouncedInv
      <4>2. \A g \in Fills : fills[g].stage = "answered" /\ fills[g].key = l => fills'[g] = fills[g]
        BY <2>1, <2>7, <3>2
      <4> QED
        BY <2>1, <2>9, <3>2, <4>1, <4>2, ExplainedStill
    <3> QED
      BY <3>1, <3>2
  <2>11. OrderInv'
    BY <1>0, <2>1 DEF OrderInv, Cm!WithinMax
  <2> QED
    BY <1>0, <2>1, <2>8, <2>9, <2>10, <2>11 DEF CacheInv, AnnouncedInv
<1>10. ASSUME NEW f \in Fills, Cm!BackgroundWrite(f) PROVE CacheInv'
  <2> DEFINE k == fills[f].key
  <2>1. /\ fills[f].stage = "called" /\ Cm!StoreChanges(k, "behind")
        /\ fills' = [Cm!Outdated(k) EXCEPT ![f] = Cm!IdleFill]
        /\ UNCHANGED <<order, size, announced>>
    BY <1>10 DEF Cm!BackgroundWrite
  <2>2. k \in CacheKeys
    BY <1>0, <2>1 DEF FillsInv
  <2>3. Cm!IdleFill.stage = "idle" /\ ~Cm!IdleFill.old
        /\ Cm!IdleFill \in [stage : {"idle", "called", "answered"},
                            key : CacheKeys \cup {Cm!IdleFill.key},
                            does : {"read", "write", "behind"}, old : BOOLEAN]
    BY DEF Cm!IdleFill
  <2>4. /\ fills' \in [Fills -> [stage : {"idle", "called", "answered"},
                                 key : CacheKeys \cup {Cm!IdleFill.key},
                                 does : {"read", "write", "behind"}, old : BOOLEAN]]
        /\ fills'[f] = Cm!IdleFill
        /\ \A g \in Fills \ {f} : fills'[g] = Cm!Outdated(k)[g]
    BY <1>0, <2>1, <2>3, OutdatedKeeps
  <2>5. \A g \in Fills \ {f} : fills'[g].stage = fills[g].stage /\ fills'[g].key = fills[g].key
                               /\ (fills[g].stage # "answered" \/ fills[g].key # k => fills'[g] = fills[g])
    BY <1>0, <2>4, OutdatedKeeps
  <2>6. FillsInv'
    BY <1>0, <2>3, <2>4, <2>5 DEF FillsInv
  <2>7. /\ EntriesInv' /\ entries'[k].why \in {"none", "behind"}
        /\ \A l \in CacheKeys \ {k} : entries'[l] = entries[l]
    BY <1>0, <2>1, <2>2, StoreChangesKeeps
  <2> HIDE DEF k
  <2>8. ASSUME NEW l \in CacheKeys PROVE Explained(l)'
    <3>1. CASE l = k
      BY <2>7, <3>1 DEF Explained
    <3>2. CASE l # k
      <4>1. Explained(l)
        BY <1>0 DEF AnnouncedInv
      <4>2. \A g \in Fills : fills[g].stage = "answered" /\ fills[g].key = l => fills'[g] = fills[g]
        BY <2>1, <2>5, <3>2
      <4> QED
        BY <2>1, <2>7, <3>2, <4>1, <4>2, ExplainedStill
    <3> QED
      BY <3>1, <3>2
  <2>9. OrderInv'
    BY <1>0, <2>1 DEF OrderInv, Cm!WithinMax
  <2> QED
    BY <1>0, <2>1, <2>6, <2>7, <2>8, <2>9 DEF CacheInv, AnnouncedInv
<1>11. ASSUME NEW f \in Fills, Cm!FactoryReturns(f) PROVE CacheInv'
  <2> DEFINE k == fills[f].key
             why == IF fills[f].old THEN "late" ELSE "current"
  <2>1. /\ fills[f].stage = "answered" /\ Cm!Set(k, why)
        /\ fills' = [fills EXCEPT ![f] = Cm!IdleFill] /\ announced' = announced
    BY <1>11 DEF Cm!FactoryReturns
  <2>2. k \in CacheKeys /\ why \in {"current", "late"}
    BY <1>0, <2>1 DEF FillsInv
  <2> HIDE DEF why
  <2>3. /\ OrderInv' /\ EntriesInv' /\ entries'[k].why \in {"current", "late", "none"}
        /\ \A l \in CacheKeys \ {k} : entries'[l] \in {entries[l], Cm!NoEntry}
    BY <1>0, <2>1, <2>2, SetKeeps
  <2>4. FillsInv' /\ \A g \in Fills \ {f} : fills'[g] = fills[g]
    BY <1>0, <2>1, IdleKeeps
  <2>5. ASSUME NEW l \in CacheKeys PROVE Explained(l)'
    <3>1. CASE l = k
      BY <2>3, <3>1 DEF Explained
    <3>2. CASE l # k
      <4>1. Explained(l) /\ entries'[l].why \in {entries[l].why, "none"}
        BY <1>0, <1>01, <2>3, <3>2 DEF AnnouncedInv
      <4>2. \A g \in Fills : fills[g].stage = "answered" /\ fills[g].key = l => fills'[g] = fills[g]
        BY <2>4, <3>2
      <4> QED
        BY <2>1, <4>1, <4>2, ExplainedStill
    <3> QED
      BY <3>1, <3>2
  <2> QED
    BY <1>0, <2>1, <2>3, <2>4, <2>5 DEF CacheInv, AnnouncedInv
<1>12. CASE Cm!Clear
  <2>1. /\ Cm!Removed(CacheKeys) /\ size' = 0 /\ UNCHANGED <<fills, announced>>
    BY <1>12 DEF Cm!Clear
  <2>2. OrderInv' /\ EntriesInv'
    <3>1. /\ order' \in Seq(CacheKeys) /\ IsInjective(order') /\ EntriesInv'
          /\ \A k \in CacheKeys : entries'[k] = Cm!NoEntry
      BY <1>0, <2>1, RemovedKeeps
    <3>2. order' = <<>>
      <4>1. order' = Kept(order, CacheKeys \ CacheKeys)
        BY <2>1, CacheKept DEF Cm!Removed
      <4>2. Range(order') = {}
        BY <1>0, <4>1, KeepLine DEF OrderInv
      <4>3. Len(order') = Cardinality({})
        BY <3>1, <4>2, LineCardinality
      <4> QED
        BY <3>1, <4>3, FS_EmptySet, EmptySeq
    <3>3. Len(order') = 0
      BY <3>2
    <3> QED
      BY <2>1, <3>1, <3>3, CacheConstants DEF OrderInv, Cm!WithinMax
  <2>3. AnnouncedInv'
    BY <1>03, <1>05, <2>1
  <2>4. FillsInv'
    BY <1>0, <2>1 DEF FillsInv
  <2> QED
    BY <2>2, <2>3, <2>4 DEF CacheInv
<1>13. CASE Cm!Cleanup
  <2>1. PICK ks : Cm!Removed(ks) /\ size' = Len(order') /\ UNCHANGED <<fills, announced>>
    BY <1>13 DEF Cm!Cleanup
  <2>2. OrderInv' /\ EntriesInv' /\ AnnouncedInv'
    BY <1>03, <1>05, <1>06, <2>1
  <2>3. FillsInv'
    BY <1>0, <2>1 DEF FillsInv
  <2> QED
    BY <2>2, <2>3 DEF CacheInv
<1>14. CASE Cm!Tick
  <2> DEFINE older(e) == [e EXCEPT !.left = IF @ = 0 THEN 0 ELSE @ - 1,
                                   !.idle = IF @ = Ttl THEN @ ELSE @ + 1]
  <2>1. /\ entries' = [k \in CacheKeys |-> IF k \in Range(order) THEN older(entries[k]) ELSE Cm!NoEntry]
        /\ UNCHANGED <<order, size, fills, announced>>
    BY <1>0, <1>14 DEF Cm!Tick
  <2>2. ASSUME NEW e \in CacheEntry PROVE older(e) \in CacheEntry /\ older(e).why = e.why
    <3>1. e.left \in 0 .. Ttl + 1 /\ e.idle \in 0 .. Ttl
      BY DEF CacheEntry
    <3> DEFINE left == IF e.left = 0 THEN 0 ELSE e.left - 1
               idle == IF e.idle = Ttl THEN e.idle ELSE e.idle + 1
    <3>2. left \in 0 .. Ttl + 1 /\ idle \in 0 .. Ttl
      BY <3>1, CacheConstants
    <3>3. older(e) = [e EXCEPT !.left = left, !.idle = idle]
      OBVIOUS
    <3> HIDE DEF left, idle, older
    <3> QED
      BY <3>2, <3>3 DEF CacheEntry
  <2> HIDE DEF older
  <2>3. EntriesInv' /\ \A k \in CacheKeys : entries'[k].why \in {entries[k].why, "none"}
    BY <1>0, <1>01, <2>1, <2>2 DEF EntriesInv
  <2>4. OrderInv' /\ FillsInv'
    BY <1>0, <2>1 DEF OrderInv, FillsInv, Cm!WithinMax
  <2>5. AnnouncedInv'
    BY <1>05, <2>1, <2>3
  <2> QED
    BY <2>3, <2>4, <2>5 DEF CacheInv
<1>15. CASE Cm!StopChanges \/ UNCHANGED Cm!cacheVars
  <2>1. UNCHANGED <<order, entries, size, fills, announced>>
    BY <1>15 DEF Cm!StopChanges, Cm!cacheVars
  <2>2. FillsInv' /\ AnnouncedInv'
    BY <1>0, <1>05, <2>1 DEF FillsInv
  <2> QED
    BY <1>07, <2>1, <2>2 DEF CacheInv
<1> QED
  BY <1>1, <1>2, <1>3, <1>4, <1>5, <1>6, <1>7, <1>8, <1>9, <1>10, <1>11, <1>12, <1>13, <1>14, <1>15
     DEF Cm!Next

-----------------------------------------------------------------------------
(* The health checks of packages/http. *)

\* The instance keeps lines as the library does.
LEMMA HealthLibrary ==
  \A q : Hc!IsInjective(q) = IsInjective(q) /\ Hc!ToSet(q) = Range(q)
<1>1. \A q : Hc!IsInjective(q) = IsInjective(q)
  BY DEF Hc!IsInjective, IsInjective
<1>2. \A q : Hc!ToSet(q) = Range(q)
  BY DEF Hc!ToSet, Range
<1> QED
  BY <1>1, <1>2

LEMMA HealthConstants ==
  Threshold \in Nat \ {0} /\ Assignments \subseteq [Names -> Hc!Kinds]
BY HealthAssumption DEF Hc!OptionsOK

\* Whatever an indicator finds, it says one of three things.
LEMMA SomeAnswer ==
  ASSUME indicator \in Assignments, NEW n \in Names, NEW f
  PROVE  Hc!Answer(n, f) \in {"pass", "warn", "fail"}
<1>1. indicator[n] \in {"memory", "heap", "disk", "ping", "http"}
  BY HealthConstants DEF Hc!Kinds
<1>2. \A p : Hc!MemoryStatus(p) \in {"pass", "warn", "fail"}
  BY DEF Hc!MemoryStatus
<1>3. \A p : Hc!HeapStatus(p) \in {"pass", "warn", "fail"}
  BY DEF Hc!HeapStatus
<1>4. \A p : Hc!DiskStatus(p) \in {"pass", "warn", "fail"}
  BY <1>2 DEF Hc!DiskStatus
<1>5. \A p : Hc!PingStatus(p) \in {"pass", "warn", "fail"} /\ Hc!HttpStatus(p) \in {"pass", "warn", "fail"}
  BY DEF Hc!PingStatus, Hc!HttpStatus
<1> QED
  BY <1>1, <1>2, <1>3, <1>4, <1>5 DEF Hc!Answer

HealthRun == [busy : BOOLEAN, asked : Seq(Names), passed : Nat, warned : Nat, failed : Nat]

HealthTypes ==
  /\ healthChecks \in Seq(Names) /\ IsInjective(healthChecks)
  /\ indicator \in Assignments
  /\ DOMAIN found = Names /\ found = [n \in Names |-> found[n]]
  /\ \A n \in Names : found[n] \in Hc!Findings(indicator[n])
  /\ lastResult \in {Hc!None, "healthy", "degraded", "unhealthy"}
  /\ runs \in [Runs -> HealthRun]
  /\ \A r \in Runs : runs[r].passed + runs[r].warned + runs[r].failed = Len(runs[r].asked)
  /\ wasUp \in [Runs -> SUBSET Names] /\ wasDown \in [Runs -> SUBSET Names]

\* The history knows how each registered check is, and a run has counted a failure only
\* of one that was down.
Known(r) ==
  \A n \in Range(healthChecks) :
    IF Hc!Answer(n, found) = "fail" THEN n \in wasDown[r] ELSE n \in wasUp[r]

Counted(r) ==
  /\ runs[r].failed > 0 => wasDown[r] # {}
  /\ runs[r].failed = 0 => Range(runs[r].asked) \subseteq wasUp[r]

HealthInv == HealthTypes /\ \A r \in Runs : runs[r].busy => Known(r) /\ Counted(r)

LEMMA FirstFinding ==
  \A kind \in Hc!Kinds : Hc!AtFirst(kind) \in Hc!Findings(kind)
BY DEF Hc!Kinds, Hc!AtFirst, Hc!Findings

LEMMA HealthInit == Hc!Init => HealthInv
<1> SUFFICES ASSUME Hc!Init PROVE HealthInv
  OBVIOUS
<1>1. indicator \in [Names -> Hc!Kinds] /\ found = [n \in Names |-> Hc!AtFirst(indicator[n])]
  BY HealthConstants DEF Hc!Init
<1>2. \A n \in Names : found[n] \in Hc!Findings(indicator[n])
  BY <1>1, FirstFinding
<1>3. healthChecks = <<>> /\ IsInjective(healthChecks)
  BY DEF Hc!Init, IsInjective
<1>4. runs = [r \in Runs |-> Hc!NoRun] /\ Hc!NoRun \in HealthRun /\ ~Hc!NoRun.busy
      /\ Hc!NoRun.passed + Hc!NoRun.warned + Hc!NoRun.failed = Len(Hc!NoRun.asked)
  BY DEF Hc!Init, Hc!NoRun, HealthRun
<1>5. HealthTypes
  BY <1>1, <1>2, <1>3, <1>4 DEF Hc!Init, HealthTypes
<1> QED
  BY <1>4, <1>5 DEF HealthInv

LEMMA HealthHolds == HealthInv => Hc!TypeOK
<1> SUFFICES ASSUME HealthInv PROVE Hc!TypeOK
  OBVIOUS
<1>1. Hc!ToSet(healthChecks) \subseteq Names /\ Hc!IsInjective(healthChecks)
  BY LineCardinality, HealthLibrary DEF HealthInv, HealthTypes
<1> QED
  BY <1>1 DEF HealthInv, HealthTypes, Hc!TypeOK

\* What is known stays known when fewer checks are registered.
LEMMA FewerKnown ==
  ASSUME HealthInv, Range(healthChecks') \subseteq Range(healthChecks),
         UNCHANGED <<indicator, found, runs, wasUp, wasDown>>
  PROVE  \A r \in Runs : runs'[r].busy => Known(r)' /\ Counted(r)'
BY DEF HealthInv, Known, Counted, Hc!Answer

\* One check is observed, which may be new, or has changed.
LEMMA ObservedKnown ==
  ASSUME HealthInv, NEW n \in Names, indicator' = indicator, runs' = runs,
         Range(healthChecks') \subseteq Range(healthChecks) \cup {n},
         Hc!Observe({n}, found'),
         \A m \in Names \ {n} : found'[m] = found[m]
  PROVE  /\ \A r \in Runs : runs'[r].busy => Known(r)' /\ Counted(r)'
         /\ wasUp' \in [Runs -> SUBSET Names] /\ wasDown' \in [Runs -> SUBSET Names]
<1>0. HealthTypes /\ Range(healthChecks) \subseteq Names
  BY LineCardinality DEF HealthInv, HealthTypes
<1>1. /\ wasUp' = [r \in Runs |-> wasUp[r] \cup ({n} \ Hc!Down({n}, found'))]
      /\ wasDown' = [r \in Runs |-> wasDown[r] \cup Hc!Down({n}, found')]
  BY DEF Hc!Observe
<1>2. Hc!Down({n}, found') = IF Hc!Answer(n, found') = "fail" THEN {n} ELSE {}
  BY DEF Hc!Down
<1>3. \A m \in Names : Hc!Answer(m, found)' = Hc!Answer(m, found')
  BY DEF Hc!Answer
<1>4. \A m \in Names \ {n} : Hc!Answer(m, found') = Hc!Answer(m, found)
  BY DEF Hc!Answer
<1>5. ASSUME NEW r \in Runs, runs'[r].busy PROVE Known(r)' /\ Counted(r)'
  <2>1. Known(r) /\ Counted(r)
    BY <1>5 DEF HealthInv
  <2>2. /\ wasUp'[r] = wasUp[r] \cup ({n} \ Hc!Down({n}, found'))
        /\ wasDown'[r] = wasDown[r] \cup Hc!Down({n}, found')
    BY <1>1
  <2>3. Counted(r)'
    BY <2>1, <2>2 DEF Counted
  <2>4. ASSUME NEW m \in Range(healthChecks')
        PROVE  IF Hc!Answer(m, found)' = "fail" THEN m \in wasDown'[r] ELSE m \in wasUp'[r]
    <3>1. m \in Names
      BY <1>0
    <3>2. CASE m = n
      BY <1>2, <1>3, <2>2, <3>1, <3>2
    <3>3. CASE m # n
      <4>1. m \in Range(healthChecks) /\ Hc!Answer(m, found)' = Hc!Answer(m, found)
        BY <1>3, <1>4, <3>1, <3>3
      <4> QED
        BY <2>1, <2>2, <4>1 DEF Known
    <3> QED
      BY <3>2, <3>3
  <2> QED
    BY <2>3, <2>4 DEF Known
<1>6. wasUp' \in [Runs -> SUBSET Names] /\ wasDown' \in [Runs -> SUBSET Names]
  <2>1. wasUp \in [Runs -> SUBSET Names] /\ wasDown \in [Runs -> SUBSET Names]
    BY <1>0 DEF HealthTypes
  <2>2. ({n} \ Hc!Down({n}, found')) \subseteq Names /\ Hc!Down({n}, found') \subseteq Names
    BY <1>2
  <2> QED
    BY <1>1, <2>1, <2>2
<1> QED
  BY <1>5, <1>6

\* The result that a run publishes.
LEMMA SomeStatus ==
  ASSUME NEW run \in HealthRun
  PROVE  /\ Hc!Status(run) \in {"healthy", "degraded", "unhealthy"}
         /\ (Hc!Status(run) = "unhealthy") = (run.failed > 0)
         /\ Hc!Status(run) = "degraded" => run.failed = 0 /\ run.warned > 0
<1> DEFINE Total == run.passed + run.warned + run.failed
           Patient == run.warned * 100 >= Threshold * Total
<1>1. run.passed \in Nat /\ run.warned \in Nat /\ run.failed \in Nat
  BY DEF HealthRun
<1>2. Total \in Nat
  BY <1>1
<1>3. Total > 0 /\ Patient => run.warned > 0
  <2>1. Threshold \in Nat /\ Threshold > 0
    BY HealthConstants
  <2> HIDE DEF Total
  <2>2. Total > 0 => Threshold * Total > 0
    BY <1>2, <2>1
  <2>3. run.warned = 0 => run.warned * 100 = 0
    OBVIOUS
  <2>4. run.warned = 0 => ~(Total > 0 /\ Patient)
    <3>1. Threshold * Total \in Nat
      BY <1>2, <2>1
    <3> QED
      BY <2>2, <2>3, <3>1
  <2> QED
    BY <1>1, <2>4
<1>4. Hc!Status(run) = CASE run.failed > 0 -> "unhealthy"
                         [] run.failed = 0 /\ Total > 0 /\ Patient -> "degraded"
                         [] OTHER -> "healthy"
  BY DEF Hc!Status
<1> HIDE DEF Total, Patient
<1> QED
  BY <1>1, <1>3, <1>4

\* A run counts the answer of a check that is registered.
LEMMA AnswerKeeps ==
  ASSUME HealthInv, NEW r \in Runs, Hc!CheckAnswers(r)
  PROVE  HealthInv'
<1>0. HealthTypes /\ runs[r].busy /\ Known(r) /\ Counted(r)
  BY DEF HealthInv, Hc!CheckAnswers
<1>1. PICK n \in Names :
        /\ Hc!ComesTo(r, n)
        /\ runs' = [runs EXCEPT ![r] = [Hc!CountedAs(Hc!Answer(n, found), r) EXCEPT !.asked = Append(@, n)]]
  BY DEF Hc!CheckAnswers
<1> DEFINE run == runs[r]
           answer == Hc!Answer(n, found)
           new == [Hc!CountedAs(answer, r) EXCEPT !.asked = Append(@, n)]
<1>2. /\ run \in HealthRun /\ run.busy /\ run.asked \in Seq(Names)
      /\ run.passed \in Nat /\ run.warned \in Nat /\ run.failed \in Nat
      /\ run.passed + run.warned + run.failed = Len(run.asked)
  <2>1. run \in HealthRun /\ run.passed + run.warned + run.failed = Len(run.asked)
    BY <1>0 DEF HealthTypes
  <2> HIDE DEF run
  <2>2. run \in HealthRun => run.asked \in Seq(Names) /\ run.passed \in Nat /\ run.warned \in Nat /\ run.failed \in Nat
    BY DEF HealthRun
  <2>3. run.busy
    BY <1>0 DEF run
  <2> QED
    BY <2>1, <2>2, <2>3
<1>3. answer \in {"pass", "warn", "fail"} /\ n \in Range(healthChecks)
  <2>1. n \in Range(healthChecks)
    BY <1>1 DEF Hc!ComesTo, Range
  <2>2. indicator \in Assignments
    BY <1>0 DEF HealthTypes
  <2> QED
    BY <2>1, <2>2, SomeAnswer
<1>4. Append(run.asked, n) \in Seq(Names) /\ Len(Append(run.asked, n)) = Len(run.asked) + 1
      /\ Range(Append(run.asked, n)) = Range(run.asked) \cup {n}
  BY <1>2, RangeAppend
<1>5. /\ new \in HealthRun /\ new.asked = Append(run.asked, n)
      /\ new.passed = (IF answer = "pass" THEN run.passed + 1 ELSE run.passed)
      /\ new.warned = (IF answer = "warn" THEN run.warned + 1 ELSE run.warned)
      /\ new.failed = (IF answer = "fail" THEN run.failed + 1 ELSE run.failed)
  <2> DEFINE counted == [run EXCEPT !.passed = IF answer = "pass" THEN @ + 1 ELSE @,
                                    !.warned = IF answer = "warn" THEN @ + 1 ELSE @,
                                    !.failed = IF answer = "fail" THEN @ + 1 ELSE @]
  <2>1. new = [counted EXCEPT !.asked = Append(run.asked, n)]
    <3>1. Hc!CountedAs(answer, r) = counted
      BY DEF Hc!CountedAs
    <3>2. counted.asked = run.asked
      BY <1>2 DEF HealthRun
    <3> HIDE DEF counted, run, answer
    <3> QED
      BY <3>1, <3>2
  <2>2. /\ counted \in HealthRun
        /\ counted.passed = (IF answer = "pass" THEN run.passed + 1 ELSE run.passed)
        /\ counted.warned = (IF answer = "warn" THEN run.warned + 1 ELSE run.warned)
        /\ counted.failed = (IF answer = "fail" THEN run.failed + 1 ELSE run.failed)
    <3> DEFINE passed == IF answer = "pass" THEN run.passed + 1 ELSE run.passed
               warned == IF answer = "warn" THEN run.warned + 1 ELSE run.warned
               failures == IF answer = "fail" THEN run.failed + 1 ELSE run.failed
    <3>1. passed \in Nat /\ warned \in Nat /\ failures \in Nat
      BY <1>2
    <3>2. counted = [run EXCEPT !.passed = passed, !.warned = warned, !.failed = failures]
      OBVIOUS
    <3>3. run \in HealthRun
      BY <1>2
    <3> HIDE DEF passed, warned, failures, counted, run
    <3>4. counted \in HealthRun /\ counted.passed = passed /\ counted.warned = warned /\ counted.failed = failures
      BY <3>1, <3>2, <3>3 DEF HealthRun
    <3> QED
      BY <3>4 DEF passed, warned, failures
  <2> HIDE DEF new, run, answer, counted
  <2> QED
    BY <1>4, <2>1, <2>2 DEF HealthRun
<1>6. new.passed + new.warned + new.failed = Len(new.asked)
  <2> HIDE DEF new, run, answer
  <2>1. \/ new.passed = run.passed + 1 /\ new.warned = run.warned /\ new.failed = run.failed
        \/ new.passed = run.passed /\ new.warned = run.warned + 1 /\ new.failed = run.failed
        \/ new.passed = run.passed /\ new.warned = run.warned /\ new.failed = run.failed + 1
    <3>1. CASE answer = "pass"
      BY <1>5, <3>1
    <3>2. CASE answer = "warn"
      BY <1>5, <3>2
    <3>3. CASE answer = "fail"
      BY <1>5, <3>3
    <3> QED
      BY <1>3, <3>1, <3>2, <3>3
  <2>2. new.passed + new.warned + new.failed = run.passed + run.warned + run.failed + 1
    <3>1. run.passed \in Nat /\ run.warned \in Nat /\ run.failed \in Nat
      BY <1>2
    <3>2. \A p, w, f, a, b, c \in Nat :
            \/ a = p + 1 /\ b = w /\ c = f
            \/ a = p /\ b = w + 1 /\ c = f
            \/ a = p /\ b = w /\ c = f + 1
            => a + b + c = p + w + f + 1
      OBVIOUS
    <3>3. new.passed \in Nat /\ new.warned \in Nat /\ new.failed \in Nat
      BY <1>5 DEF HealthRun
    <3> QED
      BY <2>1, <3>1, <3>2, <3>3
  <2>3. Len(new.asked) = Len(run.asked) + 1
    BY <1>4, <1>5
  <2> QED
    BY <1>2, <2>2, <2>3
<1>7. new.failed > 0 => wasDown[r] # {}
  BY <1>0, <1>2, <1>3, <1>5 DEF Known, Counted
<1>8. new.failed = 0 => Range(new.asked) \subseteq wasUp[r]
  <2>1. ASSUME new.failed = 0 PROVE run.failed = 0 /\ answer # "fail"
    <3> HIDE DEF new, run, answer
    <3> QED
      BY <1>2, <1>5, <2>1
  <2>2. ASSUME answer # "fail" PROVE n \in wasUp[r]
    BY <1>0, <1>3, <2>2 DEF Known
  <2>3. Range(new.asked) = Range(run.asked) \cup {n}
    BY <1>4, <1>5
  <2> HIDE DEF new, answer
  <2> QED
    BY <1>0, <2>1, <2>2, <2>3 DEF Counted
<1> HIDE DEF new, answer
<1>9. runs' = [runs EXCEPT ![r] = new]
  BY <1>1 DEF new, answer
<1>10. /\ runs' \in [Runs -> HealthRun] /\ runs'[r] = new
       /\ \A s \in Runs \ {r} : runs'[s] = runs[s]
  BY <1>0, <1>5, <1>9 DEF HealthTypes
<1>11. HealthTypes'
  BY <1>0, <1>6, <1>10 DEF HealthTypes, Hc!CheckAnswers
<1>12. ASSUME NEW s \in Runs, runs'[s].busy PROVE Known(s)' /\ Counted(s)'
  <2>1. Known(s)
    BY <1>0, <1>10, <1>12 DEF HealthInv
  <2>2. Known(s)'
    BY <2>1 DEF Known, Hc!Answer, Hc!CheckAnswers
  <2>3. Counted(s)'
    <3>1. CASE s = r
      BY <1>7, <1>8, <1>10, <3>1 DEF Counted, Hc!CheckAnswers
    <3>2. CASE s # r
      BY <1>10, <1>12, <3>2 DEF HealthInv, Counted, Hc!CheckAnswers
    <3> QED
      BY <3>1, <3>2
  <2> QED
    BY <2>2, <2>3
<1> QED
  BY <1>11, <1>12 DEF HealthInv

\* A run that begins knows how each check is.
LEMMA CheckKeeps ==
  ASSUME HealthInv, NEW r \in Runs, Hc!Check(r)
  PROVE  HealthInv'
<1> DEFINE names == Hc!ToSet(healthChecks)
           new == [Hc!NoRun EXCEPT !.busy = TRUE]
<1>0. HealthTypes /\ names = Range(healthChecks) /\ Range(healthChecks) \subseteq Names
  <2>1. HealthTypes /\ healthChecks \in Seq(Names)
    BY DEF HealthInv, HealthTypes
  <2>2. Range(healthChecks) \subseteq Names
    BY <2>1, LineCardinality DEF HealthTypes
  <2>3. names = Range(healthChecks)
    BY HealthLibrary
  <2> QED
    BY <2>1, <2>2, <2>3
<1>1. /\ new \in HealthRun /\ new.busy /\ new.asked = <<>> /\ new.failed = 0
      /\ new.passed + new.warned + new.failed = Len(new.asked)
  <2>1. /\ new.busy /\ new.asked = <<>> /\ new.passed = 0 /\ new.warned = 0 /\ new.failed = 0
    BY DEF Hc!NoRun
  <2>2. Hc!NoRun \in HealthRun
    BY DEF Hc!NoRun, HealthRun
  <2>3. new \in HealthRun
    BY <2>2 DEF HealthRun
  <2> HIDE DEF new
  <2>4. Len(new.asked) = 0
    BY <2>1
  <2> QED
    BY <2>1, <2>3, <2>4
<1>2. Hc!Down(names, found) = {n \in names : Hc!Answer(n, found) = "fail"}
  BY DEF Hc!Down
<1>3. /\ runs' = [runs EXCEPT ![r] = new]
      /\ wasUp' = [wasUp EXCEPT ![r] = names \ Hc!Down(names, found)]
      /\ wasDown' = [wasDown EXCEPT ![r] = Hc!Down(names, found)]
      /\ UNCHANGED <<healthChecks, indicator, found, lastResult>>
  BY DEF Hc!Check
<1> HIDE DEF names, new
<1>4. HealthTypes'
  <2>1. \A s \in Runs : runs'[s] = (IF s = r THEN new ELSE runs[s])
    BY <1>0, <1>3 DEF HealthTypes
  <2>2. /\ runs' \in [Runs -> HealthRun]
        /\ \A s \in Runs : runs'[s].passed + runs'[s].warned + runs'[s].failed = Len(runs'[s].asked)
    BY <1>0, <1>1, <1>3, <2>1 DEF HealthTypes
  <2>3. wasUp' \in [Runs -> SUBSET Names] /\ wasDown' \in [Runs -> SUBSET Names]
    BY <1>0, <1>2, <1>3 DEF HealthTypes
  <2> QED
    BY <1>0, <1>3, <2>2, <2>3 DEF HealthTypes
<1>5. ASSUME NEW s \in Runs, runs'[s].busy PROVE Known(s)' /\ Counted(s)'
  <2>1. CASE s = r
    <3>1. runs'[s] = new /\ wasUp'[s] = names \ Hc!Down(names, found) /\ wasDown'[s] = Hc!Down(names, found)
      BY <1>0, <1>3, <2>1 DEF HealthTypes
    <3>2. Known(s)'
      BY <1>0, <1>2, <1>3, <3>1 DEF Known, Hc!Answer
    <3>3. Range(new.asked) = {}
      BY <1>1 DEF Range
    <3>4. Counted(s)'
      BY <1>1, <3>1, <3>3 DEF Counted
    <3> QED
      BY <3>2, <3>4
  <2>2. CASE s # r
    <3>1. runs'[s] = runs[s] /\ wasUp'[s] = wasUp[s] /\ wasDown'[s] = wasDown[s]
      BY <1>0, <1>3, <2>2 DEF HealthTypes
    <3>2. Known(s) /\ Counted(s)
      BY <1>5, <3>1 DEF HealthInv
    <3> QED
      BY <1>3, <3>1, <3>2 DEF Known, Counted, Hc!Answer
  <2> QED
    BY <2>1, <2>2
<1> QED
  BY <1>4, <1>5 DEF HealthInv

LEMMA EndKeeps ==
  ASSUME HealthInv, NEW r \in Runs, Hc!CheckEnds(r)
  PROVE  HealthInv'
<1> DEFINE new == [runs[r] EXCEPT !.busy = FALSE]
<1>0. HealthTypes /\ runs[r] \in HealthRun
  BY DEF HealthInv, HealthTypes
<1>1. /\ new \in HealthRun /\ ~new.busy /\ new.passed = runs[r].passed /\ new.warned = runs[r].warned
      /\ new.failed = runs[r].failed /\ new.asked = runs[r].asked
  BY <1>0 DEF HealthRun
<1>2. runs' = [runs EXCEPT ![r] = new]
  BY DEF Hc!CheckEnds
<1> HIDE DEF new
<1>3. lastResult' \in {"healthy", "degraded", "unhealthy"}
  BY <1>0, SomeStatus DEF Hc!CheckEnds
<1>4. /\ runs' \in [Runs -> HealthRun] /\ runs'[r] = new
      /\ \A s \in Runs \ {r} : runs'[s] = runs[s]
  BY <1>0, <1>1, <1>2 DEF HealthTypes
<1>5. HealthTypes'
  BY <1>0, <1>1, <1>3, <1>4 DEF HealthTypes, Hc!CheckEnds
<1>6. ASSUME NEW s \in Runs, runs'[s].busy PROVE Known(s)' /\ Counted(s)'
  <2>1. s # r
    BY <1>1, <1>4, <1>6
  <2>2. Known(s) /\ Counted(s) /\ runs'[s] = runs[s]
    BY <1>4, <1>6, <2>1 DEF HealthInv
  <2> QED
    BY <2>2 DEF Known, Counted, Hc!Answer, Hc!CheckEnds
<1> QED
  BY <1>5, <1>6 DEF HealthInv

LEMMA HealthNext == HealthInv /\ [Hc!Next]_(Hc!healthVars) => HealthInv'
<1> SUFFICES ASSUME HealthInv, [Hc!Next]_(Hc!healthVars) PROVE HealthInv'
  OBVIOUS
<1>0. HealthTypes
  BY DEF HealthInv
<1>1. ASSUME NEW n \in Names, Hc!Register(n) PROVE HealthInv'
  <2>1. n \notin Range(healthChecks) /\ healthChecks' = Append(healthChecks, n)
    BY <1>1, HealthLibrary DEF Hc!Register
  <2>2. /\ healthChecks' \in Seq(Names) /\ IsInjective(healthChecks')
        /\ Range(healthChecks') = Range(healthChecks) \cup {n}
    BY <1>0, <2>1, InjectiveAppend, RangeAppend DEF HealthTypes
  <2>3. Hc!Observe({n}, found') /\ UNCHANGED <<indicator, found, runs, lastResult>>
    BY <1>1 DEF Hc!Register
  <2>4. /\ \A r \in Runs : runs'[r].busy => Known(r)' /\ Counted(r)'
        /\ wasUp' \in [Runs -> SUBSET Names] /\ wasDown' \in [Runs -> SUBSET Names]
    BY <2>2, <2>3, ObservedKnown
  <2> QED
    BY <1>0, <2>2, <2>3, <2>4 DEF HealthInv, HealthTypes
<1>2. ASSUME NEW n \in Names, Hc!Unregister(n) PROVE HealthInv'
  <2>1. PICK k \in 1 .. Len(healthChecks) :
          healthChecks' = SubSeq(healthChecks, 1, k - 1) \o SubSeq(healthChecks, k + 1, Len(healthChecks))
    BY <1>0, <1>2, LenProperties DEF HealthTypes, Hc!Unregister, Hc!RemoveAt
  <2>2. /\ healthChecks' \in Seq(Names) /\ IsInjective(healthChecks')
        /\ Range(healthChecks') \subseteq Range(healthChecks)
    <3>1. healthChecks \in Seq(Names) /\ IsInjective(healthChecks)
      BY <1>0 DEF HealthTypes
    <3>2. \A list : list = SubSeq(healthChecks, 1, k - 1) \o SubSeq(healthChecks, k + 1, Len(healthChecks))
             => list \in Seq(Names) /\ IsInjective(list) /\ Range(list) = Range(healthChecks) \ {healthChecks[k]}
      BY <3>1, RemoveFromLine
    <3> QED
      BY <2>1, <3>2
  <2>3. UNCHANGED <<indicator, found, runs, lastResult, wasUp, wasDown>>
    BY <1>2 DEF Hc!Unregister
  <2> QED
    BY <1>0, <2>2, <2>3, FewerKnown DEF HealthInv, HealthTypes
<1>3. CASE Hc!Clear
  <2>1. /\ healthChecks' = <<>> /\ lastResult' = Hc!None
        /\ UNCHANGED <<indicator, found, runs, wasUp, wasDown>>
    BY <1>3 DEF Hc!Clear
  <2>2. IsInjective(healthChecks') /\ Range(healthChecks') = {}
    BY <2>1 DEF IsInjective, Range
  <2> QED
    BY <1>0, <2>1, <2>2, FewerKnown DEF HealthInv, HealthTypes
<1>4. ASSUME NEW n \in Names, NEW f \in Hc!Findings(indicator[n]), Hc!HealthChanges(n, f)
      PROVE  HealthInv'
  <2>1. /\ found' = [found EXCEPT ![n] = f] /\ Hc!Observe({n}, found')
        /\ UNCHANGED <<healthChecks, indicator, runs, lastResult>>
    BY <1>4 DEF Hc!HealthChanges
  <2>2. /\ DOMAIN found' = Names /\ found' = [m \in Names |-> found'[m]]
        /\ found'[n] = f /\ \A m \in Names \ {n} : found'[m] = found[m]
    BY <1>0, <2>1 DEF HealthTypes
  <2>3. \A m \in Names : found'[m] \in Hc!Findings(indicator[m])
    BY <1>0, <2>2 DEF HealthTypes
  <2>4. /\ \A r \in Runs : runs'[r].busy => Known(r)' /\ Counted(r)'
        /\ wasUp' \in [Runs -> SUBSET Names] /\ wasDown' \in [Runs -> SUBSET Names]
    BY <2>1, <2>2, ObservedKnown
  <2> QED
    BY <1>0, <2>1, <2>2, <2>3, <2>4 DEF HealthInv, HealthTypes, Hc!Findings
<1>5. CASE Hc!StartPeriodicCheck \/ Hc!StopPeriodicCheck \/ UNCHANGED Hc!healthVars
  <2>1. UNCHANGED <<healthChecks, indicator, found, runs, lastResult, wasUp, wasDown>>
    BY <1>5 DEF Hc!StartPeriodicCheck, Hc!StopPeriodicCheck, Hc!healthVars
  <2> QED
    BY <1>0, <2>1, FewerKnown DEF HealthInv, HealthTypes, Hc!Findings
<1> QED
  BY <1>1, <1>2, <1>3, <1>4, <1>5, CheckKeeps, AnswerKeeps, EndKeeps DEF Hc!Next

\* What the run that ends must satisfy.
HealthRegular ==
  \A r \in Runs :
    (runs[r].busy /\ ~runs'[r].busy) =>
      /\ lastResult' = "unhealthy" => wasDown[r] # {}
      /\ lastResult' # "unhealthy" => Hc!ToSet(healthChecks) \subseteq wasUp[r]
      /\ (lastResult' = "unhealthy") = (Hc!ServiceStatus(runs[r]) = "error")
      /\ (lastResult' = "unhealthy") = (Hc!ProductionStatus(runs[r]) = "unhealthy")
      /\ lastResult' = "degraded" => Hc!ProductionStatus(runs[r]) = "degraded"

\* Only the end of a run ends it.
LEMMA WhoEnds ==
  ASSUME HealthInv, [Hc!Next]_(Hc!healthVars), NEW r \in Runs, runs[r].busy, ~runs'[r].busy
  PROVE  Hc!CheckEnds(r)
<1>0. runs \in [Runs -> HealthRun]
  BY DEF HealthInv, HealthTypes
<1>1. CASE UNCHANGED runs
  BY <1>1
<1>2. ASSUME NEW s \in Runs, Hc!Check(s) PROVE FALSE
  <2>1. runs' = [runs EXCEPT ![s] = [Hc!NoRun EXCEPT !.busy = TRUE]]
    BY <1>2 DEF Hc!Check
  <2> QED
    BY <1>0, <2>1 DEF Hc!NoRun
<1>3. ASSUME NEW s \in Runs, Hc!CheckAnswers(s) PROVE FALSE
  <2>1. PICK n \in Names :
          runs' = [runs EXCEPT ![s] = [Hc!CountedAs(Hc!Answer(n, found), s) EXCEPT !.asked = Append(@, n)]]
    BY <1>3 DEF Hc!CheckAnswers
  <2>2. runs[s] \in HealthRun
    BY <1>0
  <2>3. [Hc!CountedAs(Hc!Answer(n, found), s) EXCEPT !.asked = Append(@, n)].busy = runs[s].busy
    BY <2>2 DEF Hc!CountedAs, HealthRun
  <2> QED
    BY <1>0, <2>1, <2>3
<1>4. ASSUME NEW s \in Runs, Hc!CheckEnds(s) PROVE Hc!CheckEnds(r)
  <2>1. runs' = [runs EXCEPT ![s].busy = FALSE]
    BY <1>4 DEF Hc!CheckEnds
  <2>2. s = r
    BY <1>0, <2>1
  <2> QED
    BY <1>4, <2>2
<1> QED
  BY <1>1, <1>2, <1>3, <1>4
     DEF Hc!Next, Hc!Register, Hc!Unregister, Hc!HealthChanges, Hc!Clear, Hc!StartPeriodicCheck,
         Hc!StopPeriodicCheck, Hc!healthVars

LEMMA HealthSteps == HealthInv /\ [Hc!Next]_(Hc!healthVars) => [HealthRegular]_(Hc!healthVars)
<1> SUFFICES ASSUME HealthInv, [Hc!Next]_(Hc!healthVars),
                    NEW r \in Runs, runs[r].busy, ~runs'[r].busy
             PROVE  /\ lastResult' = "unhealthy" => wasDown[r] # {}
                    /\ lastResult' # "unhealthy" => Hc!ToSet(healthChecks) \subseteq wasUp[r]
                    /\ (lastResult' = "unhealthy") = (Hc!ServiceStatus(runs[r]) = "error")
                    /\ (lastResult' = "unhealthy") = (Hc!ProductionStatus(runs[r]) = "unhealthy")
                    /\ lastResult' = "degraded" => Hc!ProductionStatus(runs[r]) = "degraded"
  BY DEF HealthRegular
<1>1. Hc!CheckEnds(r)
  BY WhoEnds
<1>2. runs[r] \in HealthRun /\ Counted(r)
  BY DEF HealthInv, HealthTypes
<1>3. lastResult' = Hc!Status(runs[r]) /\ Hc!ToSet(healthChecks) \subseteq Range(runs[r].asked)
  BY <1>1, HealthLibrary DEF Hc!CheckEnds, Hc!Asked
<1>4. runs[r].failed \in Nat /\ runs[r].warned \in Nat
  BY <1>2 DEF HealthRun
<1>5. (lastResult' = "unhealthy") = (runs[r].failed > 0)
  BY <1>2, <1>3, SomeStatus
<1>6. lastResult' = "degraded" => runs[r].failed = 0 /\ runs[r].warned > 0
  BY <1>2, <1>3, SomeStatus
<1>7. (Hc!ServiceStatus(runs[r]) = "error") = (runs[r].failed > 0)
  BY <1>4 DEF Hc!ServiceStatus
<1>8. /\ (Hc!ProductionStatus(runs[r]) = "unhealthy") = (runs[r].failed > 0)
      /\ runs[r].failed = 0 /\ runs[r].warned > 0 => Hc!ProductionStatus(runs[r]) = "degraded"
  BY <1>4 DEF Hc!ProductionStatus
<1> QED
  BY <1>2, <1>3, <1>4, <1>5, <1>6, <1>7, <1>8 DEF Counted

-----------------------------------------------------------------------------
(* The composition: a step is one of the class under test or changes       *)
(* nothing of it.                                                          *)

LEMMA DiscoverySteps == [Next]_vars => [Sd!Next]_(Sd!discoveryVars)
BY DEF Next, DiscoveryStep, RegistryStep, WatcherStep, CacheStep, HealthStep, vars, discoveryVars,
       Sd!discoveryVars

LEMMA RegistrySteps == [Next]_vars => [Sd!RegistryNext]_(Sd!registryVars)
BY DEF Next, DiscoveryStep, RegistryStep, WatcherStep, CacheStep, HealthStep, vars, registryVars,
       Sd!registryVars

LEMMA ConfigSteps == [Next]_vars => [Cw!Next]_(Cw!watcherVars)
BY DEF Next, DiscoveryStep, RegistryStep, WatcherStep, CacheStep, HealthStep, vars, watcherVars,
       Cw!watcherVars

LEMMA CacheSteps == [Next]_vars => [Cm!Next]_(Cm!cacheVars)
BY DEF Next, DiscoveryStep, RegistryStep, WatcherStep, CacheStep, HealthStep, vars, cacheVars,
       Cm!cacheVars

LEMMA CheckSteps == [Next]_vars => [Hc!Next]_(Hc!healthVars)
BY DEF Next, DiscoveryStep, RegistryStep, WatcherStep, CacheStep, HealthStep, vars, healthVars,
       Hc!healthVars

ClusterInv == DiscoveryInv /\ RegistryInv /\ ConfigInv /\ CacheInv /\ HealthInv

\* The inductive invariants hold of all five classes, whichever is under test.
THEOREM Invariance == Spec => []ClusterInv
<1>1. Init => ClusterInv
  BY DiscoveryInit, RegistryInit, ConfigInit, CacheInit, HealthInit DEF Init, ClusterInv
<1>2. ClusterInv /\ [Next]_vars => ClusterInv'
  BY DiscoveryNext, RegistryNext, ConfigNext, CacheNext, HealthNext,
     DiscoverySteps, RegistrySteps, ConfigSteps, CacheSteps, CheckSteps DEF ClusterInv
<1> QED
  BY <1>1, <1>2, PTL DEF Spec

\* Every class keeps its types: no watcher and no check is listed twice, the entries of
\* the cache are those of its order, and each health run has counted the checks that it asked.
THEOREM TypesHold == Spec => []TypeOK
<1>1. ClusterInv => TypeOK
  BY DiscoveryHolds, CacheHolds, HealthHolds DEF ClusterInv, RegistryInv, ConfigInv, TypeOK
<1> QED
  BY <1>1, Invariance, PTL

\* The copies agree with what they are copies of: the watchers with the discovery's list,
\* the memory backend with its registry, the heartbeats with the registered instances,
\* and a configuration watcher's events with the configuration it has.
THEOREM CopiesAgreeHold == Spec => []CopiesAgree
<1>1. ClusterInv => CopiesAgree
  BY DiscoveryHolds DEF ClusterInv, RegistryInv, ConfigInv, CopiesAgree
<1> QED
  BY <1>1, Invariance, PTL

\* The cache never has more entries than its maximum, and an entry that is out of date has
\* one of the reasons that the code leaves room for, a delete() or set() still to come, a
\* call that had read before the change, or a write behind it.
THEOREM CacheHoldsTrue == Spec => []CacheIsTruthful
<1>1. ClusterInv => CacheIsTruthful
  BY CacheHolds DEF ClusterInv, CacheIsTruthful
<1> QED
  BY <1>1, Invariance, PTL

\* A refresh and a run of health checks publish what was true while they ran, whatever
\* overlaps them and in whatever order they end.
THEOREM RegularHolds == Spec => PublishedIsRegular
<1>1. ClusterInv /\ [Next]_vars => [DiscoveryRegular]_(Sd!discoveryVars)
  BY RegularSteps, DiscoverySteps DEF ClusterInv
<1>2. ClusterInv /\ [Next]_vars => [HealthRegular]_(Hc!healthVars)
  BY HealthSteps, CheckSteps DEF ClusterInv
<1>3. Spec => [][DiscoveryRegular]_(Sd!discoveryVars)
  BY <1>1, Invariance, PTL DEF Spec
<1>4. Spec => [][HealthRegular]_(Hc!healthVars)
  BY <1>2, Invariance, PTL DEF Spec
<1>5. Spec => Sd!PublishedIsRegular
  BY <1>3 DEF DiscoveryRegular, Sd!PublishedIsRegular
<1>6. Spec => Hc!ResultIsRegular
  BY <1>4 DEF HealthRegular, Hc!ResultIsRegular
<1> QED
  BY <1>5, <1>6 DEF PublishedIsRegular
=============================================================================
