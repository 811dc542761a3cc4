---------------------------- MODULE ConfigWatcher ----------------------------
(***************************************************************************)
(* ConfigWatcher (packages/config/src/watchers.ts): an interval loads the  *)
(* source, compares with the last configuration and emits one 'change' per *)
(* key.  The file and directory sources load at once; any other may take   *)
(* longer than the interval, so that checks overlap.                       *)
(***************************************************************************)
EXTENDS Naturals, FiniteSets

CONSTANTS
  Keys, Values,
  Undefined,  \* what a key without a value has
  Checks      \* checks in flight (a bound)

VARIABLES
  sync,      \* load() returns the configuration itself, and not a promise of it
  source,    \* the configuration at the source
  running, lastConfig,  \* the fields of the watcher
  ticking,   \* the interval is set
  checks,    \* what each check in flight is going to get
  view       \* history: what a listener makes of the events, from the
             \* configuration the watcher started with

watcherVars == <<sync, source, running, ticking, lastConfig, checks, view>>

Configs == [Keys -> Values \cup {Undefined}]
Empty == [k \in Keys |-> Undefined]
NoCheck == [pending |-> FALSE, config |-> Empty]

OptionsOK == Undefined \notin Values

\* One event per key that differs, with its new value.
DetectChanges(old, new) == {[key |-> k, newValue |-> new[k]] : k \in {l \in Keys : old[l] # new[l]}}

Apply(config, events) ==
  [k \in Keys |-> IF \E e \in events : e.key = k
                  THEN (CHOOSE e \in events : e.key = k).newValue ELSE config[k]]

Init ==
  /\ sync \in BOOLEAN
  /\ source = Empty /\ lastConfig = Empty /\ view = Empty
  /\ running = FALSE /\ ticking = FALSE
  /\ checks = [c \in Checks |-> NoCheck]

SourceChanges(config) ==
  /\ config # source /\ source' = config
  /\ UNCHANGED <<sync, running, ticking, lastConfig, checks, view>>

\* start() does not await load(): a promise has no keys of its own, so that the
\* first check reports every key as new.
Start ==
  /\ ~running /\ running' = TRUE /\ ticking' = TRUE
  /\ lastConfig' = IF sync THEN source ELSE Empty
  /\ view' = lastConfig'
  /\ UNCHANGED <<sync, source, checks>>

\* A file that does not parse when the watcher starts: the exception leaves it
\* running without an interval, and start() returns at once from then on.
StartThrows ==
  /\ ~running /\ sync /\ running' = TRUE
  /\ UNCHANGED <<sync, source, ticking, lastConfig, checks, view>>

StopKeepingInterval ==  \* faulty: the interval is not cleared
  running /\ running' = FALSE /\ UNCHANGED <<sync, source, ticking, lastConfig, checks, view>>

Stop ==
  /\ running /\ running' = FALSE /\ ticking' = FALSE
  /\ UNCHANGED <<sync, source, lastConfig, checks, view>>

Compare(config) ==
  /\ lastConfig' = config
  /\ view' = Apply(view, DetectChanges(lastConfig, config))

\* The interval calls check().
CheckAtOnce ==
  /\ ticking /\ sync
  /\ Compare(source)
  /\ UNCHANGED <<sync, source, running, ticking, checks>>

CheckBegins(c) ==
  /\ ticking /\ ~sync /\ ~checks[c].pending
  /\ checks' = [checks EXCEPT ![c] = [pending |-> TRUE, config |-> source]]
  /\ UNCHANGED <<sync, source, running, ticking, lastConfig, view>>

\* The load of a check answers, in any order and also after stop().
CheckEnds(c) ==
  /\ checks[c].pending
  /\ checks' = [checks EXCEPT ![c] = NoCheck]
  /\ Compare(checks[c].config)
  /\ UNCHANGED <<sync, source, running, ticking>>

\* load() throws or rejects: 'error' is emitted and nothing else happens.
LoadFails(c) ==
  /\ checks[c].pending
  /\ checks' = [checks EXCEPT ![c] = NoCheck]
  /\ UNCHANGED <<sync, source, running, ticking, lastConfig, view>>

Next ==
  \/ \E config \in Configs : SourceChanges(config)
  \/ Start \/ StartThrows \/ Stop \/ CheckAtOnce
  \/ \E c \in Checks : CheckBegins(c) \/ CheckEnds(c) \/ LoadFails(c)

\* The interval goes on ticking, and loads that go on being made do not all fail.
Fairness ==
  /\ WF_watcherVars(CheckAtOnce \/ \E c \in Checks : CheckBegins(c))
  /\ \A c \in Checks : SF_watcherVars(CheckEnds(c))

Spec == Init /\ [][Next]_watcherVars /\ Fairness
-----------------------------------------------------------------------------
TypeOK ==
  /\ {source, lastConfig, view} \subseteq Configs
  /\ {sync, running, ticking} \subseteq BOOLEAN /\ (ticking => running)

\* Whatever order slow loads end in, the events a listener gets add up to the
\* configuration the watcher has last.
EventsAddUp == view = lastConfig

\* A configuration that stays at the source of a watcher that has started reaches
\* the listener, and in the end nothing older comes after it.
Settles ==
  \A config \in Configs :
    <>[](ticking /\ source = config) => <>[](view = config)
=============================================================================
