----------------------------- MODULE CacheManager -----------------------------
(***************************************************************************)
(* CacheManager (packages/cache/src/cache-manager.ts) in front of a        *)
(* backing store.  A value is abstracted to whether it is still the one of *)
(* the store: a change of the store makes every copy of the key old, also  *)
(* the one a factory has read and has not returned yet.                    *)
(***************************************************************************)
EXTENDS Naturals, Sequences, SequencesExt, FiniteSets, FiniteSetsExt

CONSTANTS
  Keys,
  Fills,    \* calls of factories in flight (a bound)
  MaxSize,  \* options.max
  Ttl       \* options.ttl, in ticks

VARIABLES
  order,      \* the keys of memoryCache, in the order of the Map
  entries,    \* an entry for each key (NoEntry if it has none)
  size,       \* stats.size
  fills,      \* the calls of factories in flight
  announced,  \* keys changed in the store whose delete() is still to come
  quiet       \* history: the store changes no more

cacheVars == <<order, entries, size, fills, announced, quiet>>

OptionsOK == MaxSize \in Nat \ {0} /\ Ttl \in Nat \ {0}

\* What a copy's value is: "current", or why it is old: the store was changed by
\* an announced update, by a writeThrough or in the background by writeBehind; or
\* it was old already when it was stored.
Entry(why) == [left |-> Ttl + 1, idle |-> 0, why |-> why]
NoEntry == [left |-> 0, idle |-> 0, why |-> "none"]
Expired(k) == entries[k].left = 0
Here == ToSet(order)

\* What a factory does: it reads the store, writes it and returns the value, or
\* writes it in the background (writeBehind), where nobody takes the value.
IdleFill == [stage |-> "idle", key |-> CHOOSE k \in Keys : TRUE, does |-> "read", old |-> FALSE]
Free(f) == fills[f].stage = "idle"

Init ==
  /\ order = <<>> /\ entries = [k \in Keys |-> NoEntry] /\ size = 0
  /\ fills = [f \in Fills |-> IdleFill]
  /\ announced = {} /\ quiet = FALSE

\* Those in line that belong to a set, as delete() leaves the others.
Kept(q, S) ==
  LET kept[n \in 0 .. Len(q)] ==
        IF n = 0 THEN <<>> ELSE IF q[n] \in S THEN Append(kept[n - 1], q[n]) ELSE kept[n - 1]
  IN  kept[Len(q)]

Removed(ks) ==
  /\ order' = Kept(order, Keys \ ks)
  /\ entries' = [k \in Keys |-> IF k \in ks THEN NoEntry ELSE entries[k]]

\* evict(): the tenth of max that was not used for longest, the earlier in the Map
\* first where times are equal.
Tenth == (MaxSize + 9) \div 10
LeastRecent(keys, used) ==
  LET before(i, j) == \/ used[keys[i]].idle > used[keys[j]].idle
                      \/ used[keys[i]].idle = used[keys[j]].idle /\ i < j
  IN  {keys[j] : j \in {p \in DOMAIN keys : Cardinality({i \in DOMAIN keys : before(i, p)}) < Tenth}}

\* set(): an entry keeps its place in the Map; too many entries evict some.
Set(k, why) ==
  LET keys == IF k \in Here THEN order ELSE Append(order, k)
      with == [entries EXCEPT ![k] = Entry(why)]
      out == IF Len(keys) > MaxSize THEN LeastRecent(keys, with) ELSE {}
  IN  /\ order' = Kept(keys, Keys \ out)
      /\ entries' = [l \in Keys |-> IF l \in out THEN NoEntry ELSE with[l]]
      /\ size' = Len(order')

\* get() and has() of an expired key remove it and leave stats.size as it was.
Touch(k) == entries' = [entries EXCEPT ![k].idle = 0] /\ UNCHANGED order
Look(k) ==
  /\ k \in Here
  /\ IF Expired(k) THEN Removed({k}) ELSE Touch(k)
  /\ UNCHANGED <<size, fills, announced, quiet>>

Call(f, k, does) ==
  fills' = [fills EXCEPT ![f] = [IdleFill EXCEPT !.stage = "called", !.key = k, !.does = does]]

\* getOrSet, writeBehind, refreshAhead and @Cached without a usable entry.
\* (refreshAhead does not look at expiresAt, the others remove the entry.)
CallOnMiss(f, k, does) ==
  /\ Free(f) /\ (k \in Here => Expired(k)) /\ (does = "write" => ~quiet)
  /\ Call(f, k, does)
  /\ Removed({k})
  /\ UNCHANGED <<size, announced, quiet>>

WriteThrough(f, k) ==
  /\ Free(f) /\ ~quiet
  /\ Call(f, k, "write")
  /\ UNCHANGED <<order, entries, size, announced, quiet>>

\* refreshAhead of an entry older than the threshold, expired or not.
RefreshAhead(f, k) ==
  /\ Free(f) /\ k \in Here /\ entries[k].left <= Ttl
  /\ Call(f, k, "read")
  /\ UNCHANGED <<order, entries, size, announced, quiet>>

\* Every copy of the key is old from now on; for the entry, why is noted.
StoreChanges(k, why) == entries' = [entries EXCEPT ![k].why = IF @ = "none" THEN @ ELSE why]
Outdated(k) ==
  [f \in Fills |-> IF fills[f].stage = "answered" /\ fills[f].key = k
                   THEN [fills[f] EXCEPT !.old = TRUE] ELSE fills[f]]

\* The factory reads the store, or writes it.
FactoryReads(f) ==
  /\ fills[f].stage = "called" /\ fills[f].does = "read"
  /\ fills' = [fills EXCEPT ![f].stage = "answered"]
  /\ UNCHANGED <<order, entries, size, announced, quiet>>

FactoryWrites(f) ==
  /\ fills[f].stage = "called" /\ fills[f].does = "write"
  /\ StoreChanges(fills[f].key, "through")
  /\ fills' = [Outdated(fills[f].key) EXCEPT ![f].stage = "answered"]
  /\ UNCHANGED <<order, size, announced, quiet>>

BackgroundWrite(f) ==
  /\ fills[f].stage = "called" /\ fills[f].does = "behind"
  /\ StoreChanges(fills[f].key, "behind")
  /\ fills' = [Outdated(fills[f].key) EXCEPT ![f] = IdleFill]
  /\ UNCHANGED <<order, size, announced, quiet>>

FactoryFails(f) ==
  /\ fills[f].stage = "called"
  /\ fills' = [fills EXCEPT ![f] = IdleFill]
  /\ UNCHANGED <<order, entries, size, announced, quiet>>

FactoryReturns(f) ==
  /\ fills[f].stage = "answered"
  /\ Set(fills[f].key, IF fills[f].old THEN "late" ELSE "current")
  /\ fills' = [fills EXCEPT ![f] = IdleFill]
  /\ UNCHANGED <<announced, quiet>>

\* writeBehind of a usable entry: the store is going to be written in the
\* background, the entry keeps the value it has.
WriteBehind(f, k) ==
  /\ Free(f) /\ k \in Here /\ ~Expired(k) /\ ~quiet
  /\ Call(f, k, "behind")
  /\ Touch(k)
  /\ UNCHANGED <<size, announced, quiet>>

\* The application changes the store and deletes the key afterwards.
Update(k) ==
  /\ ~quiet
  /\ StoreChanges(k, "update") /\ fills' = Outdated(k)
  /\ announced' = announced \cup {k}
  /\ UNCHANGED <<order, size, quiet>>

DeleteFirst(k) ==  \* faulty: the update is taken for done before the entry is deleted
  /\ k \in announced /\ announced' = announced \ {k}
  /\ UNCHANGED <<order, entries, size, fills, quiet>>

Delete(k) ==
  /\ k \in announced /\ announced' = announced \ {k}
  /\ Removed({k})
  /\ size' = IF k \in Here THEN Len(order') ELSE size
  /\ UNCHANGED <<fills, quiet>>

Clear ==
  /\ Removed(Keys) /\ size' = 0
  /\ UNCHANGED <<fills, announced, quiet>>

\* The cleanup interval.
Cleanup ==
  /\ \E k \in Here : Expired(k)
  /\ Removed({k \in Here : Expired(k)})
  /\ size' = Len(order')
  /\ UNCHANGED <<fills, announced, quiet>>

Tick ==
  /\ \E k \in Here : ~Expired(k)
  /\ entries' = [k \in Keys |->
        IF k \in Here
        THEN [entries[k] EXCEPT !.left = IF @ = 0 THEN 0 ELSE @ - 1,
                                !.idle = IF @ = Ttl THEN @ ELSE @ + 1]  \* a bound
        ELSE NoEntry]
  /\ UNCHANGED <<order, size, fills, announced, quiet>>

StopChanges ==
  /\ ~quiet /\ \A f \in Fills : fills[f].does = "read"
  /\ quiet' = TRUE
  /\ UNCHANGED <<order, entries, size, fills, announced>>

Next ==
  \/ \E k \in Keys : Look(k) \/ Update(k) \/ Delete(k)
  \/ \E f \in Fills, k \in Keys :
       \/ WriteThrough(f, k) \/ WriteBehind(f, k) \/ RefreshAhead(f, k)
       \/ \E does \in {"read", "write"} : CallOnMiss(f, k, does)
  \/ \E f \in Fills : FactoryReads(f) \/ FactoryWrites(f) \/ BackgroundWrite(f) \/ FactoryFails(f) \/ FactoryReturns(f)
  \/ Clear \/ Cleanup \/ Tick \/ StopChanges

\* Time passes, the interval runs, announced deletions are made.
Fairness ==
  /\ WF_cacheVars(Tick) /\ WF_cacheVars(Cleanup)
  /\ WF_cacheVars(\E k \in Keys : Delete(k))
  /\ WF_cacheVars(\E f \in Fills : FactoryReturns(f))

Spec == Init /\ [][Next]_cacheVars /\ Fairness
-----------------------------------------------------------------------------
TypeOK ==
  /\ Here \subseteq Keys /\ IsInjective(order)
  /\ \A k \in Keys : entries[k].left \in 0 .. Ttl + 1 /\ (k \notin Here => entries[k] = NoEntry)
  /\ announced \subseteq Keys /\ size \in Nat

\* Never more entries than max, and stats.size, which expiry on access leaves
\* too large, is never too small.
WithinMax == Len(order) <= MaxSize /\ Len(order) <= size

\* An entry is old for one of these reasons only: its delete() is still to come;
\* the writeThrough that changed the store is about to set it; it was stored by a
\* call that had read before the change; writeBehind has passed it by.
StaleIsExplained ==
  \A k \in Here :
    /\ entries[k].why = "update" => k \in announced
    /\ entries[k].why = "through" =>
         \E f \in Fills : fills[f].stage = "answered" /\ fills[f].key = k /\ ~fills[f].old

\* When the store changes no more, old entries disappear for good: none outlives
\* its ttl by more than the cleanup interval, and no late one follows.
StaleEnds == <>[]quiet => <>[](\A k \in Here : entries[k].why = "current")
=============================================================================
