----------------------------- MODULE SharedCache -----------------------------
(***************************************************************************)
(* The caches of packages/cache that keep an entry somewhere else as well: *)
(* MultiLevelCache, two CacheManagers one behind the other, and RedisCache,*)
(* whose entries are on a server; and the methods that are decorated with  *)
(* @Cached and @CacheInvalidate and have a CacheManager in their object.   *)
(* One key stands for all.                                                 *)
(*                                                                         *)
(* The levels answer in a microtask, so the parts of the calls run in the  *)
(* order in which they are queued; a connection to Redis keeps the order   *)
(* of its commands as well ("jobs" in both).  New calls come at any time.  *)
(*                                                                         *)
(* Versions are numbered as they are made, 0 is none.  A unit of time is   *)
(* half a second.  "latest", "raced" and "refused" are history variables.  *)
(***************************************************************************)
EXTENDS Naturals, Sequences, FiniteSets

CONSTANTS Getters,      \* callers of getOrSet()
          MaxValues,    \* bound: how often the value changes
          MaxQueued,    \* bound: jobs or commands that wait
          Ttls,         \* what is asked for; zero is for ever
          MaxNow        \* bound of time

OptionsOK == {MaxValues, MaxQueued, MaxNow} \subseteq Nat /\ Ttls \subseteq Nat

VARIABLES kind,     \* "levels", "redis" or "method"
          prefixed, \* keyPrefix of Redis, or the prefix of the object's cache, is not empty
          near,     \* L1, or the object's cache; 0 with Redis
          far,      \* L2, or the server's entry
          until,    \* Redis: when the entry expires, 0 if it does not
          asked,    \* Redis: how long it was to live at most, 0 for ever
          jobs,     \* <<what, value, ttl>>
          getters,  \* where each getOrSet(), or cached method, is, and with which value
          latest,   \* what the key should have
          raced,    \* it changed during a get(), or while a getOrSet() had the value before
          refused,  \* the server refused a value
          now

cacheVars == <<kind, prefixed, near, far, until, asked, jobs, getters, latest, raced, refused, now>>
redisVars == <<until, asked, getters, refused, now>>

Versions == 0 .. MaxValues
Idle == [phase |-> "idle", value |-> 0]

Init ==
  /\ kind \in {"levels", "redis", "method"} /\ prefixed \in BOOLEAN /\ (kind = "levels" => prefixed = TRUE)
  /\ near = 0 /\ far = 0 /\ until = 0 /\ asked = 0 /\ jobs = <<>> /\ getters = [g \in Getters |-> Idle]
  /\ latest = 0 /\ raced = FALSE /\ refused = FALSE /\ now = 0

Queued(what) == \E i \in DOMAIN jobs : jobs[i][1] = what
Queue(job) == Len(jobs) < MaxQueued /\ jobs' = Append(jobs, job)
Next1(what) == jobs # <<>> /\ Head(jobs)[1] = what
-----------------------------------------------------------------------------
(* MultiLevelCache *)

\* What is between its steps may find a value that is no longer one.
Getting == Queued("look") \/ Queued("fill")

get ==
  /\ kind = "levels" /\ near = 0 /\ Queue(<<"look", 0, 0>>)
  /\ UNCHANGED <<kind, prefixed, near, far, latest, raced, redisVars>>

Look ==
  /\ kind = "levels" /\ Next1("look")
  /\ jobs' = Tail(jobs) \o (IF far = 0 THEN <<>> ELSE <<<<"fill", far, 0>>>>)
  /\ UNCHANGED <<kind, prefixed, near, far, latest, raced, redisVars>>

Fill ==
  /\ kind = "levels" /\ Next1("fill") /\ jobs' = Tail(jobs) /\ near' = Head(jobs)[2]
  /\ UNCHANGED <<kind, prefixed, far, latest, raced, redisVars>>

set ==
  /\ kind = "levels" /\ latest < MaxValues
  /\ latest' = latest + 1 /\ near' = latest' /\ Queue(<<"set", latest', 0>>)
  /\ raced' = (raced \/ Getting)
  /\ UNCHANGED <<kind, prefixed, far, redisVars>>

\* delete() and clear().  The next value is another one.
DeleteNearOnly ==  \* faulty: the second level is left alone
  /\ kind = "levels" /\ near' = 0 /\ latest < MaxValues /\ latest' = latest + 1
  /\ raced' = (raced \/ Getting)
  /\ UNCHANGED <<kind, prefixed, far, jobs, redisVars>>

delete ==
  /\ kind = "levels" /\ near' = 0 /\ latest < MaxValues /\ latest' = latest + 1
  /\ Queue(<<"set", 0, 0>>) /\ raced' = (raced \/ Getting)
  /\ UNCHANGED <<kind, prefixed, far, redisVars>>

SetFar ==
  /\ kind = "levels" /\ Next1("set") /\ jobs' = Tail(jobs) /\ far' = Head(jobs)[2]
  /\ UNCHANGED <<kind, prefixed, near, latest, raced, redisVars>>

\* Either level drops its entry when it is full, or the entry is too old.
Dropped ==
  /\ kind \in {"levels", "method"}
  /\ \/ near # 0 /\ near' = 0 /\ UNCHANGED far
     \/ far # 0 /\ far' = 0 /\ UNCHANGED near
  /\ UNCHANGED <<kind, prefixed, jobs, latest, raced, redisVars>>
-----------------------------------------------------------------------------
(* RedisCache *)

Seconds(ttl) == ttl \div 2
Alive == far # 0

Send(command) == kind = "redis" /\ Queue(command)

\* The value changes, and is written at once, or deleted.
write(ttl) ==
  /\ latest < MaxValues /\ latest' = latest + 1 /\ Send(<<"set", latest', ttl>>)
  /\ raced' = (raced \/ \E g \in Getters : getters[g].phase = "holding")
  /\ UNCHANGED <<kind, prefixed, near, far, redisVars>>

del ==
  /\ latest < MaxValues /\ latest' = latest + 1 /\ Send(<<"del", 0, 0>>)
  /\ raced' = (raced \/ \E g \in Getters : getters[g].phase = "holding")
  /\ UNCHANGED <<kind, prefixed, near, far, redisVars>>

expire(ttl) ==
  /\ Send(<<"expire", 0, IF Seconds(ttl) = 0 THEN 0 ELSE ttl>>)
  /\ UNCHANGED <<kind, prefixed, near, far, latest, raced, redisVars>>

\* clear() asks for the keys first, and deletes what it is told.
clear ==
  /\ Send(<<"keys", 0, 0>>) /\ UNCHANGED <<kind, prefixed, near, far, latest, raced, redisVars>>

\* getOrSet(): ask, compute, store.
getOrSet(g) ==
  /\ getters[g].phase = "idle" /\ Send(<<"get", g, 0>>)
  /\ getters' = [getters EXCEPT ![g].phase = "asking"]
  /\ UNCHANGED <<kind, prefixed, near, far, until, asked, latest, raced, refused, now>>

FactoryReads(g) ==
  /\ getters[g].phase = "missed" /\ getters' = [getters EXCEPT ![g] = [phase |-> "holding", value |-> latest]]
  /\ UNCHANGED <<kind, prefixed, near, far, until, asked, jobs, latest, raced, refused, now>>

Store(g, ttl) ==
  /\ getters[g].phase = "holding" /\ Send(<<"set", getters[g].value, ttl>>)
  /\ getters' = [getters EXCEPT ![g] = Idle]
  /\ UNCHANGED <<kind, prefixed, near, far, until, asked, latest, raced, refused, now>>

\* The factory, or a command of getOrSet(), fails.
GivesUp(g) ==
  /\ getters[g].phase \in {"missed", "holding"} /\ getters' = [getters EXCEPT ![g] = Idle]
  /\ UNCHANGED <<kind, prefixed, near, far, until, asked, jobs, latest, raced, refused, now>>

\* The server takes the commands in turn.  Without a time the value is SET for ever; a
\* time of less than a second is an error for SETEX, and the end for EXPIRE.
Kept == UNCHANGED <<far, until, asked>>
SetEx(v, ttl) ==
  CASE ttl = 0 -> far' = v /\ until' = 0 /\ asked' = 0 /\ UNCHANGED refused
    [] ttl # 0 /\ Seconds(ttl) = 0 -> Kept /\ refused' = TRUE
    [] OTHER -> far' = v /\ until' = now + 2 * Seconds(ttl) /\ asked' = now + ttl /\ UNCHANGED refused

Gone == far' = 0 /\ until' = 0 /\ asked' = 0

Expire(ttl) ==
  CASE ~Alive -> Kept
    [] Seconds(ttl) = 0 -> Gone
    [] OTHER -> until' = now + 2 * Seconds(ttl) /\ asked' = now + ttl /\ UNCHANGED far

\* The keys that KEYS finds have the prefix, and DEL puts it before them once more.
Executed ==
  LET command == Head(jobs)
      v == command[2]
      ttl == command[3]
  IN  /\ kind = "redis" /\ jobs # <<>>
      /\ CASE command[1] = "set"    -> SetEx(v, ttl) /\ UNCHANGED getters
           [] command[1] = "del"    -> Gone /\ UNCHANGED <<refused, getters>>
           [] command[1] = "expire" -> Expire(ttl) /\ UNCHANGED <<refused, getters>>
           [] command[1] = "keys"   -> Kept /\ UNCHANGED <<refused, getters>>
           [] command[1] = "get"    ->
                /\ Kept /\ UNCHANGED refused
                /\ getters' = [getters EXCEPT ![v].phase = IF Alive THEN "idle" ELSE "missed"]
      /\ jobs' = Tail(jobs) \o
           (IF command[1] = "keys" /\ Alive /\ ~prefixed THEN <<<<"del", 0, 0>>>> ELSE <<>>)
      /\ UNCHANGED <<kind, prefixed, near, latest, raced, now>>

Tick ==
  /\ kind = "redis" /\ now < MaxNow /\ now' = now + 1 /\ IF now' = until THEN Gone ELSE Kept
  /\ UNCHANGED <<kind, prefixed, near, jobs, getters, latest, raced, refused>>

-----------------------------------------------------------------------------
(* @Cached and @CacheInvalidate: jobs are the steps after an await. *)

callCached(g) ==
  /\ kind = "method" /\ getters[g].phase = "idle"
  /\ getters' = [getters EXCEPT ![g].phase = IF near = 0 THEN "missed" ELSE "idle"]
  /\ UNCHANGED <<kind, prefixed, near, far, until, asked, jobs, latest, raced, refused, now>>

StoreResult(g) ==
  /\ kind = "method" /\ getters[g].phase = "holding"
  /\ near' = getters[g].value /\ getters' = [getters EXCEPT ![g] = Idle]
  /\ UNCHANGED <<kind, prefixed, far, until, asked, jobs, latest, raced, refused, now>>

\* The method that makes the cached results old has done so.
callInvalidating ==
  /\ kind = "method" /\ latest < MaxValues /\ latest' = latest + 1 /\ Queue(<<"invalidate", 0, 0>>)
  /\ raced' = (raced \/ \E g \in Getters : getters[g].phase = "holding")
  /\ UNCHANGED <<kind, prefixed, near, far, redisVars>>

\* The keys are those of the map, prefix and all, and delete() puts the prefix before
\* them once more.
Invalidated ==
  /\ kind = "method" /\ Next1("invalidate") /\ jobs' = Tail(jobs)
  /\ near' = IF prefixed THEN near ELSE 0
  /\ UNCHANGED <<kind, prefixed, far, latest, raced, redisVars>>

Next ==
  \/ callInvalidating \/ Invalidated \/ \E g \in Getters : callCached(g) \/ StoreResult(g)
  \/ get \/ Look \/ Fill \/ set \/ delete \/ SetFar \/ Dropped
  \/ \E ttl \in Ttls : write(ttl) \/ expire(ttl) \/ \E g \in Getters : Store(g, ttl)
  \/ \E g \in Getters : getOrSet(g) \/ FactoryReads(g) \/ GivesUp(g)
  \/ del \/ clear \/ Executed \/ Tick

Spec == Init /\ [][Next]_cacheVars
-----------------------------------------------------------------------------
TypeOK ==
  /\ {near, far, latest} \subseteq Versions /\ {until, asked} \subseteq Nat /\ now \in 0 .. MaxNow
  /\ Len(jobs) <= MaxQueued /\ \A g \in Getters : getters[g].value \in Versions

\* When the calls have ended, no level has an old value; only a get() that a change
\* overtook may have put one into the first level.
LevelsAgree ==
  kind = "levels" /\ jobs = <<>> =>
    /\ far \in {0, latest}
    /\ near \in {0, latest} \/ raced

\* An old value is on the server only while the command that replaces it is on its way,
\* or after a getOrSet() stored what it had computed before the change, or a time below
\* one second kept a new one out; and what is to expire does so, no later than asked for.
ServerAgrees ==
  kind = "redis" =>
    /\ far \in {0, latest} \/ Queued("del") \/ Queued("set") \/ raced \/ refused
    /\ Alive /\ asked # 0 => until \in 1 .. asked

\* The result of a cached method is old only until the method that changed what it
\* depends on has ended, or if it was computed before that and stored after; and in
\* a cache with a prefix.
MethodsAgree ==
  kind = "method" => near \in {0, latest} \/ Queued("invalidate") \/ raced \/ prefixed
=============================================================================
