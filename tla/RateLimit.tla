------------------------------ MODULE RateLimit ------------------------------
(***************************************************************************)
(* The rate limiting of packages/limit for one key: the five algorithms    *)
(* of strategies.ts, and RateLimiter (rate-limiter.ts) over the stores of  *)
(* store.ts: memory, Redis, and the cluster of memory stores that are used *)
(* in turn; and the sampler of packages/log that limits the entries per    *)
(* second.  Everything between asking and answering runs without being     *)
(* interrupted.  Rates are exact here, floating point there.               *)
(***************************************************************************)
EXTENDS Integers, FiniteSetsExt

CONSTANTS
  Limits,   \* values of max
  Windows,  \* values of windowMs
  Costs,    \* of a request
  Stores,   \* the stores of the cluster, 1 .. n
  SeenMax, SeenWindow,  \* the limit and the window that get() of an algorithm assumes
  MaxTime,  \* a bound
  MaxCalls, \* requests (a bound)
  MaxResets \* of the key in Redis (a bound)

VARIABLES
  algorithm,
  now,
  max,       \* this.max and this.windowMs, which updateConfig changes
  windowMs,
  window,    \* fixed, sampler: the window's start and count
  requests,  \* sliding, sliding-log: what is on record for each moment
  bucket,    \* token-bucket, leaky-bucket: the amount, in parts of 1/windowMs, and when
  entries,   \* the stores: what they hold for the key, and until when
  turn,      \* currentIndex of the cluster
  calls,     \* requests made
  resets,    \* of the key in Redis
  granted,   \* history: what was granted at each moment
  lastAsked  \* history: when somebody asked last

limitVars ==
  <<algorithm, now, max, windowMs, window, requests, bucket, entries, turn, calls, resets, granted, lastAsked>>

OptionsOK ==
  /\ \A n \in Limits \cup Costs \cup Windows \cup {SeenMax, SeenWindow} : n \in Nat \ {0}
  /\ Stores = 1 .. Cardinality(Stores) /\ Stores # {}

\* The store of Redis is used with a client that takes the arguments of eval() as options
\* and answers multi() with values, or with ioredis, which does neither.
Redis == {"redis", "ioredis"}
Stored == {"memory", "cluster"} \cup Redis
Algorithms == {"fixed", "sliding", "sliding-log", "token-bucket", "leaky-bucket", "sampler"}
                \cup Stored
Instants == 0 .. MaxTime
Nowhen == -1
Zero == [t \in Instants |-> 0]
SumOver(f, from) == MapThenSumSet(LAMBDA t : f[t], {t \in Instants : t >= from /\ t <= now})
NoEntry == [kind |-> "none", count |-> 0, resetTime |-> 0, expires |-> 0]
Never == MaxTime + 1
NewEntry(cost) ==
  [kind |-> "hash", count |-> cost, resetTime |-> now + windowMs, expires |-> now + windowMs]
Number(count, expires) == [kind |-> "number", count |-> count, resetTime |-> 0, expires |-> expires]

Init ==
  /\ algorithm \in Algorithms /\ now = 0 /\ max \in Limits /\ windowMs \in Windows
  /\ window = [start |-> Nowhen, count |-> 0] /\ requests = Zero
  /\ bucket = [amount |-> 0, at |-> Nowhen]
  /\ entries = [s \in Stores |-> NoEntry] /\ turn = 1
  /\ calls = 0 /\ resets = 0 /\ granted = Zero /\ lastAsked = Nowhen

\* The answer, and what remains of it for the properties.
Answer(allowed, cost) ==
  /\ calls < MaxCalls /\ calls' = calls + 1
  /\ granted' = IF allowed THEN [granted EXCEPT ![now] = @ + cost] ELSE granted
  /\ lastAsked' = now
  /\ UNCHANGED <<algorithm, now, max, windowMs, resets>>

\* The windows start at multiples of their length; refused requests count, too.
ConsumeFixed(cost) ==
  LET start == now - (now % windowMs)
      count == cost + IF window.start = start THEN window.count ELSE 0
  IN  /\ algorithm = "fixed"
      /\ window' = [start |-> start, count |-> count]
      /\ Answer(count <= max, cost)
      /\ UNCHANGED <<requests, bucket, entries, turn>>

\* Refused requests are on record: who keeps asking is refused for ever.
ConsumeSliding(cost) ==
  LET kept == [t \in Instants |-> IF t > now - windowMs THEN requests[t] ELSE 0]
  IN  /\ algorithm = "sliding"
      /\ requests' = [kept EXCEPT ![now] = @ + cost]
      /\ Answer(SumOver(requests', 0) <= max, cost)
      /\ UNCHANGED <<window, bucket, entries, turn>>

ConsumeSlidingLog(cost) ==
  LET kept == [t \in Instants |-> IF t > now - windowMs THEN requests[t] ELSE 0]
      allowed == SumOver(kept, 0) + cost <= max
  IN  /\ algorithm = "sliding-log"
      /\ requests' = IF allowed THEN [kept EXCEPT ![now] = @ + cost] ELSE requests
      /\ Answer(allowed, cost)
      /\ UNCHANGED <<window, bucket, entries, turn>>

RefillFromStart(full) == max * windowMs  \* faulty: each request finds a full bucket

\* max of them are refilled, or leak, in each windowMs.
Elapsed == now - bucket.at

RefillUncapped(full) ==  \* faulty: tokens are saved up without limit
  IF bucket.at = Nowhen THEN full ELSE bucket.amount + Elapsed * max

Refilled(full) ==
  IF bucket.at = Nowhen THEN full
  ELSE IF bucket.amount + Elapsed * max > full THEN full ELSE bucket.amount + Elapsed * max
Leaked ==
  IF bucket.at = Nowhen \/ bucket.amount < Elapsed * max THEN 0 ELSE bucket.amount - Elapsed * max

ConsumeTokenBucket(cost) ==
  LET tokens == Refilled(max * windowMs)
      allowed == tokens >= cost * windowMs
  IN  /\ algorithm = "token-bucket"
      /\ bucket' = [amount |-> IF allowed THEN tokens - cost * windowMs ELSE tokens, at |-> now]
      /\ Answer(allowed, cost)
      /\ UNCHANGED <<window, requests, entries, turn>>

ConsumeLeakyBucket(cost) ==
  LET allowed == Leaked + cost * windowMs <= max * windowMs
  IN  /\ algorithm = "leaky-bucket"
      /\ bucket' = [amount |-> IF allowed THEN Leaked + cost * windowMs ELSE Leaked, at |-> now]
      /\ Answer(allowed, cost)
      /\ UNCHANGED <<window, requests, entries, turn>>

\* The sampler's record says when its second is over, and is kept for one second more.
SampleEntry ==
  LET over == window.start = Nowhen \/ now > window.start + 2 * windowMs
      count == IF over THEN 0 ELSE window.count
      allowed == count < max
  IN  /\ algorithm = "sampler"
      /\ window' = [start |-> IF over THEN now ELSE window.start,
                    count |-> IF allowed THEN count + 1 ELSE count]
      /\ Answer(allowed, 1)
      /\ UNCHANGED <<requests, bucket, entries, turn>>

\* increment() of the memory store and of the script run by Redis: an entry whose
\* time has come counts as none; one that is set again expires with its window.
Present(entry) == IF entry.expires <= now THEN NoEntry ELSE entry

Increment(entry, cost) ==
  IF Present(entry).kind = "none" \/ entry.resetTime <= now
  THEN NewEntry(cost)
  ELSE [entry EXCEPT !.count = @ + cost, !.expires = entry.resetTime]

\* RateLimiter.consume over the memory stores.
ConsumeStored(cost) ==
  LET store == IF algorithm = "cluster" THEN turn ELSE 1
  IN  /\ algorithm \in {"memory", "cluster"}
      /\ entries' = [entries EXCEPT ![store] = Increment(@, cost)]
      /\ turn' = IF algorithm = "cluster" /\ turn + 1 \in Stores THEN turn + 1 ELSE 1
      /\ Answer(entries'[store].count <= max, cost)
      /\ UNCHANGED <<window, requests, bucket>>

\* Redis: the script runs, unless it fails or finds a plain number.  ioredis takes the
\* options for the number of keys, and fails.
ConsumeByScript(cost) ==
  /\ algorithm = "redis" /\ Present(entries[1]).kind # "number"
  /\ entries' = [entries EXCEPT ![1] = Increment(@, cost)]
  /\ Answer(entries'[1].count <= max, cost)
  /\ UNCHANGED <<window, requests, bucket, turn>>

\* The fallback: INCRBY fails on what the script has stored, which is an answer
\* that is not below max; PEXPIRE changes the time of whatever there is.  The answers of
\* ioredis are pairs of an error and a value, of which none is below max.
ConsumeByFallback(cost) ==
  LET entry == Present(entries[1])
  IN  /\ algorithm \in Redis
      /\ entries' = [entries EXCEPT ![1] =
            IF entry.kind = "hash" THEN [entry EXCEPT !.expires = now + windowMs]
            ELSE Number(entry.count + cost, now + windowMs)]
      /\ Answer(algorithm = "redis" /\ entry.kind # "hash" /\ entries'[1].count <= max, cost)
      /\ UNCHANGED <<window, requests, bucket, turn>>

Consume(cost) ==
  \/ ConsumeFixed(cost) \/ ConsumeSliding(cost) \/ ConsumeSlidingLog(cost)
  \/ ConsumeTokenBucket(cost) \/ ConsumeLeakyBucket(cost)
  \/ ConsumeStored(cost) \/ ConsumeByScript(cost) \/ ConsumeByFallback(cost)

\* The cluster's stores take turns for all keys together.
ConsumeOtherKey ==
  /\ algorithm = "cluster" /\ turn' = IF turn + 1 \in Stores THEN turn + 1 ELSE 1
  /\ UNCHANGED <<algorithm, now, max, windowMs, window, requests, bucket, entries, calls, resets, granted,
                 lastAsked>>

\* reset() forgets the key.  A store without delete(), such as the cluster, counts
\* max down instead, which leaves what was refused before.
Decremented(entry) ==
  IF entry.count > max THEN [entry EXCEPT !.count = @ - max] ELSE NoEntry

Reset ==
  /\ algorithm \notin Redis \cup {"sampler"} /\ lastAsked # Nowhen
  /\ window' = [start |-> Nowhen, count |-> 0] /\ requests' = Zero
  /\ bucket' = [amount |-> 0, at |-> Nowhen]
  /\ entries' = [s \in Stores |->
        IF algorithm = "cluster" THEN Decremented(entries[s]) ELSE NoEntry]
  /\ granted' = Zero
  /\ UNCHANGED <<algorithm, now, max, windowMs, turn, calls, resets, lastAsked>>

\* In Redis nothing stops the count at zero, and a key that was not there is counted down
\* for good; on what the script has stored, DECRBY fails.
ResetInRedis ==
  LET entry == Present(entries[1])
  IN  /\ algorithm \in Redis /\ entry.kind # "hash" /\ resets < MaxResets
      /\ entries' = [entries EXCEPT ![1] =
            Number(entry.count - max, IF entry.kind = "none" THEN Never ELSE entry.expires)]
      /\ resets' = resets + 1
      /\ UNCHANGED <<algorithm, now, max, windowMs, window, requests, bucket, turn, calls, granted, lastAsked>>

resetAll ==
  /\ algorithm \in Stored /\ entries' = [s \in Stores |-> NoEntry] /\ granted' = Zero /\ resets' = 0
  /\ UNCHANGED <<algorithm, now, max, windowMs, window, requests, bucket, turn, calls, lastAsked>>

\* get(), which changes nothing: what is left, all if nothing is known.  The algorithms
\* go by a limit and a window of their own.
Left(limit, used) == IF used < limit THEN limit - used ELSE 0

GetFixed == IF window.start = now - (now % SeenWindow) THEN Left(SeenMax, window.count) ELSE SeenMax

GetSliding == Left(SeenMax, SumOver(requests, now - SeenWindow + 1))

GetSlidingLog == Left(SeenMax, SumOver(requests, now - SeenWindow + 1))

GetTokenBucket ==
  LET whole == windowMs * SeenWindow
      tokens == bucket.amount * SeenWindow + Elapsed * SeenMax * windowMs
  IN  IF bucket.at = Nowhen \/ tokens > SeenMax * whole THEN SeenMax ELSE tokens \div whole

\* The level is no whole number, but a request costs one.
GetLeakyBucket ==
  LET whole == windowMs * SeenWindow
      leaked == Elapsed * SeenMax * windowMs
  IN  IF bucket.at = Nowhen \/ bucket.amount * SeenWindow < leaked THEN SeenMax
      ELSE Left(SeenMax * whole, bucket.amount * SeenWindow - leaked) \div whole

EntryIn(store) == Present(entries[store]).kind # "none" /\ entries[store].resetTime > now

\* The first store of a cluster that has something answers for all.
EntryFound == {s \in Stores : EntryIn(s) /\ \A t \in Stores : EntryIn(t) => s <= t}

GetStored == IF EntryFound = {} THEN max ELSE Left(max, Max({entries[s].count : s \in EntryFound}))

Get ==
  CASE algorithm = "fixed"        -> GetFixed
    [] algorithm = "sliding"      -> GetSliding
    [] algorithm = "sliding-log"  -> GetSlidingLog
    [] algorithm = "token-bucket" -> GetTokenBucket
    [] algorithm = "leaky-bucket" -> GetLeakyBucket
    [] OTHER                      -> GetStored

UpdateConfig(limit, length) ==
  /\ algorithm \in Stored /\ <<limit, length>> # <<max, windowMs>> /\ max' = limit /\ windowMs' = length
  /\ UNCHANGED <<algorithm, now, window, requests, bucket, entries, turn, calls, resets, granted, lastAsked>>

Tick ==
  /\ now < MaxTime /\ now' = now + 1
  /\ UNCHANGED <<algorithm, max, windowMs, window, requests, bucket, entries, turn, calls, resets, granted,
                 lastAsked>>

Next ==
  \/ \E cost \in Costs : Consume(cost)
  \/ SampleEntry \/ ConsumeOtherKey \/ Reset \/ ResetInRedis \/ resetAll \/ Tick
  \/ \E limit \in Limits, length \in Windows : UpdateConfig(limit, length)

Spec == Init /\ [][Next]_limitVars
-----------------------------------------------------------------------------
TypeOK ==
  /\ algorithm \in Algorithms /\ now \in Instants /\ max \in Limits /\ turn \in Stores
  /\ {requests, granted} \subseteq [Instants -> Nat]
  /\ bucket.amount \in 0 .. windowMs * Max(Limits) /\ windowMs \in Windows /\ resets \in 0 .. MaxResets

\* What may be granted from a moment up to now.  The sliding algorithms keep every
\* window below max.  The buckets add to max what a refill gives in that time.  A
\* fixed window keeps below max for itself, so that two of them meet in a window
\* of any other place; so do the periods of a store, in as many stores as there
\* are, under the largest max there was.  In Redis every reset allows for max more, and
\* ioredis grants nothing.
Allowance(from) ==
  CASE algorithm \in {"sliding", "sliding-log"} -> max * windowMs
    [] algorithm \in {"token-bucket", "leaky-bucket"} -> max * (windowMs + now - from)
    [] algorithm = "fixed" -> (IF from % windowMs = 0 THEN 1 ELSE 2) * max * windowMs
    [] algorithm = "cluster" -> 2 * Max(Limits) * Max(Stores) * windowMs
    [] algorithm = "redis" -> (2 + resets) * Max(Limits) * windowMs
    [] algorithm = "ioredis" -> 0
    [] OTHER -> 2 * Max(Limits) * windowMs

\* The windows of a limiter are the shortest that it was configured with.
Length == IF algorithm \in Stored THEN Min(Windows) ELSE windowMs

GrantsBounded ==
  \A from \in Instants :
    (from <= now /\ (now < from + Length \/ algorithm \in {"token-bucket", "leaky-bucket"})) =>
       SumOver(granted, from) * windowMs <= Allowance(from)

Rested(time) == lastAsked = Nowhen \/ lastAsked + time <= now

\* Whoever has not asked for a whole window, the longest one that there was, gets what
\* they ask for next, unless it is more than max, or the store is asked by ioredis; the
\* sampler needs two.
RestRestores ==
  [][/\ \A cost \in Costs :
          /\ Consume(cost) /\ cost <= max /\ algorithm # "ioredis"
          /\ Rested(IF algorithm \in Stored THEN Max(Windows) ELSE windowMs)
          => granted'[now] > granted[now]
     /\ SampleEntry /\ Rested(2 * windowMs + 1) => granted'[now] > granted[now]]_limitVars

\* Whoever asks first, by get(), is told what consume() then says; for an algorithm if it
\* runs with the limit and the window that get() assumes, for a limiter unless its store
\* is a cluster or a Redis where the fallback or reset() has left a plain number.
AnswersForetold ==
  [][\A cost \in Costs :
       /\ Consume(cost) /\ algorithm # "cluster" /\ Present(entries[1]).kind # "number"
       /\ algorithm \notin Stored => max = SeenMax /\ windowMs = SeenWindow
       /\ algorithm \in Redis => entries'[1].kind = "hash" /\ entries'[1].count # Present(entries[1]).count
       => (granted'[now] > granted[now] <=> cost <= Get)]_limitVars
=============================================================================
