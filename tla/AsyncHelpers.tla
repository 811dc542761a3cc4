----------------------------- MODULE AsyncHelpers -----------------------------
(***************************************************************************)
(* The helpers that call somebody's function later or side by side:        *)
(* debounce() and throttle() of packages/fx, and mapReduce(), parallel(),  *)
(* series() and waterfall() of packages/mr.  A timer comes when its time   *)
(* has come, or later.  Arguments are the number of the call.              *)
(***************************************************************************)
EXTENDS Integers, Sequences, FiniteSets

CONSTANTS
  Pause,                \* delay of debounce, limit of throttle
  Jobs,                 \* how many items or functions
  MaxInvoked, MaxClock  \* bounds

VARIABLES
  helper,
  clock,
  timers,     \* the timers that are set
  timeoutId,  \* the one that the closure knows of
  lastArgs,
  lastCall,   \* of throttle: when it called fn last
  invoked,    \* how often the helper was called, and when last
  invokedAt,
  runs,       \* how often throttle called fn, and when last
  ranAt,
  owed,       \* a call was made, and no call of fn and no cancel() followed
  tangled,    \* fn has called the debounced function that called it
  concurrency,
  index, mapping, results,  \* of mapReduce: the next item, those under way, those done
  taken,      \* the items in the order in which they were taken
  outcome

timerVars == <<timers, timeoutId, lastArgs, lastCall, invoked, invokedAt,
               runs, ranAt, owed, tangled>>
jobVars == <<concurrency, index, mapping, results, taken, outcome>>
helperVars == <<helper, clock, timerVars, jobVars>>

OptionsOK == Pause \in Nat \ {0} /\ \A n \in {Jobs, MaxInvoked, MaxClock} : n \in Nat \ {0}

None == 0
LongAgo == -Pause  \* 0 in the code, where the clock is far from it

Init ==
  /\ helper \in {"debounce", "throttle", "mapReduce", "parallel", "series"}
  /\ clock = 0 /\ timers = {} /\ timeoutId = None /\ lastArgs = None /\ lastCall = LongAgo
  /\ invoked = 0 /\ invokedAt = 0 /\ runs = 0 /\ ranAt = LongAgo /\ owed = FALSE /\ tangled = FALSE
  /\ CASE helper = "mapReduce" -> concurrency \in 0 .. Jobs
       [] helper = "parallel"  -> concurrency = Jobs
       [] OTHER                -> concurrency = 1  \* series and waterfall
  /\ index = 1 /\ mapping = {} /\ results = {} /\ taken = <<>> /\ outcome = "none"

Timer(id, after) == [id |-> id, due |-> clock + after]
Others == {t \in timers : t.id # timeoutId}  \* what clearTimeout(timeoutId) leaves

Invoke == invoked < MaxInvoked /\ invoked' = invoked + 1 /\ invokedAt' = clock

Debounced ==
  /\ helper = "debounce" /\ Invoke
  /\ lastArgs' = invoked' /\ owed' = TRUE
  /\ timers' = Others \cup {Timer(invoked', Pause)} /\ timeoutId' = invoked'
  /\ UNCHANGED <<helper, clock, lastCall, runs, ranAt, tangled, jobVars>>

\* fn throws out of the timer, before what was set is reset.
DebounceTimer(t) ==
  /\ helper = "debounce" /\ t.due <= clock
  /\ timers' = timers \ {t} /\ owed' = IF lastArgs # None THEN FALSE ELSE owed
  /\ \/ timeoutId' = None /\ lastArgs' = None
     \/ lastArgs # None /\ UNCHANGED <<timeoutId, lastArgs>>
  /\ UNCHANGED <<helper, clock, lastCall, invoked, invokedAt, runs, ranAt, tangled, jobVars>>

\* fn, called by the timer or by flush(), calls the debounced function again.  What that
\* call has set is reset when fn returns, so that nothing comes of it but a timer that
\* the closure does not know.
DebounceAgain ==
  /\ helper = "debounce" /\ lastArgs # None /\ Invoke
  /\ \/ timeoutId # None /\ timers' = Others \cup {Timer(invoked', Pause)}
     \/ \E t \in timers : /\ t.due <= clock
                          /\ timers' = (Others \ {t}) \cup {Timer(invoked', Pause)}
  /\ timeoutId' = None /\ lastArgs' = None /\ owed' = FALSE /\ tangled' = TRUE
  /\ UNCHANGED <<helper, clock, lastCall, runs, ranAt, jobVars>>

\* fn may throw here, too.
Flush ==
  /\ helper = "debounce" /\ timeoutId # None /\ lastArgs # None
  /\ timers' = Others /\ owed' = FALSE
  /\ \/ timeoutId' = None /\ lastArgs' = None
     \/ UNCHANGED <<timeoutId, lastArgs>>
  /\ UNCHANGED <<helper, clock, lastCall, invoked, invokedAt, runs, ranAt, tangled, jobVars>>

Cancel ==
  /\ helper \in {"debounce", "throttle"} /\ (timeoutId # None \/ lastArgs # None)
  /\ timers' = Others /\ timeoutId' = None /\ lastArgs' = None /\ owed' = FALSE
  /\ UNCHANGED <<helper, clock, lastCall, invoked, invokedAt, runs, ranAt, tangled, jobVars>>

Run == runs' = runs + 1 /\ ranAt' = clock /\ owed' = FALSE

\* The first call that has to wait sets the timer, and those that follow are dropped:
\* fn gets the arguments of the first.
Throttled ==
  /\ helper = "throttle" /\ Invoke
  /\ LET remaining == Pause - (clock - lastCall)
     IN  IF remaining <= 0
         THEN timers' = Others /\ timeoutId' = None /\ lastCall' = clock /\ Run
         ELSE /\ IF timeoutId # None THEN UNCHANGED <<timers, timeoutId>>
                 ELSE timers' = timers \cup {Timer(invoked', remaining)} /\ timeoutId' = invoked'
              /\ owed' = TRUE /\ UNCHANGED <<lastCall, runs, ranAt>>
  /\ UNCHANGED <<helper, clock, lastArgs, tangled, jobVars>>

\* All is set before fn is called: that it calls the throttled function is as good as
\* a call that follows.
ThrottleTimer(t) ==
  /\ helper = "throttle" /\ t.due <= clock
  /\ timers' = timers \ {t} /\ timeoutId' = None /\ lastCall' = clock /\ Run
  /\ UNCHANGED <<helper, clock, lastArgs, invoked, invokedAt, tangled, jobVars>>

Tick ==
  /\ helper \in {"debounce", "throttle"} /\ clock < MaxClock /\ clock' = clock + 1
  /\ UNCHANGED <<helper, timerVars, jobVars>>

-----------------------------------------------------------------------------
\* A worker is the loop over the shared index: it takes items until there are none, or
\* until one fails.  series() and waterfall() are one such loop, parallel() has one
\* for each function.
Collective == helper \in {"mapReduce", "parallel", "series"}

Start ==
  /\ Collective /\ outcome = "none"
  /\ IF concurrency = 0 THEN outcome' = "rejected" /\ UNCHANGED <<index, mapping, taken>>  \* nothing to reduce
     ELSE /\ outcome' = "pending" /\ index' = concurrency + 1
          /\ mapping' = 1 .. concurrency /\ taken' = [i \in 1 .. concurrency |-> i]
  /\ UNCHANGED <<helper, clock, timerVars, concurrency, results>>

\* Promise.all settles when all workers are through, or when the first fails.
Settle == IF outcome = "pending" /\ mapping' = {} THEN "resolved" ELSE outcome

MappedTaking(i) ==  \* faulty: the index moves on before it is compared with the end
  /\ i \in mapping /\ results' = results \cup {i} /\ index' = index + 1
  /\ IF index <= Jobs
     THEN mapping' = (mapping \ {i}) \cup {index} /\ taken' = Append(taken, index)
     ELSE mapping' = mapping \ {i} /\ taken' = taken
  /\ outcome' = Settle
  /\ UNCHANGED <<helper, clock, timerVars, concurrency>>

Mapped(i) ==
  /\ i \in mapping /\ results' = results \cup {i}
  /\ IF index <= Jobs
     THEN /\ mapping' = (mapping \ {i}) \cup {index}
          /\ taken' = Append(taken, index) /\ index' = index + 1
     ELSE mapping' = mapping \ {i} /\ UNCHANGED <<index, taken>>
  /\ outcome' = Settle
  /\ UNCHANGED <<helper, clock, timerVars, concurrency>>

\* Its worker ends; the others go on taking items, although the caller knows by then.
MapFailed(i) ==
  /\ i \in mapping /\ mapping' = mapping \ {i} /\ outcome' = "rejected"
  /\ UNCHANGED <<helper, clock, timerVars, concurrency, index, results, taken>>

Next ==
  \/ Debounced \/ DebounceAgain \/ Flush \/ Cancel \/ Throttled \/ Tick \/ Start
  \/ \E t \in timers : DebounceTimer(t) \/ ThrottleTimer(t)
  \/ \E i \in mapping : Mapped(i) \/ MapFailed(i)

Spec == Init /\ [][Next]_helperVars
-----------------------------------------------------------------------------
TypeOK ==
  /\ clock \in 0 .. MaxClock /\ invoked \in 0 .. MaxInvoked /\ invokedAt \in 0 .. clock
  /\ {lastCall, ranAt} \subseteq {LongAgo} \cup 0 .. clock
  /\ \A t \in timers : t.id \in 1 .. invoked /\ t.due \in 0 .. clock + Pause
  /\ {timeoutId, lastArgs} \subseteq 0 .. invoked
  /\ index \in 1 .. Jobs + 1 /\ mapping \cup results \subseteq 1 .. Jobs
  /\ outcome \in {"none", "pending", "resolved", "rejected"}

\* A call that was neither followed by a call of fn nor cancelled has its timer: that
\* of debounce ends a pause after the last call, that of throttle a pause after fn
\* was called last.  Unless fn called its own debounced function.
NoCallIsLost ==
  owed /\ ~tangled =>
    \E t \in timers : /\ t.id = timeoutId
                      /\ t.due <= (IF helper = "debounce" THEN invokedAt ELSE ranAt) + Pause

\* A debounced function is called by its timer only after a pause in which nobody
\* called, and a throttled one never within a pause after its last call.
CallsAreApart ==
  [][/\ helper = "debounce" /\ ~tangled =>
          \A t \in timers \ timers' :
            t.due <= clock /\ lastArgs # None => clock - invokedAt >= Pause
     /\ runs' # runs => clock - ranAt >= Pause]_helperVars

\* No item is mapped twice or left out, however the workers interleave, and no more
\* than the concurrency at a time.
ItemsMappedOnce ==
  /\ Cardinality(mapping) <= concurrency
  /\ \A i, j \in DOMAIN taken : taken[i] = taken[j] => i = j
  /\ outcome = "resolved" => results = 1 .. Jobs
===============================================================================
