--------------------------- MODULE CircuitBreaker ---------------------------
(***************************************************************************)
(* The CircuitBreaker class of packages/breaker.  A call of execute() asks *)
(* for the state, runs its operation, and reports the result when the      *)
(* operation settles; by then the breaker may be in another state, or have *)
(* gone through several.                                                   *)
(*                                                                         *)
(* Time is counted in ticks, and nextAttempt is kept as the ticks left     *)
(* until then.  The statistics (successes, totals, dates) are left out.    *)
(***************************************************************************)
EXTENDS Naturals, FiniteSets

CONSTANTS Calls,         \* the activities that call execute()
          Threshold,     \* config.threshold
          ResetTimeout,  \* config.resetTimeout, in ticks
          MaxForced      \* bound: how often forceOpen() is called

\* The configuration that a breaker is made with.
ConfigOK ==
  /\ IsFiniteSet(Calls)
  /\ Threshold \in Nat \ {0}
  /\ ResetTimeout \in Nat \ {0}
  /\ MaxForced \in Nat

VARIABLES state,
          failures,
          coolDown,   \* nextAttempt, as the ticks left
          calls,      \* the state in which each running call was let through
          openFor,    \* history: ticks since the breaker last opened
          forced      \* history: how often it was forced open

vars == <<state, failures, coolDown, calls, openFor, forced>>

States == {"closed", "open", "half_open"}
Running(c) == calls[c] # "none"

Init ==
  /\ state = "closed"
  /\ failures = 0
  /\ coolDown = 0
  /\ calls = [c \in Calls |-> "none"]
  /\ openFor = 0
  /\ forced = 0

-----------------------------------------------------------------------------
\* Faulty variants.
HalfOpenKeepingFailures ==
  /\ state' = "half_open"
  /\ UNCHANGED <<failures, coolDown, openFor>>

SucceedInAnyState(c) ==
  /\ Running(c)
  /\ calls' = [calls EXCEPT ![c] = "none"]
  /\ state' = "closed" /\ failures' = 0 /\ coolDown' = 0
  /\ UNCHANGED <<openFor, forced>>

-----------------------------------------------------------------------------
TransitionToOpen ==
  /\ state' = "open"
  /\ coolDown' = ResetTimeout
  /\ openFor' = 0

TransitionToHalfOpen ==
  /\ state' = "half_open"
  /\ failures' = 0
  /\ UNCHANGED <<coolDown, openFor>>

TransitionToClosed ==
  /\ state' = "closed"
  /\ failures' = 0
  /\ coolDown' = 0
  /\ UNCHANGED openFor

\* getState() half-opens the breaker when it is asked late enough.
HalfOpenDue == state = "open" /\ coolDown = 0

\* Somebody asks for the state or the statistics.
GetState ==
  /\ HalfOpenDue
  /\ TransitionToHalfOpen
  /\ UNCHANGED <<calls, forced>>

\* execute() on an open breaker: the fallback or an error, nothing changes.
Refuse(c) ==
  /\ ~Running(c)
  /\ state = "open" /\ ~HalfOpenDue
  /\ UNCHANGED vars

\* execute() lets the operation start; in the half-open state it does so for
\* every call.
Execute(c) ==
  /\ ~Running(c)
  /\ \/ /\ HalfOpenDue
        /\ TransitionToHalfOpen
     \/ /\ state # "open"
        /\ UNCHANGED <<state, failures, coolDown, openFor>>
  /\ calls' = [calls EXCEPT ![c] = state']
  /\ UNCHANGED forced

\* onSuccess(): any success closes a half-open breaker.
Succeed(c) ==
  /\ Running(c)
  /\ calls' = [calls EXCEPT ![c] = "none"]
  /\ \/ state = "half_open" /\ TransitionToClosed
     \/ state # "half_open" /\ UNCHANGED <<state, failures, coolDown, openFor>>
  /\ UNCHANGED forced

\* onFailure() of an error that isFailure() counts.
Fail(c) ==
  /\ Running(c)
  /\ calls' = [calls EXCEPT ![c] = "none"]
  /\ failures' = failures + 1
  /\ \/ state = "half_open" /\ TransitionToOpen
     \/ state = "closed" /\ failures + 1 >= Threshold /\ TransitionToOpen
     \/ /\ state = "open" \/ (state = "closed" /\ failures + 1 < Threshold)
        /\ UNCHANGED <<state, coolDown, openFor>>
  /\ UNCHANGED forced

\* onFailure() of an error that it does not count.
FailUncounted(c) ==
  /\ Running(c)
  /\ calls' = [calls EXCEPT ![c] = "none"]
  /\ UNCHANGED <<state, failures, coolDown, openFor, forced>>

ForceOpen ==
  /\ forced < MaxForced
  /\ forced' = forced + 1
  /\ TransitionToOpen
  /\ UNCHANGED <<failures, calls>>

\* forceClosed() and reset() differ in the statistics only.
ForceClosed ==
  /\ TransitionToClosed
  /\ UNCHANGED <<calls, forced>>

Tick ==
  /\ state = "open" /\ openFor < ResetTimeout
  /\ coolDown' = IF coolDown = 0 THEN 0 ELSE coolDown - 1
  /\ openFor' = openFor + 1
  /\ UNCHANGED <<state, failures, calls, forced>>

Next ==
  \/ \E c \in Calls : \/ Refuse(c) \/ Execute(c)
                      \/ Succeed(c) \/ Fail(c) \/ FailUncounted(c)
  \/ GetState \/ ForceOpen \/ ForceClosed \/ Tick

\* Time passes, callers come back to an open breaker and operations settle.
Fairness ==
  /\ WF_vars(Tick)
  /\ \A c \in Calls : /\ WF_vars(state = "open" /\ Execute(c))
                      /\ WF_vars(Succeed(c) \/ Fail(c) \/ FailUncounted(c))

Spec == Init /\ [][Next]_vars /\ Fairness

-----------------------------------------------------------------------------
TypeOK ==
  /\ state \in States
  /\ failures \in 0..(Threshold + Cardinality(Calls))
  /\ coolDown \in 0..ResetTimeout
  /\ calls \in [Calls -> {"none", "closed", "half_open"}]
  /\ openFor \in 0..ResetTimeout
  /\ forced \in 0..MaxForced

\* A closed breaker is below its threshold and a half-open one starts from
\* nothing, whatever late failures were counted while it was open: failures
\* that belong to an earlier period never open it again.
FailuresOfThisPeriod ==
  /\ state = "closed" => failures < Threshold
  /\ state = "half_open" => failures = 0

\* The breaker is open for exactly the reset timeout, unless it is forced: a
\* late success of a call that was let through before does not close it early,
\* and late failures do not keep it open for longer.
OpenForResetTimeout ==
  [][state = "open" =>
       \/ state' = "open" /\ (openFor' >= openFor \/ ForceOpen)
       \/ state' # "open" /\ (openFor = ResetTimeout \/ ForceClosed)]_vars

\* As long as callers come and time passes, an open breaker lets a call
\* through in the end.
Recovers == (state = "open") ~> (state # "open")
=============================================================================
