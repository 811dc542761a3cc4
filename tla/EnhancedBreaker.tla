-------------------------- MODULE EnhancedBreaker --------------------------
(***************************************************************************)
(* The CircuitBreaker class of packages/circuit-breaker.  It leaves the    *)
(* open state by a timer: every transition to Open arms one, also when the *)
(* breaker is open already (a late failure), and reset() clears only the   *)
(* one that was armed last.  All timers run equally long, so they fire in  *)
(* the order in which they were armed; each is kept as the ticks left.     *)
(*                                                                         *)
(* failureCount is only compared with the threshold, so it is kept up to   *)
(* there.  Dates, events and the total of successes are left out.          *)
(***************************************************************************)
EXTENDS Naturals, Sequences, FiniteSets

CONSTANTS Calls,             \* the activities that call execute()
          FailureThreshold,
          HalfOpenAttempts,
          ResetTimeout,      \* in ticks
          MaxTimers          \* bound: how many timers are pending at once

\* The options that a breaker is made with.
OptionsOK ==
  /\ FailureThreshold \in Nat \ {0}
  /\ HalfOpenAttempts \in Nat \ {0}
  /\ ResetTimeout \in Nat \ {0}
  /\ MaxTimers \in Nat \ {0}

VARIABLES state,
          failureCount,
          halfOpenAttemptsCount,
          timers,      \* the ticks left of each pending timer, the oldest first
          newest,      \* openTimeoutId names the newest of them
          calls,       \* the state in which each running call was let through
          openFor      \* history: ticks since the breaker became open

vars == <<state, failureCount, halfOpenAttemptsCount, timers, newest, calls, openFor>>

States == {"closed", "open", "half_open"}
Running(c) == calls[c] # "none"
Counted(n) == IF n < FailureThreshold THEN n ELSE FailureThreshold

Init ==
  /\ state = "closed"
  /\ failureCount = 0
  /\ halfOpenAttemptsCount = 0
  /\ timers = <<>>
  /\ newest = FALSE
  /\ calls = [c \in Calls |-> "none"]
  /\ openFor = 0

-----------------------------------------------------------------------------
\* transitionTo(Open) arms a timer, whatever the state was.
TransitionToOpen ==
  /\ state' = "open"
  /\ openFor' = IF state = "open" THEN openFor ELSE 0
  /\ timers' = Append(timers, ResetTimeout)
  /\ newest' = TRUE

\* execute() is refused by an open breaker, and by a half-open one that has
\* counted enough attempts.
Refused ==
  \/ state = "open"
  \/ state = "half_open" /\ halfOpenAttemptsCount >= HalfOpenAttempts

Refuse(c) ==
  /\ ~Running(c)
  /\ Refused
  /\ UNCHANGED vars

Execute(c) ==
  /\ ~Running(c)
  /\ ~Refused
  /\ calls' = [calls EXCEPT ![c] = state]
  /\ UNCHANGED <<state, failureCount, halfOpenAttemptsCount, timers, newest, openFor>>

\* onSuccess(): the attempts of a half-open breaker are counted only here.
Succeed(c) ==
  /\ Running(c)
  /\ calls' = [calls EXCEPT ![c] = "none"]
  /\ \/ /\ state = "half_open" /\ halfOpenAttemptsCount + 1 >= HalfOpenAttempts
        /\ state' = "closed"
        /\ failureCount' = 0
        /\ halfOpenAttemptsCount' = 0
     \/ /\ state = "half_open" /\ halfOpenAttemptsCount + 1 < HalfOpenAttempts
        /\ halfOpenAttemptsCount' = halfOpenAttemptsCount + 1
        /\ UNCHANGED <<state, failureCount>>
     \/ /\ state # "half_open"
        /\ UNCHANGED <<state, failureCount, halfOpenAttemptsCount>>
  /\ UNCHANGED <<timers, newest, openFor>>

\* onFailure(), for an error or the request timeout.
Fail(c) ==
  /\ Running(c)
  /\ Len(timers) < MaxTimers
  /\ calls' = [calls EXCEPT ![c] = "none"]
  /\ failureCount' = Counted(failureCount + 1)
  /\ \/ /\ state = "half_open"
        /\ TransitionToOpen
        /\ halfOpenAttemptsCount' = 0
     \/ /\ state # "half_open" /\ failureCount + 1 >= FailureThreshold
        /\ TransitionToOpen
        /\ UNCHANGED halfOpenAttemptsCount
     \/ /\ state # "half_open" /\ failureCount + 1 < FailureThreshold
        /\ UNCHANGED <<state, halfOpenAttemptsCount, timers, newest, openFor>>

\* The callback of the oldest timer, which may stand for an earlier opening.
Fire ==
  /\ timers # <<>> /\ Head(timers) = 0
  /\ timers' = Tail(timers)
  /\ newest' = (newest /\ Len(timers) > 1)
  /\ state' = IF state = "open" THEN "half_open" ELSE state
  /\ UNCHANGED <<failureCount, halfOpenAttemptsCount, calls, openFor>>

\* reset()
Reset ==
  /\ state' = "closed"
  /\ failureCount' = 0
  /\ halfOpenAttemptsCount' = 0
  /\ timers' = IF newest THEN SubSeq(timers, 1, Len(timers) - 1) ELSE timers
  /\ newest' = FALSE
  /\ UNCHANGED <<calls, openFor>>

\* Time passes up to the moment at which a timer is due.
Tick ==
  /\ timers # <<>>
  /\ \A i \in DOMAIN timers : timers[i] > 0
  /\ timers' = [i \in DOMAIN timers |-> timers[i] - 1]
  /\ openFor' = IF state = "open" /\ openFor < ResetTimeout THEN openFor + 1 ELSE openFor
  /\ UNCHANGED <<state, failureCount, halfOpenAttemptsCount, newest, calls>>

Next ==
  \/ \E c \in Calls : Refuse(c) \/ Execute(c) \/ Succeed(c) \/ Fail(c)
  \/ Fire \/ Reset \/ Tick

\* Time passes and due timers fire; nothing is assumed of the callers.
Fairness == WF_vars(Tick) /\ WF_vars(Fire)

Spec == Init /\ [][Next]_vars /\ Fairness

-----------------------------------------------------------------------------
TypeOK ==
  /\ state \in States
  /\ failureCount \in 0..FailureThreshold
  /\ halfOpenAttemptsCount \in 0..HalfOpenAttempts
  /\ timers \in Seq(0..ResetTimeout) /\ Len(timers) <= MaxTimers
  /\ newest \in BOOLEAN /\ (newest => timers # <<>>)
  /\ calls \in [Calls -> {"none", "closed", "half_open"}]
  /\ openFor \in 0..ResetTimeout

\* An open breaker always has a timer that will half-open it, although timers
\* of earlier openings fire in between and reset() clears one.
OpenHasTimer == state = "open" => timers # <<>>

\* A closed breaker is below its threshold, and only a half-open one has
\* counted attempts.  How many calls a half-open breaker lets through at once
\* is not claimed: only successes are counted, so it refuses none of them.
CountsOfThisState ==
  /\ state = "closed" => failureCount < FailureThreshold
  /\ halfOpenAttemptsCount # 0 => state = "half_open"

\* Timers and counts belong to the state the breaker is in, whatever stale
\* timers and results came before.
FitForState == OpenHasTimer /\ CountsOfThisState

\* An open breaker becomes half-open by a timer and closed by reset() only,
\* never by the late result of a call; a timer touches no other state.
LeavesOpenByTimerOrReset ==
  [][/\ state = "open" /\ state' # "open" => Fire \/ Reset
     /\ state' = "half_open" /\ state # "half_open" => state = "open"]_vars

\* The open state ends, without any help from the callers.
Recovers == (state = "open") ~> (state # "open")

\* What the documentation says of resetTimeout: it passes between opening and
\* half-opening.
FullResetTimeout ==
  [][(state = "open" /\ state' = "half_open") => openFor = ResetTimeout]_vars
=============================================================================
