------------------------------ MODULE Patterns ------------------------------
(***************************************************************************)
(* The classes that limit and guard what a service does, checked together: *)
(* the bulkhead of packages/resilience, the circuit breakers of            *)
(* packages/breaker and packages/circuit-breaker, the connection pool of   *)
(* packages/rpc, and the task queue and the worker pool of packages/worker.*)
(* They share nothing, so one of them is under test in each behaviour      *)
(* ("subject").                                                            *)
(***************************************************************************)
EXTENDS Naturals, FifoLemmas

CONSTANTS BulkheadCalls, MaxConcurrent, MaxQueued, DegradationThreshold, MaxForfeits,
          BreakerCalls, Threshold, ResetTimeout, MaxForced,
          EnhancedCalls, FailureThreshold, HalfOpenAttempts, MaxTimers,
          Clients, MinConnections, MaxConnections, MaxCreated,    \* connections
          QueueTasks, Limits,                                     \* task queue
          PoolTasks, Unclonable, None, PoolSize, MaxThreads       \* workers

VARIABLES subject,
          bulkheadRunning, queued, waitQueue, bulkheadState, callPhase, forfeited,
          state, failures, coolDown, calls, openFor, forced,
          enhancedState, failureCount, halfOpenAttemptsCount, timers, newest,
          enhancedCalls, enhancedOpenFor,
          conns, created, phase, conn, toInit, toAdd, open,
          concurrency, running, queue, taskPhase,
          workers, current, waiting, terminated, toStop, thread, posted, answer, crashed

Bh == INSTANCE Bulkhead WITH Calls <- BulkheadCalls, state <- bulkheadState,
        running <- bulkheadRunning, phase <- callPhase
Cb == INSTANCE CircuitBreaker WITH Calls <- BreakerCalls
Eb == INSTANCE EnhancedBreaker WITH Calls <- EnhancedCalls, state <- enhancedState,
        calls <- enhancedCalls, openFor <- enhancedOpenFor
Cp == INSTANCE ConnectionPool
Tq == INSTANCE TaskQueue WITH Tasks <- QueueTasks, phase <- taskPhase
Wp == INSTANCE WorkerPool WITH Tasks <- PoolTasks, queue <- waiting

ASSUME BulkheadAssumption == Bh!OptionsOK
ASSUME BreakerAssumption == Cb!ConfigOK
ASSUME EnhancedBreakerAssumption == Eb!OptionsOK
ASSUME ConnectionsAssumption == Cp!OptionsOK
ASSUME LimitsAssumption == Tq!LimitsOK
ASSUME WorkersAssumption == Wp!PoolOK

bulkheadVars == <<bulkheadRunning, queued, waitQueue, bulkheadState, callPhase, forfeited>>
breakerVars == <<state, failures, coolDown, calls, openFor, forced>>
enhancedVars == <<enhancedState, failureCount, halfOpenAttemptsCount, timers, newest,
                  enhancedCalls, enhancedOpenFor>>
connectionVars == <<conns, created, phase, conn, toInit, toAdd, open>>
queueVars == <<concurrency, running, queue, taskPhase>>
workerVars == <<workers, current, waiting, terminated, toStop, thread, posted, answer, crashed>>
vars == <<subject, bulkheadVars, breakerVars, enhancedVars, connectionVars, queueVars, workerVars>>

\* The limit of a task queue that is not under test does not matter.
Init ==
  /\ subject \in {"Bulkhead", "CircuitBreaker", "EnhancedBreaker",
                  "ConnectionPool", "TaskQueue", "WorkerPool"}
  /\ Bh!Init /\ Cb!Init /\ Eb!Init /\ Cp!Init /\ Tq!Init /\ Wp!Init
  /\ subject # "TaskQueue" => concurrency = CHOOSE limit \in Limits : TRUE

BulkheadStep ==
  /\ subject = "Bulkhead" /\ Bh!Next
  /\ UNCHANGED <<subject, breakerVars, enhancedVars, connectionVars, queueVars, workerVars>>

BreakerStep ==
  /\ subject = "CircuitBreaker" /\ Cb!Next
  /\ UNCHANGED <<subject, bulkheadVars, enhancedVars, connectionVars, queueVars, workerVars>>

EnhancedBreakerStep ==
  /\ subject = "EnhancedBreaker" /\ Eb!Next
  /\ UNCHANGED <<subject, bulkheadVars, breakerVars, connectionVars, queueVars, workerVars>>

ConnectionPoolStep ==
  /\ subject = "ConnectionPool" /\ Cp!Next
  /\ UNCHANGED <<subject, bulkheadVars, breakerVars, enhancedVars, queueVars, workerVars>>

TaskQueueStep ==
  /\ subject = "TaskQueue" /\ Tq!Next
  /\ UNCHANGED <<subject, bulkheadVars, breakerVars, enhancedVars, connectionVars, workerVars>>

WorkerPoolStep ==
  /\ subject = "WorkerPool" /\ Wp!Next
  /\ UNCHANGED <<subject, bulkheadVars, breakerVars, enhancedVars, connectionVars, queueVars>>

Next ==
  \/ BulkheadStep \/ BreakerStep \/ EnhancedBreakerStep
  \/ ConnectionPoolStep \/ TaskQueueStep \/ WorkerPoolStep

\* No fair action is enabled in an object that nobody has used, so the fairness
\* of each class only bears on the one under test.
Fairness ==
  Bh!Fairness /\ Cb!Fairness /\ Eb!Fairness /\ Tq!Fairness /\ Wp!Fairness

Spec == Init /\ [][Next]_vars /\ Fairness

-----------------------------------------------------------------------------
TypeOK ==
  Bh!TypeOK /\ Cb!TypeOK /\ Eb!TypeOK /\ Cp!TypeOK /\ Tq!TypeOK /\ Wp!TypeOK

\* Bulkhead: queued counts the calls that wait, running misses the executions by
\* exactly one for each wait that ended unserved, the published state tells what
\* running says, and no call waits while there is a place (execute, release).
\* ConnectionPool: a connection marked busy is in some client's hands, and the
\* limit is exceeded by what the two loops that do not ask for it may create, and
\* by no more.
PlacesAccounted ==
  /\ Bh!Accounted /\ Bh!NoIdlePlace
  /\ Cp!BusyMeansHeld /\ Cp!OvershootBounded

\* The breaker of packages/breaker opens by the failures of the present period
\* only (onFailure, transitionToHalfOpen); that of packages/circuit-breaker always
\* has a timer while open, and the counts of the state it is in (transitionTo, reset).
BreakersFit == Cb!FailuresOfThisPeriod /\ Eb!FitForState

\* The breaker of packages/breaker stays open for the reset timeout, neither
\* less nor more, whatever results arrive meanwhile; that of
\* packages/circuit-breaker leaves the open state by a timer or by reset() only,
\* and a stale timer touches no other state.  A connection of the pool that is closed
\* stays so: it is neither given nor taken back.
ClosedAsLongAsDue ==
  Cb!OpenForResetTimeout /\ Eb!LeavesOpenByTimerOrReset /\ Cp!ClosedForGood

\* TaskQueue._process: tasks are started in order, within the limit in force.
StartsAsItShould == Tq!StartsAsItShould

\* TaskQueue: the count and the queue agree with the tasks, and nothing waits
\* while there is room.  WorkerPool: the task on record for a thread is the one the
\* thread was given; each task is in one place, its promise agrees with that, and no
\* task waits while a worker is idle.
TasksAccounted == Tq!QueueAccounted /\ Wp!RepliesMatch /\ Wp!TasksAccounted

\* Nothing is refused or kept waiting for ever: waits in the bulkhead end even if
\* their timers do not fire, both breakers leave the open state, tasks that wait
\* are started or rejected, and those that a thread has are answered, with the
\* exceptions the code makes (WorkerPool.RunningAnswered).
EverythingEnds ==
  /\ Bh!WaitEnds /\ Cb!Recovers /\ Eb!Recovers
  /\ Tq!EveryTaskAnswered /\ Wp!WaitingEnds /\ Wp!RunningAnswered
-----------------------------------------------------------------------------
(* The breaker of packages/breaker.                                        *)

\* The instance counts as FiniteSets does.
LEMMA BreakerCounts ==
  ASSUME NEW S PROVE Cb!Cardinality(S) = Cardinality(S) /\ Cb!IsFiniteSet(S) = IsFiniteSet(S)
<1>1. Cb!Cardinality(S) = Cardinality(S)
  BY DEF Cb!Cardinality, Cardinality
<1>2. Cb!IsFiniteSet(S) = IsFiniteSet(S)
  BY DEF Cb!IsFiniteSet, IsFiniteSet
<1> QED
  BY <1>1, <1>2

BreakerRunning == {c \in BreakerCalls : calls[c] # "none"}

\* While it is open the failures are bounded by the calls that can still fail, and
\* the time it has been open by what is left of the reset timeout.
BreakerInv ==
  /\ state \in Cb!States /\ failures \in Nat
  /\ coolDown \in 0 .. ResetTimeout /\ openFor \in 0 .. ResetTimeout
  /\ calls \in [BreakerCalls -> {"none", "closed", "half_open"}]
  /\ forced \in 0 .. MaxForced
  /\ Cb!FailuresOfThisPeriod
  /\ state = "open" =>
       /\ coolDown + openFor = ResetTimeout
       /\ failures + Cardinality(BreakerRunning) <= Threshold + Cardinality(BreakerCalls)

LEMMA BreakerConstants ==
  /\ IsFiniteSet(BreakerCalls) /\ Cardinality(BreakerCalls) \in Nat
  /\ Threshold \in Nat \ {0} /\ ResetTimeout \in Nat \ {0} /\ MaxForced \in Nat
<1>1. /\ IsFiniteSet(BreakerCalls)
      /\ Threshold \in Nat \ {0} /\ ResetTimeout \in Nat \ {0} /\ MaxForced \in Nat
  BY BreakerAssumption, BreakerCounts DEF Cb!ConfigOK
<1> QED
  BY <1>1, FS_CardinalityType

LEMMA BreakerRunningCounts ==
  /\ IsFiniteSet(BreakerRunning) /\ Cardinality(BreakerRunning) \in Nat
  /\ Cardinality(BreakerRunning) <= Cardinality(BreakerCalls)
<1>1. BreakerRunning \in SUBSET BreakerCalls
  BY DEF BreakerRunning
<1> QED
  BY <1>1, BreakerConstants, FS_Subset, FS_CardinalityType

\* A call that settles is one less that runs.
LEMMA BreakerSettles ==
  ASSUME NEW c \in BreakerCalls, BreakerInv, Cb!Running(c), calls' = [calls EXCEPT ![c] = "none"]
  PROVE  Cardinality(BreakerRunning)' = Cardinality(BreakerRunning) - 1
<1>1. c \in BreakerRunning /\ BreakerRunning' = BreakerRunning \ {c}
  BY DEF BreakerInv, BreakerRunning, Cb!Running
<1> QED
  BY <1>1, BreakerRunningCounts, FS_RemoveElement

LEMMA BreakerRunningCountsAfter ==
  /\ Cardinality(BreakerRunning)' \in Nat
  /\ Cardinality(BreakerRunning)' <= Cardinality(BreakerCalls)
<1>1. BreakerRunning' \in SUBSET BreakerCalls
  BY DEF BreakerRunning
<1> QED
  BY <1>1, BreakerConstants, FS_Subset, FS_CardinalityType

LEMMA BreakerInit == Cb!Init => BreakerInv
<1> SUFFICES ASSUME Cb!Init PROVE BreakerInv
  OBVIOUS
<1> QED
  BY BreakerConstants DEF Cb!Init, BreakerInv, Cb!States, Cb!FailuresOfThisPeriod

LEMMA BreakerNext == BreakerInv /\ [Cb!Next]_(Cb!vars) => BreakerInv'
<1> SUFFICES ASSUME BreakerInv, [Cb!Next]_(Cb!vars) PROVE BreakerInv'
  OBVIOUS
<1> USE BreakerConstants DEF BreakerInv, Cb!FailuresOfThisPeriod, Cb!States
<1>1. CASE UNCHANGED Cb!vars
  BY <1>1 DEF Cb!vars, BreakerRunning
<1>2. CASE Cb!GetState
  BY <1>2 DEF Cb!GetState, Cb!TransitionToHalfOpen
<1>3. CASE Cb!ForceOpen
  <2>1. failures + Cardinality(BreakerRunning)' <= Threshold + Cardinality(BreakerCalls)
    <3>1. CASE state = "open"
      BY <1>3, <3>1 DEF Cb!ForceOpen, BreakerRunning
    <3>2. CASE state # "open"
      BY <3>2, BreakerRunningCountsAfter
    <3> QED
      BY <3>1, <3>2
  <2> QED
    BY <1>3, <2>1 DEF Cb!ForceOpen, Cb!TransitionToOpen
<1>4. CASE Cb!ForceClosed
  BY <1>4 DEF Cb!ForceClosed, Cb!TransitionToClosed
<1>5. CASE Cb!Tick
  BY <1>5 DEF Cb!Tick, BreakerRunning
<1>6. ASSUME NEW c \in BreakerCalls, Cb!Refuse(c) PROVE BreakerInv'
  BY <1>6 DEF Cb!Refuse, Cb!vars, BreakerRunning
<1>7. ASSUME NEW c \in BreakerCalls, Cb!Execute(c) PROVE BreakerInv'
  BY <1>7 DEF Cb!Execute, Cb!TransitionToHalfOpen
<1>8. ASSUME NEW c \in BreakerCalls, Cb!Succeed(c) PROVE BreakerInv'
  <2>1. Cardinality(BreakerRunning)' = Cardinality(BreakerRunning) - 1
    BY <1>8, BreakerSettles DEF Cb!Succeed
  <2> QED
    BY <1>8, <2>1, BreakerRunningCounts DEF Cb!Succeed, Cb!TransitionToClosed
<1>9. ASSUME NEW c \in BreakerCalls, Cb!Fail(c) PROVE BreakerInv'
  <2>1. Cardinality(BreakerRunning)' = Cardinality(BreakerRunning) - 1
    BY <1>9, BreakerSettles DEF Cb!Fail
  <2> QED
    BY <1>9, <2>1, BreakerRunningCounts DEF Cb!Fail, Cb!TransitionToOpen
<1>10. ASSUME NEW c \in BreakerCalls, Cb!FailUncounted(c) PROVE BreakerInv'
  <2>1. Cardinality(BreakerRunning)' = Cardinality(BreakerRunning) - 1
    BY <1>10, BreakerSettles DEF Cb!FailUncounted
  <2> QED
    BY <1>10, <2>1, BreakerRunningCounts DEF Cb!FailUncounted
<1> QED
  BY <1>1, <1>2, <1>3, <1>4, <1>5, <1>6, <1>7, <1>8, <1>9, <1>10 DEF Cb!Next

LEMMA BreakerTypes == BreakerInv => Cb!TypeOK
<1> SUFFICES ASSUME BreakerInv PROVE Cb!TypeOK
  OBVIOUS
<1>1. failures <= Threshold + Cardinality(BreakerCalls)
  BY BreakerConstants, BreakerRunningCounts DEF BreakerInv, Cb!States, Cb!FailuresOfThisPeriod
<1> QED
  BY <1>1, BreakerConstants, BreakerCounts DEF BreakerInv, Cb!TypeOK

\* What a step may do to an open breaker.
LEMMA BreakerOpenSteps ==
  BreakerInv /\ [Cb!Next]_(Cb!vars) =>
    [state = "open" =>
       \/ state' = "open" /\ (openFor' >= openFor \/ Cb!ForceOpen)
       \/ state' # "open" /\ (openFor = ResetTimeout \/ Cb!ForceClosed)]_(Cb!vars)
<1> DEFINE Allowed == \/ state' = "open" /\ (openFor' >= openFor \/ Cb!ForceOpen)
                      \/ state' # "open" /\ (openFor = ResetTimeout \/ Cb!ForceClosed)
<1> SUFFICES ASSUME BreakerInv, Cb!Next, state = "open" PROVE Allowed
  OBVIOUS
<1> USE BreakerConstants
<1>1. coolDown = 0 => openFor = ResetTimeout
  BY DEF BreakerInv
<1>2. openFor \in Nat
  BY DEF BreakerInv
<1>3. ASSUME NEW c \in BreakerCalls,
             Cb!Refuse(c) \/ Cb!Execute(c) \/ Cb!Succeed(c) \/ Cb!Fail(c) \/ Cb!FailUncounted(c)
      PROVE  Allowed
  BY <1>1, <1>2, <1>3
     DEF Cb!Refuse, Cb!Execute, Cb!Succeed, Cb!Fail, Cb!FailUncounted, Cb!HalfOpenDue,
         Cb!TransitionToHalfOpen, Cb!vars
<1>7. CASE Cb!GetState
  BY <1>1, <1>7 DEF Cb!GetState, Cb!HalfOpenDue, Cb!TransitionToHalfOpen
<1>4. CASE Cb!ForceOpen
  BY <1>4 DEF Cb!ForceOpen, Cb!TransitionToOpen
<1>5. CASE Cb!ForceClosed
  BY <1>5 DEF Cb!ForceClosed, Cb!TransitionToClosed
<1>6. CASE Cb!Tick
  BY <1>2, <1>6 DEF Cb!Tick
<1> HIDE DEF Allowed
<1> QED
  BY <1>3, <1>4, <1>5, <1>6, <1>7 DEF Cb!Next

-----------------------------------------------------------------------------
(* The breaker of packages/circuit-breaker: its types and its counts are   *)
(* inductive as they stand.                                                *)

EnhancedTypes ==
  /\ enhancedState \in Eb!States
  /\ failureCount \in 0 .. FailureThreshold
  /\ halfOpenAttemptsCount \in 0 .. HalfOpenAttempts
  /\ timers \in Seq(0 .. ResetTimeout) /\ Len(timers) <= MaxTimers
  /\ enhancedCalls \in [EnhancedCalls -> {"none", "closed", "half_open"}]
  /\ enhancedOpenFor \in 0 .. ResetTimeout

NewestIsThere == newest \in BOOLEAN /\ (newest => timers # <<>>)

EnhancedInv == EnhancedTypes /\ NewestIsThere /\ Eb!FitForState

LEMMA EnhancedInvImplies == EnhancedInv => Eb!TypeOK /\ Eb!FitForState
BY DEF EnhancedInv, EnhancedTypes, NewestIsThere, Eb!TypeOK

LEMMA EnhancedConstants ==
  /\ FailureThreshold \in Nat \ {0} /\ HalfOpenAttempts \in Nat \ {0}
  /\ ResetTimeout \in Nat \ {0} /\ MaxTimers \in Nat \ {0}
BY EnhancedBreakerAssumption DEF Eb!OptionsOK

LEMMA EnhancedInit == Eb!Init => EnhancedInv
<1> SUFFICES ASSUME Eb!Init PROVE EnhancedInv
  OBVIOUS
<1>1. timers \in Seq(0 .. ResetTimeout) /\ Len(timers) = 0 /\ enhancedState = "closed"
  BY EmptySeq DEF Eb!Init
<1>2. NewestIsThere
  BY DEF Eb!Init, NewestIsThere
<1>3. EnhancedTypes
  BY <1>1, EnhancedConstants DEF Eb!Init, EnhancedTypes, Eb!States
<1>4. Eb!FitForState
  BY EnhancedConstants DEF Eb!Init, Eb!FitForState, Eb!OpenHasTimer, Eb!CountsOfThisState
<1> QED
  BY <1>2, <1>3, <1>4 DEF EnhancedInv

\* A timer is added at the end of those that are pending.
LEMMA TimerArmed ==
  ASSUME EnhancedTypes, Len(timers) < MaxTimers, Eb!TransitionToOpen
  PROVE  /\ timers' \in Seq(0 .. ResetTimeout) /\ Len(timers') <= MaxTimers /\ timers' # <<>>
         /\ enhancedState' = "open" /\ newest' = TRUE /\ enhancedOpenFor' \in 0 .. ResetTimeout
<1>1. timers \in Seq(0 .. ResetTimeout) /\ enhancedOpenFor \in 0 .. ResetTimeout
  BY DEF EnhancedTypes
<1>2. ResetTimeout \in 0 .. ResetTimeout /\ 0 \in 0 .. ResetTimeout
  BY EnhancedConstants
<1>3. timers' = Append(timers, ResetTimeout) /\ enhancedState' = "open" /\ newest' = TRUE
      /\ enhancedOpenFor' \in 0 .. ResetTimeout
  BY <1>1, <1>2 DEF Eb!TransitionToOpen
<1>4. timers' \in Seq(0 .. ResetTimeout) /\ Len(timers') = Len(timers) + 1 /\ Len(timers) \in Nat
  BY <1>1, <1>2, <1>3, AppendProperties, LenProperties
<1>5. timers' # <<>>
  BY <1>4, EmptySeq
<1> QED
  BY <1>3, <1>4, <1>5, EnhancedConstants

LEMMA EnhancedNext == EnhancedInv /\ [Eb!Next]_(Eb!vars) => EnhancedInv'
<1> SUFFICES ASSUME EnhancedTypes, NewestIsThere, Eb!FitForState, [Eb!Next]_(Eb!vars)
             PROVE  EnhancedTypes' /\ NewestIsThere' /\ Eb!FitForState'
  BY DEF EnhancedInv
<1> USE EnhancedConstants
<1>0. /\ timers \in Seq(0 .. ResetTimeout) /\ Len(timers) \in Nat /\ Len(timers) <= MaxTimers
      /\ timers # <<>> => Len(timers) > 0
  BY LenProperties, EmptySeq DEF EnhancedTypes
<1>1. CASE UNCHANGED Eb!vars
  BY <1>1 DEF Eb!vars, EnhancedTypes, NewestIsThere, Eb!FitForState, Eb!OpenHasTimer, Eb!CountsOfThisState
<1>2. ASSUME NEW c \in EnhancedCalls, Eb!Refuse(c) \/ Eb!Execute(c) \/ Eb!Succeed(c)
      PROVE  EnhancedTypes' /\ NewestIsThere' /\ Eb!FitForState'
  <2>1. UNCHANGED <<timers, newest, enhancedOpenFor>>
    BY <1>2 DEF Eb!Refuse, Eb!Execute, Eb!Succeed, Eb!vars
  <2>2. NewestIsThere'
    BY <2>1 DEF NewestIsThere
  <2>3. EnhancedTypes' /\ Eb!FitForState'
    BY <1>2, <2>1 DEF Eb!Refuse, Eb!Execute, Eb!Succeed, Eb!Refused, Eb!vars, EnhancedTypes, Eb!States,
                      Eb!FitForState, Eb!OpenHasTimer, Eb!CountsOfThisState
  <2> QED
    BY <2>2, <2>3
<1>3. ASSUME NEW c \in EnhancedCalls, Eb!Fail(c)
      PROVE  EnhancedTypes' /\ NewestIsThere' /\ Eb!FitForState'
  <2>1. /\ enhancedCalls' = [enhancedCalls EXCEPT ![c] = "none"]
        /\ failureCount' \in 0 .. FailureThreshold
    BY <1>3 DEF Eb!Fail, Eb!Counted, EnhancedTypes
  <2>2. CASE Eb!TransitionToOpen
    <3>1. /\ timers' \in Seq(0 .. ResetTimeout) /\ Len(timers') <= MaxTimers /\ timers' # <<>>
          /\ enhancedState' = "open" /\ newest' = TRUE /\ enhancedOpenFor' \in 0 .. ResetTimeout
      BY <1>3, <2>2, TimerArmed DEF Eb!Fail
    <3>2. halfOpenAttemptsCount' = 0
      BY <1>3, <3>1 DEF Eb!Fail, Eb!FitForState, Eb!CountsOfThisState
    <3>3. EnhancedTypes' /\ Eb!FitForState'
      BY <2>1, <3>1, <3>2 DEF EnhancedTypes, Eb!States, Eb!FitForState, Eb!OpenHasTimer, Eb!CountsOfThisState
    <3>4. NewestIsThere'
      BY <3>1 DEF NewestIsThere
    <3> QED
      BY <3>3, <3>4
  <2>3. CASE ~Eb!TransitionToOpen
    <3>1. /\ UNCHANGED <<enhancedState, halfOpenAttemptsCount, timers, newest, enhancedOpenFor>>
          /\ failureCount + 1 < FailureThreshold /\ enhancedState # "half_open"
          /\ failureCount' = failureCount + 1
      BY <1>3, <2>3 DEF Eb!Fail, Eb!Counted
    <3>2. EnhancedTypes' /\ Eb!FitForState'
      BY <2>1, <3>1 DEF EnhancedTypes, Eb!States, Eb!FitForState, Eb!OpenHasTimer, Eb!CountsOfThisState
    <3>3. NewestIsThere'
      BY <3>1 DEF NewestIsThere
    <3> QED
      BY <3>2, <3>3
  <2> QED
    BY <2>2, <2>3
<1>4. CASE Eb!Fire
  <2>1. /\ Tail(timers) \in Seq(0 .. ResetTimeout) /\ Len(Tail(timers)) = Len(timers) - 1
    BY <1>0, <1>4, HeadTailProperties DEF Eb!Fire
  <2>2. ASSUME Len(timers) > 1 PROVE Tail(timers) # <<>>
    <3>1. Len(Tail(timers)) # 0
      BY <1>0, <2>1, <2>2
    <3> QED
      BY <3>1, EmptySeq
  <2>3. NewestIsThere'
    <3>1. timers' = Tail(timers) /\ newest' = (newest /\ Len(timers) > 1)
      BY <1>4 DEF Eb!Fire
    <3> QED
      BY <2>2, <3>1 DEF NewestIsThere
  <2>4. /\ timers' \in Seq(0 .. ResetTimeout) /\ Len(timers') <= MaxTimers
    BY <1>0, <1>4, <2>1 DEF Eb!Fire
  <2>5. /\ enhancedState' = IF enhancedState = "open" THEN "half_open" ELSE enhancedState
        /\ UNCHANGED <<failureCount, halfOpenAttemptsCount, enhancedCalls, enhancedOpenFor>>
    BY <1>4 DEF Eb!Fire
  <2>6. EnhancedTypes' /\ Eb!FitForState'
    BY <2>4, <2>5 DEF EnhancedTypes, Eb!States, Eb!FitForState, Eb!OpenHasTimer, Eb!CountsOfThisState
  <2> QED
    BY <2>3, <2>6
<1>5. CASE Eb!Reset
  <2>1. newest => SubSeq(timers, 1, Len(timers) - 1) \in Seq(0 .. ResetTimeout)
                  /\ Len(SubSeq(timers, 1, Len(timers) - 1)) = Len(timers) - 1
    <3> SUFFICES ASSUME newest
                 PROVE  /\ SubSeq(timers, 1, Len(timers) - 1) \in Seq(0 .. ResetTimeout)
                        /\ Len(SubSeq(timers, 1, Len(timers) - 1)) = Len(timers) - 1
      OBVIOUS
    <3>1. Len(timers) - 1 \in Int /\ Len(timers) > 0
      BY <1>0 DEF NewestIsThere
    <3>2. \A i \in 1 .. Len(timers) - 1 : timers[i] \in 0 .. ResetTimeout
      BY <1>0, ElementOfSeq
    <3>3. /\ SubSeq(timers, 1, Len(timers) - 1) \in Seq(0 .. ResetTimeout)
          /\ Len(SubSeq(timers, 1, Len(timers) - 1)) =
               IF 1 <= Len(timers) - 1 THEN Len(timers) - 1 - 1 + 1 ELSE 0
      BY <3>1, <3>2, SubSeqProperties
    <3>4. \A n \in Nat : n > 0 => (IF 1 <= n - 1 THEN n - 1 - 1 + 1 ELSE 0) = n - 1
      OBVIOUS
    <3> QED
      BY <1>0, <3>1, <3>3, <3>4
  <2>2. timers' \in Seq(0 .. ResetTimeout) /\ Len(timers') <= MaxTimers
    <3>1. CASE newest
      BY <1>0, <1>5, <2>1, <3>1 DEF Eb!Reset
    <3>2. CASE ~newest
      BY <1>0, <1>5, <3>2 DEF Eb!Reset
    <3> QED
      BY <3>1, <3>2
  <2>3. /\ enhancedState' = "closed" /\ failureCount' = 0 /\ halfOpenAttemptsCount' = 0 /\ newest' = FALSE
        /\ UNCHANGED <<enhancedCalls, enhancedOpenFor>>
    BY <1>5 DEF Eb!Reset
  <2>4. EnhancedTypes' /\ Eb!FitForState'
    BY <2>2, <2>3 DEF EnhancedTypes, Eb!States, Eb!FitForState, Eb!OpenHasTimer, Eb!CountsOfThisState
  <2>5. NewestIsThere'
    BY <2>3 DEF NewestIsThere
  <2> QED
    BY <2>4, <2>5
<1>6. CASE Eb!Tick
  <2>1. /\ timers' = [i \in 1 .. Len(timers) |-> timers[i] - 1]
        /\ \A i \in 1 .. Len(timers) : timers[i] - 1 \in 0 .. ResetTimeout
    BY <1>0, <1>6, LenProperties, ElementOfSeq DEF Eb!Tick
  <2>2. timers' \in Seq(0 .. ResetTimeout) /\ Len(timers') = Len(timers)
    BY <1>0, <2>1, IsASeq, LenProperties
  <2>3. timers' # <<>>
    BY <1>0, <1>6, <2>2, EmptySeq DEF Eb!Tick
  <2>4. /\ enhancedOpenFor' \in 0 .. ResetTimeout
        /\ UNCHANGED <<enhancedState, failureCount, halfOpenAttemptsCount, newest, enhancedCalls>>
    BY <1>6 DEF Eb!Tick, EnhancedTypes
  <2>5. EnhancedTypes' /\ Eb!FitForState'
    BY <1>0, <2>2, <2>3, <2>4 DEF EnhancedTypes, Eb!FitForState, Eb!OpenHasTimer, Eb!CountsOfThisState
  <2>6. NewestIsThere'
    BY <2>3, <2>4 DEF NewestIsThere
  <2> QED
    BY <2>5, <2>6
<1> QED
  BY <1>1, <1>2, <1>3, <1>4, <1>5, <1>6 DEF Eb!Next

LEMMA EnhancedOpenSteps ==
  EnhancedInv /\ [Eb!Next]_(Eb!vars) =>
    [/\ enhancedState = "open" /\ enhancedState' # "open" => Eb!Fire \/ Eb!Reset
     /\ enhancedState' = "half_open" /\ enhancedState # "half_open" => enhancedState = "open"]_(Eb!vars)
BY DEF Eb!Next, Eb!Refuse, Eb!Execute, Eb!Succeed, Eb!Fail, Eb!TransitionToOpen, Eb!Fire, Eb!Reset,
       Eb!Tick, Eb!vars, EnhancedInv, EnhancedTypes, Eb!States

-----------------------------------------------------------------------------
(* The connection pool.                                                    *)

LEMMA ConnectionCounts ==
  ASSUME NEW S PROVE Cp!Cardinality(S) = Cardinality(S)
BY DEF Cp!Cardinality, Cardinality

\* The first of some connections is one of them.
LEMMA FirstConnection ==
  ASSUME NEW S \in SUBSET Nat, S # {}
  PROVE  Cp!Min(S) \in S /\ \A i \in S : Cp!Min(S) <= i
BY Smallest DEF Cp!Min

\* The types, with what the two loops may have left to create below what TypeOK says,
\* which is what the bound on the size rests on.
PoolTypes ==
  /\ Cp!TypeOK
  /\ toInit <= MinConnections - 1 /\ toAdd <= MaxConnections - 1

PoolInv == PoolTypes /\ Cp!BusyMeansHeld /\ Cp!OvershootBounded

LEMMA PoolConstants ==
  /\ MinConnections \in Nat \ {0} /\ MaxConnections \in Nat \ {0} /\ MaxCreated \in Nat \ {0}
BY ConnectionsAssumption DEF Cp!OptionsOK

\* The size is a number, and closing connections never raises it.
LEMMA SizeCounts ==
  /\ IsFiniteSet(Cp!Present) /\ Cp!Size = Cardinality(Cp!Present) /\ Cp!Size \in Nat
  /\ Cp!Present \subseteq 1 .. MaxCreated /\ Cp!Idle \subseteq Cp!Present
<1>1. Cp!Present \in SUBSET (1 .. MaxCreated) /\ Cp!Idle \subseteq Cp!Present
  BY DEF Cp!Present, Cp!Idle, Cp!InState, Cp!Ids
<1>2. IsFiniteSet(1 .. MaxCreated)
  BY PoolConstants, FS_Interval
<1>3. Cp!Size = Cardinality(Cp!Present)
  BY ConnectionCounts DEF Cp!Size
<1> QED
  BY <1>1, <1>2, <1>3, FS_Subset, FS_CardinalityType

LEMMA SizeCountsAfter ==
  /\ IsFiniteSet(Cp!Present') /\ Cp!Size' = Cardinality(Cp!Present') /\ Cp!Size' \in Nat
<1>1. Cp!Present' \in SUBSET (1 .. MaxCreated)
  BY DEF Cp!Present, Cp!InState, Cp!Ids
<1>2. IsFiniteSet(1 .. MaxCreated)
  BY PoolConstants, FS_Interval
<1>3. Cp!Size' = Cardinality(Cp!Present')
  BY ConnectionCounts DEF Cp!Size
<1> QED
  BY <1>1, <1>2, <1>3, FS_Subset, FS_CardinalityType

LEMMA ConnectionsInit == Cp!Init => PoolInv
<1> SUFFICES ASSUME Cp!Init PROVE PoolInv
  OBVIOUS
<1> USE PoolConstants
<1>1. Cp!Present = {1} /\ 1 \in 1 .. MaxCreated
  BY DEF Cp!Init, Cp!Present, Cp!InState, Cp!Ids
<1>2. Cp!Size = 1
  BY <1>1, SizeCounts, FS_Singleton
<1>3. PoolTypes
  BY <1>1 DEF Cp!Init, PoolTypes, Cp!TypeOK, Cp!Ids
<1>4. Cp!BusyMeansHeld
  BY DEF Cp!Init, Cp!BusyMeansHeld, Cp!InState, Cp!Ids
<1>5. Cp!OvershootBounded
  BY <1>2 DEF Cp!Init, Cp!OvershootBounded
<1> QED
  BY <1>3, <1>4, <1>5 DEF PoolInv

\* createConnection() adds a connection, idle, that nobody has had.
LEMMA Created ==
  ASSUME PoolTypes, Cp!Create
  PROVE  /\ created + 1 \in 1 .. MaxCreated /\ created' = created + 1
         /\ conns[created + 1] = "none"
         /\ conns' \in [1 .. MaxCreated -> {"none", "idle", "busy", "closed"}]
         /\ \A i \in 1 .. MaxCreated : conns'[i] = IF i = created + 1 THEN "idle" ELSE conns[i]
         /\ \A i \in 1 .. MaxCreated : conns'[i] = "none" <=> i > created'
         /\ Cp!Size' = Cp!Size + 1
<1>1. /\ created + 1 \in 1 .. MaxCreated /\ created' = created + 1
      /\ conns[created + 1] = "none"
      /\ conns' \in [1 .. MaxCreated -> {"none", "idle", "busy", "closed"}]
      /\ \A i \in 1 .. MaxCreated : conns'[i] = IF i = created + 1 THEN "idle" ELSE conns[i]
  BY PoolConstants DEF PoolTypes, Cp!TypeOK, Cp!Create, Cp!Ids
<1>2. \A i \in 1 .. MaxCreated : conns'[i] = "none" <=> i > created'
  BY <1>1, PoolConstants DEF PoolTypes, Cp!TypeOK, Cp!Ids
<1>3. Cp!Present' = Cp!Present \cup {created + 1} /\ created + 1 \notin Cp!Present
  BY <1>1 DEF Cp!Present, Cp!InState, Cp!Ids
<1>4. Cp!Size' = Cp!Size + 1
  BY <1>3, SizeCounts, SizeCountsAfter, FS_AddElement
<1> QED
  BY <1>1, <1>2, <1>4

\* Closing connections takes them away and changes nothing else.
LEMMA Closed ==
  ASSUME PoolTypes, NEW ids \in SUBSET Cp!Present, Cp!CloseAll(ids)
  PROVE  /\ conns' \in [1 .. MaxCreated -> {"none", "idle", "busy", "closed"}]
         /\ \A i \in 1 .. MaxCreated : conns'[i] = IF i \in ids THEN "closed" ELSE conns[i]
         /\ \A i \in 1 .. MaxCreated : conns'[i] = "none" <=> i > created
         /\ Cp!Size' <= Cp!Size
<1>1. /\ conns' \in [1 .. MaxCreated -> {"none", "idle", "busy", "closed"}]
      /\ \A i \in 1 .. MaxCreated : conns'[i] = IF i \in ids THEN "closed" ELSE conns[i]
  BY DEF PoolTypes, Cp!TypeOK, Cp!CloseAll, Cp!Ids
<1>2. \A i \in 1 .. MaxCreated : conns'[i] = "none" <=> i > created
  BY <1>1 DEF PoolTypes, Cp!TypeOK, Cp!Ids, Cp!Present, Cp!InState
<1>3. Cp!Present' \in SUBSET Cp!Present
  BY <1>1 DEF Cp!Present, Cp!InState, Cp!Ids
<1>4. Cp!Size' <= Cp!Size
  BY <1>3, SizeCounts, SizeCountsAfter, FS_Subset
<1> QED
  BY <1>1, <1>2, <1>4

\* A connection that is there changes its state to idle or busy and stays there.
LEMMA Marked ==
  ASSUME PoolTypes, NEW i \in Cp!Present, NEW mark \in {"idle", "busy"},
         conns' = [conns EXCEPT ![i] = mark]
  PROVE  /\ conns' \in [1 .. MaxCreated -> {"none", "idle", "busy", "closed"}]
         /\ \A j \in 1 .. MaxCreated : conns'[j] = IF j = i THEN mark ELSE conns[j]
         /\ \A j \in 1 .. MaxCreated : conns'[j] = "none" <=> j > created
         /\ Cp!Size' = Cp!Size
         /\ i \in 1 .. MaxCreated /\ i <= created
<1>1. /\ conns' \in [1 .. MaxCreated -> {"none", "idle", "busy", "closed"}]
      /\ \A j \in 1 .. MaxCreated : conns'[j] = IF j = i THEN mark ELSE conns[j]
      /\ i \in 1 .. MaxCreated /\ conns[i] \in {"idle", "busy"}
  BY DEF PoolTypes, Cp!TypeOK, Cp!Ids, Cp!Present, Cp!InState
<1>2. created \in Nat /\ \A j \in 1 .. MaxCreated : conns[j] = "none" <=> j > created
  BY PoolConstants DEF PoolTypes, Cp!TypeOK, Cp!Ids
<1>3. \A j \in 1 .. MaxCreated : conns'[j] = "none" <=> j > created
  BY <1>1, <1>2
<1>4. i <= created
  BY <1>1, <1>2, PoolConstants
<1>5. Cp!Present' = Cp!Present
  BY <1>1 DEF Cp!Present, Cp!InState, Cp!Ids
<1>6. Cp!Size' = Cp!Size
  BY <1>5, SizeCounts, SizeCountsAfter
<1> QED
  BY <1>1, <1>3, <1>4, <1>6

\* The step of a loop that creates a connection without asking for the limit, or of
\* an acquire() or scale() that has asked: what the types need.
LEMMA CreatedTypes ==
  ASSUME PoolTypes, Cp!Create, UNCHANGED open,
         toInit' \in 0 .. MinConnections - 1, toAdd' \in 0 .. MaxConnections - 1,
         phase' \in [Clients -> {"outside", "creating", "polling", "holding"}],
         conn' \in [Clients -> 0 .. created + 1],
         \A c \in Clients : conn'[c] = 0 <=> phase'[c] \in {"outside", "polling"}
  PROVE  PoolTypes'
BY Created, PoolConstants DEF PoolTypes, Cp!TypeOK, Cp!Ids

\* What the types need of a step that creates none.
LEMMA MarkedTypes ==
  ASSUME PoolTypes, UNCHANGED <<created, toInit, toAdd>>, open' \in BOOLEAN,
         conns' \in [1 .. MaxCreated -> {"none", "idle", "busy", "closed"}],
         \A j \in 1 .. MaxCreated : conns'[j] = "none" <=> j > created,
         phase' \in [Clients -> {"outside", "creating", "polling", "holding"}],
         conn' \in [Clients -> 0 .. created],
         \A c \in Clients : conn'[c] = 0 <=> phase'[c] \in {"outside", "polling"}
  PROVE  PoolTypes'
BY PoolConstants DEF PoolTypes, Cp!TypeOK, Cp!Ids

LEMMA ConnectionsNext == PoolInv /\ [Cp!Next]_(Cp!vars) => PoolInv'
<1> SUFFICES ASSUME PoolTypes, Cp!BusyMeansHeld, Cp!OvershootBounded, [Cp!Next]_(Cp!vars)
             PROVE  PoolTypes' /\ Cp!BusyMeansHeld' /\ Cp!OvershootBounded'
  BY DEF PoolInv
<1> USE PoolConstants
<1>0. /\ phase \in [Clients -> {"outside", "creating", "polling", "holding"}]
      /\ conn \in [Clients -> 0 .. created] /\ created \in 1 .. MaxCreated
      /\ \A c \in Clients : conn[c] = 0 <=> phase[c] \in {"outside", "polling"}
      /\ toInit \in 0 .. MinConnections - 1 /\ toAdd \in 0 .. MaxConnections - 1 /\ open \in BOOLEAN
      /\ Cp!Size \in Nat
      /\ Cp!Size + toInit + toAdd <= MaxConnections + (MinConnections - 1) + (MaxConnections - 1)
      /\ \A i \in 1 .. MaxCreated : conns[i] = "busy" => \E c \in Clients : phase[c] = "holding" /\ conn[c] = i
  BY SizeCounts DEF PoolTypes, Cp!TypeOK, Cp!OvershootBounded, Cp!BusyMeansHeld, Cp!InState, Cp!Ids
<1>1. CASE UNCHANGED Cp!vars
  BY <1>1 DEF Cp!vars, PoolTypes, Cp!TypeOK, Cp!BusyMeansHeld, Cp!InState, Cp!OvershootBounded,
              Cp!Size, Cp!Present
<1>2. ASSUME NEW c \in Clients, phase[c] \in {"outside", "polling"}, Cp!Take(c)
      PROVE  PoolTypes' /\ Cp!BusyMeansHeld' /\ Cp!OvershootBounded'
  <2> DEFINE i == Cp!Min(Cp!Idle)
  <2>1. i \in Cp!Idle /\ i \in Cp!Present
    <3>1. Cp!Idle \in SUBSET Nat /\ Cp!Idle \subseteq Cp!Present
      BY SizeCounts
    <3> QED
      BY <1>2, <3>1, FirstConnection DEF Cp!Take
  <2> HIDE DEF i
  <2>2. /\ conns' = [conns EXCEPT ![i] = "busy"]
        /\ phase' = [phase EXCEPT ![c] = "holding"] /\ conn' = [conn EXCEPT ![c] = i]
        /\ UNCHANGED <<created, toInit, toAdd, open>>
    BY <1>2 DEF Cp!Take, i
  <2>3. /\ conns' \in [1 .. MaxCreated -> {"none", "idle", "busy", "closed"}]
        /\ \A j \in 1 .. MaxCreated : conns'[j] = IF j = i THEN "busy" ELSE conns[j]
        /\ \A j \in 1 .. MaxCreated : conns'[j] = "none" <=> j > created
        /\ Cp!Size' = Cp!Size /\ i \in 1 .. MaxCreated /\ i <= created
    BY <2>1, <2>2, Marked
  <2>4. PoolTypes'
    BY <1>0, <2>2, <2>3, MarkedTypes
  <2>5. Cp!OvershootBounded'
    BY <1>0, <2>2, <2>3 DEF Cp!OvershootBounded
  <2>6. Cp!BusyMeansHeld'
    BY <1>0, <1>2, <2>2, <2>3 DEF Cp!BusyMeansHeld, Cp!InState, Cp!Ids
  <2> QED
    BY <2>4, <2>5, <2>6
<1>3. ASSUME NEW c \in Clients, phase[c] = "outside", Cp!TakeNew(c)
      PROVE  PoolTypes' /\ Cp!BusyMeansHeld' /\ Cp!OvershootBounded'
  <2>1. /\ Cp!Create /\ Cp!Size < MaxConnections
        /\ phase' = [phase EXCEPT ![c] = "creating"] /\ conn' = [conn EXCEPT ![c] = created + 1]
        /\ UNCHANGED <<toInit, toAdd, open>>
    BY <1>3 DEF Cp!TakeNew
  <2>2. /\ \A i \in 1 .. MaxCreated : conns'[i] = IF i = created + 1 THEN "idle" ELSE conns[i]
        /\ Cp!Size' = Cp!Size + 1
    BY <2>1, Created
  <2>3. PoolTypes'
    BY <1>0, <2>1, CreatedTypes
  <2>4. Cp!OvershootBounded'
    BY <1>0, <2>1, <2>2 DEF Cp!OvershootBounded
  <2>5. Cp!BusyMeansHeld'
    BY <1>0, <1>3, <2>1, <2>2 DEF Cp!BusyMeansHeld, Cp!InState, Cp!Ids
  <2> QED
    BY <2>3, <2>4, <2>5
<1>4. ASSUME NEW c \in Clients, phase[c] = "outside", Cp!StartPolling(c)
      PROVE  PoolTypes' /\ Cp!BusyMeansHeld' /\ Cp!OvershootBounded'
  <2>1. phase' = [phase EXCEPT ![c] = "polling"] /\ UNCHANGED <<conns, created, conn, toInit, toAdd, open>>
    BY <1>4 DEF Cp!StartPolling
  <2>2. PoolTypes'
    BY <1>0, <1>4, <2>1 DEF PoolTypes, Cp!TypeOK
  <2>3. Cp!OvershootBounded'
    BY <1>0, <2>1 DEF Cp!OvershootBounded, Cp!Size, Cp!Present, Cp!InState
  <2>4. Cp!BusyMeansHeld'
    BY <1>0, <1>4, <2>1 DEF Cp!BusyMeansHeld, Cp!InState, Cp!Ids
  <2> QED
    BY <2>2, <2>3, <2>4
<1>5. ASSUME NEW c \in Clients, Cp!FinishAcquire(c)
      PROVE  PoolTypes' /\ Cp!BusyMeansHeld' /\ Cp!OvershootBounded'
  <2>1. phase[c] = "creating" /\ UNCHANGED <<created, toInit, toAdd, open>>
    BY <1>5 DEF Cp!FinishAcquire
  <2>2. CASE conn[c] \in Cp!Present
    <3>1. /\ conns' = [conns EXCEPT ![conn[c]] = "busy"]
          /\ phase' = [phase EXCEPT ![c] = "holding"] /\ conn' = conn
      BY <1>5, <2>2 DEF Cp!FinishAcquire
    <3>2. /\ conns' \in [1 .. MaxCreated -> {"none", "idle", "busy", "closed"}]
          /\ \A j \in 1 .. MaxCreated : conns'[j] = IF j = conn[c] THEN "busy" ELSE conns[j]
          /\ \A j \in 1 .. MaxCreated : conns'[j] = "none" <=> j > created
          /\ Cp!Size' = Cp!Size
      BY <2>2, <3>1, Marked
    <3>3. PoolTypes'
      BY <1>0, <2>1, <3>1, <3>2, MarkedTypes
    <3>4. Cp!OvershootBounded'
      BY <1>0, <2>1, <3>2 DEF Cp!OvershootBounded
    <3>5. Cp!BusyMeansHeld'
      BY <1>0, <2>1, <3>1, <3>2 DEF Cp!BusyMeansHeld, Cp!InState, Cp!Ids
    <3> QED
      BY <3>3, <3>4, <3>5
  <2>3. CASE conn[c] \notin Cp!Present
    <3>1. /\ phase' = [phase EXCEPT ![c] = "outside"] /\ conn' = [conn EXCEPT ![c] = 0] /\ conns' = conns
      BY <1>5, <2>3 DEF Cp!FinishAcquire
    <3>2. PoolTypes'
      BY <1>0, <2>1, <3>1 DEF PoolTypes, Cp!TypeOK
    <3>3. Cp!OvershootBounded'
      BY <1>0, <2>1, <3>1 DEF Cp!OvershootBounded, Cp!Size, Cp!Present, Cp!InState
    <3>4. Cp!BusyMeansHeld'
      BY <1>0, <2>1, <3>1 DEF Cp!BusyMeansHeld, Cp!InState, Cp!Ids
    <3> QED
      BY <3>2, <3>3, <3>4
  <2> QED
    BY <2>2, <2>3
<1>6. ASSUME NEW c \in Clients, Cp!Release(c)
      PROVE  PoolTypes' /\ Cp!BusyMeansHeld' /\ Cp!OvershootBounded'
  <2>1. /\ phase[c] = "holding" /\ UNCHANGED <<created, toInit, toAdd, open>>
        /\ phase' = [phase EXCEPT ![c] = "outside"] /\ conn' = [conn EXCEPT ![c] = 0]
        /\ conns' = [conns EXCEPT ![conn[c]] = IF conn[c] \in Cp!Present THEN "idle" ELSE @]
    BY <1>6 DEF Cp!Release
  <2>2. CASE conn[c] \in Cp!Present
    <3>0. conns' = [conns EXCEPT ![conn[c]] = "idle"]
      BY <2>1, <2>2
    <3>1. /\ conns' \in [1 .. MaxCreated -> {"none", "idle", "busy", "closed"}]
          /\ \A j \in 1 .. MaxCreated : conns'[j] = IF j = conn[c] THEN "idle" ELSE conns[j]
          /\ \A j \in 1 .. MaxCreated : conns'[j] = "none" <=> j > created
          /\ Cp!Size' = Cp!Size
      BY <2>2, <3>0, Marked
    <3>2. PoolTypes'
      BY <1>0, <2>1, <3>1, MarkedTypes
    <3>3. Cp!OvershootBounded'
      BY <1>0, <2>1, <3>1 DEF Cp!OvershootBounded
    <3>4. Cp!BusyMeansHeld'
      BY <1>0, <2>1, <3>1 DEF Cp!BusyMeansHeld, Cp!InState, Cp!Ids
    <3> QED
      BY <3>2, <3>3, <3>4
  <2>3. CASE conn[c] \notin Cp!Present
    <3>1. conns' = conns
      BY <2>1, <2>3 DEF PoolTypes, Cp!TypeOK
    <3>a. Cp!Size' = Cp!Size
      BY <3>1 DEF Cp!Size, Cp!Present, Cp!InState
    <3>b. /\ conns' \in [1 .. MaxCreated -> {"none", "idle", "busy", "closed"}]
          /\ \A j \in 1 .. MaxCreated : conns'[j] = "none" <=> j > created
      BY <3>1 DEF PoolTypes, Cp!TypeOK, Cp!Ids
    <3>c. /\ phase' = [phase EXCEPT ![c] = "outside"] /\ conn' = [conn EXCEPT ![c] = 0]
          /\ UNCHANGED <<created, toInit, toAdd, open>>
      BY <2>1
    <3>2. PoolTypes'
      BY <1>0, <3>b, <3>c, MarkedTypes
    <3>3. Cp!OvershootBounded'
      BY <1>0, <3>c, <3>a DEF Cp!OvershootBounded
    <3>4. \A i \in 1 .. MaxCreated : conns[i] = "busy" => i # conn[c]
      BY <2>3 DEF Cp!Present, Cp!InState, Cp!Ids
    <3>5. Cp!BusyMeansHeld'
      BY <1>0, <2>1, <3>1, <3>4 DEF Cp!BusyMeansHeld, Cp!InState, Cp!Ids
    <3> QED
      BY <3>2, <3>3, <3>5
  <2> QED
    BY <2>2, <2>3
<1>7. ASSUME Cp!Create, UNCHANGED <<phase, conn, open>>,
             toInit' \in 0 .. MinConnections - 1, toAdd' \in 0 .. MaxConnections - 1,
             Cp!Size + 1 + toInit' + toAdd' <= MaxConnections + (MinConnections - 1) + (MaxConnections - 1)
      PROVE  PoolTypes' /\ Cp!BusyMeansHeld' /\ Cp!OvershootBounded'
  <2>1. /\ \A i \in 1 .. MaxCreated : conns'[i] = IF i = created + 1 THEN "idle" ELSE conns[i]
        /\ Cp!Size' = Cp!Size + 1
    BY <1>7, Created
  <2>2. conn \in [Clients -> 0 .. created + 1]
    BY <1>0
  <2>3. PoolTypes'
    BY <1>0, <1>7, <2>2, CreatedTypes
  <2>4. Cp!OvershootBounded'
    BY <1>7, <2>1 DEF Cp!OvershootBounded
  <2>5. Cp!BusyMeansHeld'
    BY <1>0, <1>7, <2>1 DEF Cp!BusyMeansHeld, Cp!InState, Cp!Ids
  <2> QED
    BY <2>3, <2>4, <2>5
<1>8. CASE Cp!InitStep
  BY <1>0, <1>7, <1>8 DEF Cp!InitStep
<1>9. CASE Cp!ScaleStep
  BY <1>0, <1>7, <1>9 DEF Cp!ScaleStep
<1>10. ASSUME NEW target \in 0 .. MaxConnections + 1, Cp!ScaleUp(target)
       PROVE  PoolTypes' /\ Cp!BusyMeansHeld' /\ Cp!OvershootBounded'
  <2> DEFINE n == Cp!Min({target - Cp!Size, MaxConnections - Cp!Size})
  <2>1. n \in {target - Cp!Size, MaxConnections - Cp!Size} /\ n <= MaxConnections - Cp!Size
    <3>1. {target - Cp!Size, MaxConnections - Cp!Size} \in SUBSET Nat
      BY <1>0, <1>10 DEF Cp!ScaleUp
    <3> QED
      BY <3>1, FirstConnection
  <2> HIDE DEF n
  <2>2. Cp!Create /\ toAdd' = n - 1 /\ UNCHANGED <<phase, conn, toInit, open>>
        /\ target > Cp!Size /\ Cp!Size < MaxConnections
    BY <1>10 DEF Cp!ScaleUp, n
  <2>3. toAdd' \in 0 .. MaxConnections - 1 /\ toInit' \in 0 .. MinConnections - 1
    BY <1>0, <2>1, <2>2
  <2>4. Cp!Size + 1 + toInit' + toAdd' <= MaxConnections + (MinConnections - 1) + (MaxConnections - 1)
    BY <1>0, <2>2, <2>3
  <2> QED
    BY <1>7, <2>2, <2>3, <2>4
<1>11. ASSUME NEW ids \in SUBSET Cp!Present, Cp!CloseAll(ids), open' \in BOOLEAN,
              UNCHANGED <<created, phase, conn, toInit, toAdd>>
       PROVE  PoolTypes' /\ Cp!BusyMeansHeld' /\ Cp!OvershootBounded'
  <2>1. /\ conns' \in [1 .. MaxCreated -> {"none", "idle", "busy", "closed"}]
        /\ \A i \in 1 .. MaxCreated : conns'[i] = IF i \in ids THEN "closed" ELSE conns[i]
        /\ \A i \in 1 .. MaxCreated : conns'[i] = "none" <=> i > created
        /\ Cp!Size' <= Cp!Size /\ Cp!Size' \in Nat
    BY <1>11, Closed, SizeCountsAfter
  <2>2. PoolTypes'
    BY <1>0, <1>11, <2>1, MarkedTypes
  <2>3. Cp!OvershootBounded'
    <3>1. Cp!Size' \in Nat /\ Cp!Size \in Nat /\ Cp!Size' <= Cp!Size /\ toInit \in Nat /\ toAdd \in Nat
      BY <1>0, <2>1
    <3>2. MaxConnections + (MinConnections - 1) + (MaxConnections - 1) \in Nat
      OBVIOUS
    <3>3. \A after, before, more, added, limit \in Nat :
            after <= before /\ before + more + added <= limit => after + more + added <= limit
      OBVIOUS
    <3> QED
      BY <1>11, <3>1, <3>2, <3>3, ZenonT(60) DEF Cp!OvershootBounded
  <2>4. Cp!BusyMeansHeld'
    BY <1>0, <1>11, <2>1 DEF Cp!BusyMeansHeld, Cp!InState, Cp!Ids
  <2> QED
    BY <2>2, <2>3, <2>4
<1>12. ASSUME NEW target \in 0 .. MaxConnections + 1, Cp!ScaleDown(target)
       PROVE  PoolTypes' /\ Cp!BusyMeansHeld' /\ Cp!OvershootBounded'
  <2>1. PICK ids \in SUBSET Cp!Present : Cp!CloseAll(ids)
    BY <1>12 DEF Cp!ScaleDown, Cp!First, Cp!Idle, Cp!Present
  <2> QED
    BY <1>0, <1>11, <1>12, <2>1 DEF Cp!ScaleDown
<1>13. CASE Cp!Cleanup
  <2>1. PICK ids \in SUBSET Cp!Present : Cp!CloseAll(ids)
    BY <1>13, SizeCounts DEF Cp!Cleanup
  <2> QED
    BY <1>0, <1>11, <1>13, <2>1 DEF Cp!Cleanup
<1>14. CASE Cp!Close
  BY <1>11, <1>14 DEF Cp!Close
<1>15. ASSUME NEW c \in Clients, Cp!Acquire(c)
       PROVE  PoolTypes' /\ Cp!BusyMeansHeld' /\ Cp!OvershootBounded'
  BY <1>2, <1>3, <1>4, <1>15 DEF Cp!Acquire
<1>16. ASSUME NEW c \in Clients, Cp!Poll(c)
       PROVE  PoolTypes' /\ Cp!BusyMeansHeld' /\ Cp!OvershootBounded'
  BY <1>2, <1>16 DEF Cp!Poll
<1> QED
  BY <1>1, <1>5, <1>6, <1>8, <1>9, <1>10, <1>12, <1>13, <1>14, <1>15, <1>16 DEF Cp!Next

\* What no step does to a closed connection, nor for a client.
LEMMA ClosedSteps ==
  PoolInv /\ [Cp!Next]_(Cp!vars) =>
    [/\ \A i \in Cp!Ids : conns[i] = "closed" => conns'[i] = "closed"
     /\ \A c \in Clients :
          phase'[c] = "holding" /\ phase[c] # "holding" => conns'[conn'[c]] = "busy"]_(Cp!vars)
<1> DEFINE Allowed == /\ \A i \in Cp!Ids : conns[i] = "closed" => conns'[i] = "closed"
                      /\ \A c \in Clients :
                           phase'[c] = "holding" /\ phase[c] # "holding" => conns'[conn'[c]] = "busy"
<1> SUFFICES ASSUME PoolInv, Cp!Next PROVE Allowed
  OBVIOUS
<1>0. PoolTypes /\ phase \in [Clients -> {"outside", "creating", "polling", "holding"}]
      /\ conn \in [Clients -> 0 .. created]
      /\ conns \in [Cp!Ids -> {"none", "idle", "busy", "closed"}]
  BY DEF PoolInv, PoolTypes, Cp!TypeOK
<1>1. ASSUME NEW c \in Clients, Cp!Take(c) PROVE Allowed
  <2>1. Cp!Idle \in SUBSET Nat /\ Cp!Idle \subseteq Cp!Present
    BY SizeCounts
  <2>2. Cp!Min(Cp!Idle) \in Cp!Idle
    BY <1>1, <2>1, FirstConnection DEF Cp!Take
  <2> DEFINE i == Cp!Min(Cp!Idle)
  <2>3. /\ conns' = [conns EXCEPT ![i] = "busy"] /\ phase' = [phase EXCEPT ![c] = "holding"]
        /\ conn' = [conn EXCEPT ![c] = i] /\ i \in Cp!Ids /\ conns[i] = "idle"
    BY <1>1, <2>2 DEF Cp!Take, Cp!Idle, Cp!InState
  <2> HIDE DEF i
  <2> QED
    BY <1>0, <2>3
<1>2. ASSUME Cp!Create, phase' = phase \/ \E c \in Clients : phase' = [phase EXCEPT ![c] = "creating"]
      PROVE  Allowed
  <2>1. \A i \in Cp!Ids : conns[i] = "closed" => conns'[i] = "closed"
    BY <1>0, <1>2, Created DEF Cp!Ids
  <2> QED
    BY <1>0, <1>2, <2>1
<1>3. ASSUME NEW c \in Clients, Cp!Acquire(c) PROVE Allowed
  <2>1. CASE Cp!StartPolling(c)
    BY <1>0, <2>1 DEF Cp!StartPolling
  <2>2. CASE Cp!TakeNew(c)
    BY <1>2, <2>2 DEF Cp!TakeNew
  <2> QED
    BY <1>1, <1>3, <2>1, <2>2 DEF Cp!Acquire
<1>4. ASSUME NEW c \in Clients, Cp!FinishAcquire(c) PROVE Allowed
  <2>1. \A i \in Cp!Present : i \in Cp!Ids /\ conns[i] # "closed"
    BY DEF Cp!Present, Cp!InState
  <2> QED
    BY <1>0, <1>4, <2>1 DEF Cp!FinishAcquire
<1>5. ASSUME NEW c \in Clients, Cp!Poll(c) PROVE Allowed
  BY <1>1, <1>5 DEF Cp!Poll
<1>6. ASSUME NEW c \in Clients, Cp!Release(c) PROVE Allowed
  <2>1. \A i \in Cp!Present : i \in Cp!Ids /\ conns[i] # "closed"
    BY DEF Cp!Present, Cp!InState
  <2>2. \A i \in Cp!Ids : conns[i] = "closed" => conns'[i] = "closed"
    <3>1. CASE conn[c] \in Cp!Present
      BY <1>0, <1>6, <2>1, <3>1 DEF Cp!Release
    <3>2. CASE conn[c] \notin Cp!Present
      BY <1>0, <1>6, <3>2 DEF Cp!Release
    <3> QED
      BY <3>1, <3>2
  <2>3. phase' = [phase EXCEPT ![c] = "outside"]
    BY <1>6 DEF Cp!Release
  <2> QED
    BY <1>0, <2>2, <2>3
<1>7. CASE Cp!InitStep \/ Cp!ScaleStep
  BY <1>2, <1>7 DEF Cp!InitStep, Cp!ScaleStep
<1>8. ASSUME NEW target \in 0 .. MaxConnections + 1, Cp!ScaleUp(target) PROVE Allowed
  BY <1>2, <1>8 DEF Cp!ScaleUp
<1>9. ASSUME NEW ids, Cp!CloseAll(ids), phase' = phase PROVE Allowed
  BY <1>0, <1>9 DEF Cp!CloseAll
<1>10. ASSUME NEW target \in 0 .. MaxConnections + 1, Cp!ScaleDown(target) PROVE Allowed
  BY <1>9, <1>10 DEF Cp!ScaleDown
<1>11. CASE Cp!Cleanup
  BY <1>9, <1>11 DEF Cp!Cleanup
<1>12. CASE Cp!Close
  BY <1>9, <1>12 DEF Cp!Close
<1> HIDE DEF Allowed
<1> QED
  BY <1>3, <1>4, <1>5, <1>6, <1>7, <1>8, <1>10, <1>11, <1>12 DEF Cp!Next

-----------------------------------------------------------------------------
(* The worker pool.                                                        *)

LEMMA WorkerCounts ==
  ASSUME NEW S
  PROVE  /\ Wp!Cardinality(S) = Cardinality(S) /\ Wp!Range(S) = Range(S)
         /\ Wp!IsInjective(S) = IsInjective(S)
<1>1. Wp!Cardinality(S) = Cardinality(S)
  BY DEF Wp!Cardinality, Cardinality
<1>2. Wp!Range(S) = Range(S)
  BY DEF Wp!Range, Range
<1>3. Wp!IsInjective(S) = IsInjective(S)
  BY DEF Wp!IsInjective, IsInjective
<1> QED
  BY <1>1, <1>2, <1>3

LEMMA WorkerConstants ==
  /\ Unclonable \subseteq PoolTasks /\ None \notin PoolTasks
  /\ PoolSize \in Nat \ {0} /\ MaxThreads \in Nat /\ MaxThreads >= PoolSize
  /\ Wp!Threads = 1 .. MaxThreads
BY WorkersAssumption DEF Wp!PoolOK, Wp!Threads

Doings == {"none", "idle", "working", "replied", "failed", "gone"}
FailedIn(doing) == {w \in Wp!Threads : doing[w] = "failed"}

\* Threads are numbered from 1 to n, each is in the pool once at most, and one more can
\* be made for each that has failed; a thread that was not made has no task.
WorkersFit(n, pool, given, doing) ==
  /\ n \in Nat /\ n + Cardinality(FailedIn(doing)) <= MaxThreads
  /\ doing \in [Wp!Threads -> Doings] /\ given \in [Wp!Threads -> PoolTasks \cup {None}]
  /\ \A w \in Wp!Threads : doing[w] = "none" <=> w > n
  /\ \A w \in Wp!Threads : doing[w] = "none" => given[w] = None
  /\ pool \in Seq(1 .. n) /\ IsInjective(pool)

\* Each task is in one place, and its promise agrees with that.
TasksFit(line, given, promise) ==
  /\ line \in Seq(PoolTasks) /\ IsInjective(line)
  /\ promise \in [PoolTasks -> {"none", "pending", "settled"}]
  /\ \A v, w \in Wp!Threads : given[v] # None /\ given[v] = given[w] => v = w
  /\ \A w \in Wp!Threads : given[w] \notin Range(line)
  /\ \A t \in PoolTasks \ Unclonable :
       promise[t] = "pending" <=> t \in Range(line) \/ \E w \in Wp!Threads : given[w] = t
  /\ \A t \in PoolTasks : t \in Range(line) \/ (\E w \in Wp!Threads : given[w] = t) => promise[t] # "none"

\* A thread that has been given a task and has not failed works on the one on record.
RepliesFit(given, doing, last) ==
  /\ last \in [Wp!Threads -> PoolTasks \cup {None}]
  /\ \A w \in Wp!Threads : doing[w] \in {"working", "replied"} => given[w] = last[w] /\ last[w] # None

WorkerInv ==
  /\ WorkersFit(Wp!Created, workers, current, thread)
  /\ TasksFit(waiting, current, answer)
  /\ RepliesFit(current, thread, posted)
  /\ Wp!NoIdleWorker
  /\ Len(workers) = PoolSize \/ workers = <<>>
  /\ toStop \in SUBSET Wp!Threads

\* The flags, which go with the queue and the pool.
WorkerFlags ==
  /\ terminated \in BOOLEAN /\ crashed \in BOOLEAN
  /\ terminated => waiting = <<>>
  /\ ~terminated => workers # <<>>

LEMMA MadeSoFar ==
  ASSUME NEW n \in Nat, NEW doing, n <= MaxThreads,
         \A w \in Wp!Threads : doing[w] = "none" <=> w > n
  PROVE  Wp!Cardinality({w \in Wp!Threads : doing[w] # "none"}) = n
<1>1. {w \in Wp!Threads : doing[w] # "none"} = 1 .. n
  BY WorkerConstants
<1>2. Cardinality(1 .. n) = n
  BY FS_Interval
<1> QED
  BY <1>1, <1>2, WorkerCounts

LEMMA FailedCount ==
  ASSUME NEW doing
  PROVE  IsFiniteSet(FailedIn(doing)) /\ Cardinality(FailedIn(doing)) \in Nat
<1>1. FailedIn(doing) \in SUBSET (1 .. MaxThreads) /\ IsFiniteSet(1 .. MaxThreads)
  BY WorkerConstants, FS_Interval DEF FailedIn
<1> QED
  BY <1>1, FS_Subset, FS_CardinalityType

\* The worker that is given a task is one of the pool that has none.
LEMMA FirstIdleIs ==
  ASSUME NEW n \in Nat, n <= MaxThreads, NEW pool \in Seq(1 .. n), NEW given,
         Wp!IdleAt(pool, given) # {}
  PROVE  \E i \in Wp!IdleAt(pool, given) :
           /\ Wp!FirstIdle(pool, given) = pool[i]
           /\ i \in DOMAIN pool /\ pool[i] \in 1 .. n /\ pool[i] \in Wp!Threads /\ given[pool[i]] = None
<1>1. Wp!IdleAt(pool, given) \in SUBSET Nat
  BY LenProperties DEF Wp!IdleAt
<1>2. \E i \in Wp!IdleAt(pool, given) : \A j \in Wp!IdleAt(pool, given) : i <= j
  BY <1>1, Smallest
<1>3. PICK i \in Wp!IdleAt(pool, given) : Wp!FirstIdle(pool, given) = pool[i]
  BY <1>2 DEF Wp!FirstIdle
<1>4. i \in DOMAIN pool /\ pool[i] \in 1 .. n
  BY LenProperties, ElementOfSeq DEF Wp!IdleAt
<1>5. pool[i] \in Wp!Threads
  BY <1>4, WorkerConstants
<1> QED
  BY <1>3, <1>4, <1>5 DEF Wp!IdleAt, Wp!Busy

\* What a task does to the books when a worker without one is given it: it waited, or it
\* is new, and its promise is pending unless it could not be posted.
LEMMA TaskGiven ==
  ASSUME NEW line, NEW rest, NEW given, NEW promise, NEW after, NEW t \in PoolTasks, NEW w \in Wp!Threads,
         given \in [Wp!Threads -> PoolTasks \cup {None}], given[w] = None,
         TasksFit(line, given, promise),
         rest \in Seq(PoolTasks) /\ IsInjective(rest) /\ Range(rest) = Range(line) \ {t},
         \A v \in Wp!Threads : given[v] # t,
         after \in [PoolTasks -> {"none", "pending", "settled"}],
         \A s \in PoolTasks : s # t => after[s] = promise[s],
         after[t] # "none" /\ (t \notin Unclonable => after[t] = "pending")
  PROVE  TasksFit(rest, [given EXCEPT ![w] = t], after)
<1> DEFINE now == [given EXCEPT ![w] = t]
<1>1. \A v \in Wp!Threads : now[v] = IF v = w THEN t ELSE given[v]
  OBVIOUS
<1>2. t # None
  BY WorkerConstants
<1> HIDE DEF now
<1>3. \A u, v \in Wp!Threads : now[u] # None /\ now[u] = now[v] => u = v
  BY <1>1, <1>2 DEF TasksFit
<1>4. \A v \in Wp!Threads : now[v] \notin Range(rest)
  BY <1>1 DEF TasksFit
<1>5. \A s \in PoolTasks : (\E v \in Wp!Threads : now[v] = s) <=> s = t \/ \E v \in Wp!Threads : given[v] = s
  <2> SUFFICES ASSUME NEW s \in PoolTasks
               PROVE  (\E v \in Wp!Threads : now[v] = s) <=> s = t \/ \E v \in Wp!Threads : given[v] = s
    OBVIOUS
  <2>1. s # None
    BY WorkerConstants
  <2> QED
    BY <1>1, <2>1
<1>6. \A s \in PoolTasks \ Unclonable :
        after[s] = "pending" <=> s \in Range(rest) \/ \E v \in Wp!Threads : now[v] = s
  <2> SUFFICES ASSUME NEW s \in PoolTasks \ Unclonable
               PROVE  after[s] = "pending" <=> s \in Range(rest) \/ \E v \in Wp!Threads : now[v] = s
    OBVIOUS
  <2>1. CASE s = t
    BY <1>5, <2>1
  <2>2. CASE s # t
    BY <1>5, <2>2 DEF TasksFit
  <2> QED
    BY <2>1, <2>2
<1>7. \A s \in PoolTasks : s \in Range(rest) \/ (\E v \in Wp!Threads : now[v] = s) => after[s] # "none"
  <2> SUFFICES ASSUME NEW s \in PoolTasks, s \in Range(rest) \/ (\E v \in Wp!Threads : now[v] = s)
               PROVE  after[s] # "none"
    OBVIOUS
  <2>1. CASE s = t
    BY <2>1
  <2>2. CASE s # t
    BY <1>5, <2>2 DEF TasksFit
  <2> QED
    BY <2>1, <2>2
<1>8. TasksFit(rest, now, after)
  BY <1>3, <1>4, <1>6, <1>7 DEF TasksFit
<1> QED
  BY <1>8 DEF now

\* What it does to the thread: a task that cannot be posted leaves it as it is, and a
\* thread that has just died stays so.
LEMMA ThreadGiven ==
  ASSUME NEW n, NEW pool, NEW given, NEW doing, NEW last, NEW t \in PoolTasks, NEW w \in Wp!Threads,
         WorkersFit(n, pool, given, doing), RepliesFit(given, doing, last), w <= n, given[w] = None,
         NEW doing2, NEW last2,
         \/ doing2 = doing /\ last2 = last
         \/ doing2 = [doing EXCEPT ![w] = Wp!AtWork(@)] /\ last2 = [last EXCEPT ![w] = t]
  PROVE  /\ WorkersFit(n, pool, [given EXCEPT ![w] = t], doing2)
         /\ RepliesFit([given EXCEPT ![w] = t], doing2, last2)
<1> DEFINE now == [given EXCEPT ![w] = t]
<1>1. /\ \A v \in Wp!Threads : now[v] = IF v = w THEN t ELSE given[v]
      /\ now \in [Wp!Threads -> PoolTasks \cup {None}]
      /\ doing \in [Wp!Threads -> Doings] /\ last \in [Wp!Threads -> PoolTasks \cup {None}]
      /\ t # None /\ n \in Nat /\ w \in Nat
  BY WorkerConstants DEF WorkersFit, RepliesFit
<1> HIDE DEF now
<1>2. doing[w] # "none" /\ doing[w] \notin {"working", "replied"}
  <2>1. doing[w] # "none"
    BY <1>1 DEF WorkersFit
  <2> QED
    BY <2>1 DEF RepliesFit
<1>3. /\ doing2 \in [Wp!Threads -> Doings] /\ last2 \in [Wp!Threads -> PoolTasks \cup {None}]
      /\ \A v \in Wp!Threads : v # w => doing2[v] = doing[v] /\ last2[v] = last[v]
      /\ doing2[w] = doing[w] \/ (doing[w] = "idle" /\ doing2[w] = "working" /\ last2[w] = t)
  BY <1>1 DEF Wp!AtWork, Doings
<1>4. FailedIn(doing2) = FailedIn(doing)
  BY <1>2, <1>3 DEF FailedIn
<1>5. \A v \in Wp!Threads : doing2[v] = "none" <=> v > n
  BY <1>2, <1>3 DEF WorkersFit
<1>6. \A v \in Wp!Threads : doing2[v] = "none" => now[v] = None
  BY <1>1, <1>2, <1>3 DEF WorkersFit
<1>7. WorkersFit(n, pool, now, doing2)
  BY <1>1, <1>3, <1>4, <1>5, <1>6 DEF WorkersFit
<1>8. RepliesFit(now, doing2, last2)
  BY <1>1, <1>2, <1>3 DEF RepliesFit
<1> QED
  BY <1>7, <1>8 DEF now

\* What _processQueue() makes of a pool in which one worker at most has nothing to do
\* while tasks wait.
LEMMA QueueProcessed ==
  ASSUME NEW n, NEW pool, NEW freed, NEW now,
         Wp!ProcessQueue(pool, freed, now),
         WorkersFit(n, pool, freed, now), TasksFit(waiting, freed, answer'), RepliesFit(freed, now, posted),
         terminated => waiting = <<>>,
         waiting # <<>> => \A i, j \in Wp!IdleAt(pool, freed) : i = j
  PROVE  /\ WorkersFit(n, workers', current', thread')
         /\ TasksFit(waiting', current', answer')
         /\ RepliesFit(current', thread', posted')
         /\ waiting' # <<>> => Wp!IdleAt(workers', current') = {}
         /\ workers' = pool
<1>0. workers' = pool
  BY DEF Wp!ProcessQueue
<1>1. CASE waiting = <<>> \/ terminated \/ Wp!IdleAt(pool, freed) = {}
  <2>1. current' = freed /\ thread' = now /\ waiting' = waiting /\ posted' = posted
    BY <1>1 DEF Wp!ProcessQueue
  <2> QED
    BY <1>0, <1>1, <2>1
<1>2. CASE ~(waiting = <<>> \/ terminated \/ Wp!IdleAt(pool, freed) = {})
  <2> DEFINE w == Wp!FirstIdle(pool, freed)
             t == Head(waiting)
  <2>1. /\ waiting' = Tail(waiting) /\ current' = [freed EXCEPT ![w] = t]
        /\ thread' = [now EXCEPT ![w] = IF t \in Unclonable THEN @ ELSE Wp!AtWork(@)]
        /\ posted' = [posted EXCEPT ![w] = IF t \in Unclonable THEN @ ELSE t]
    BY <1>2 DEF Wp!ProcessQueue
  <2>2. /\ n \in Nat /\ n <= MaxThreads /\ pool \in Seq(1 .. n) /\ IsInjective(pool)
        /\ freed \in [Wp!Threads -> PoolTasks \cup {None}] /\ now \in [Wp!Threads -> Doings]
        /\ posted \in [Wp!Threads -> PoolTasks \cup {None}]
    BY FailedCount, WorkerConstants DEF WorkersFit, RepliesFit
  <2>3. PICK i \in Wp!IdleAt(pool, freed) :
          /\ w = pool[i] /\ i \in DOMAIN pool /\ w \in 1 .. n /\ w \in Wp!Threads /\ freed[w] = None
    BY <1>2, <2>2, FirstIdleIs
  <2> HIDE DEF w
  <2>4. waiting \in Seq(PoolTasks) /\ IsInjective(waiting) /\ waiting # <<>>
    BY <1>2 DEF TasksFit
  <2>5. /\ t \in Range(waiting) /\ t \in PoolTasks /\ Tail(waiting) \in Seq(PoolTasks)
        /\ Range(Tail(waiting)) = Range(waiting) \ {t} /\ IsInjective(Tail(waiting))
    BY <2>4, ShiftLine
  <2> HIDE DEF t
  <2>6. /\ \A v \in Wp!Threads : freed[v] # t
        /\ answer' \in [PoolTasks -> {"none", "pending", "settled"}]
        /\ answer'[t] # "none" /\ (t \notin Unclonable => answer'[t] = "pending")
    BY <2>5 DEF TasksFit
  <2>7. TasksFit(Tail(waiting), [freed EXCEPT ![w] = t], answer')
    BY <2>2, <2>3, <2>5, <2>6, TaskGiven
  <2>8. \/ thread' = now /\ posted' = posted
        \/ thread' = [now EXCEPT ![w] = Wp!AtWork(@)] /\ posted' = [posted EXCEPT ![w] = t]
    BY <2>1, <2>2
  <2>9. /\ WorkersFit(n, pool, [freed EXCEPT ![w] = t], thread')
        /\ RepliesFit([freed EXCEPT ![w] = t], thread', posted')
    <3>1. w <= n
      BY <2>2, <2>3
    <3>2. CASE thread' = now /\ posted' = posted
      BY <2>3, <2>5, <3>1, <3>2, ThreadGiven
    <3>3. CASE thread' = [now EXCEPT ![w] = Wp!AtWork(@)] /\ posted' = [posted EXCEPT ![w] = t]
      BY <2>3, <2>5, <3>1, <3>3, ThreadGiven, ZenonT(60)
    <3> QED
      BY <2>8, <3>2, <3>3
  <2>10. Wp!IdleAt(workers', current') = {}
    <3> SUFFICES ASSUME NEW j \in DOMAIN pool, pool[j] \notin Wp!Busy([freed EXCEPT ![w] = t]) PROVE FALSE
      BY <1>0, <2>1 DEF Wp!IdleAt
    <3>1. pool[j] \in Wp!Threads
      <4>1. pool[j] \in 1 .. n
        BY <2>2, LenProperties, ElementOfSeq
      <4> QED
        BY <2>2, <4>1, WorkerConstants
    <3>2. t # None
      BY <2>5, WorkerConstants
    <3>3. pool[j] # w /\ freed[pool[j]] = None
      BY <2>2, <3>1, <3>2 DEF Wp!Busy
    <3>4. j \in Wp!IdleAt(pool, freed)
      BY <3>3 DEF Wp!IdleAt, Wp!Busy
    <3>5. j = i
      BY <1>2, <3>4
    <3> QED
      BY <2>3, <3>3, <3>5
  <2> QED
    BY <1>0, <2>1, <2>7, <2>9, <2>10
<1> QED
  BY <1>1, <1>2

LEMMA WorkersInit == Wp!Init => WorkerInv /\ WorkerFlags
<1> SUFFICES ASSUME Wp!Init PROVE WorkerInv /\ WorkerFlags
  OBVIOUS
<1> USE WorkerConstants
<1>1. /\ thread = [w \in Wp!Threads |-> IF w <= PoolSize THEN "idle" ELSE "none"]
      /\ workers = [i \in 1 .. PoolSize |-> i] /\ current = [w \in Wp!Threads |-> None] /\ waiting = <<>>
  BY DEF Wp!Init
<1>2. \A w \in Wp!Threads : thread[w] = "none" <=> w > PoolSize
  BY <1>1
<1>3. Wp!Created = PoolSize
  BY <1>2, MadeSoFar DEF Wp!Created
<1>4. FailedIn(thread) = {}
  BY <1>1 DEF FailedIn
<1>5. workers \in Seq(1 .. PoolSize) /\ Len(workers) = PoolSize /\ IsInjective(workers)
  <2>1. workers \in Seq(1 .. PoolSize)
    BY <1>1, IsASeq
  <2>2. Len(workers) = PoolSize
    BY <1>1, <2>1, LenProperties
  <2> QED
    BY <1>1, <2>1, <2>2 DEF IsInjective
<1>6. WorkersFit(PoolSize, workers, current, thread)
  <2>1. PoolSize + Cardinality(FailedIn(thread)) <= MaxThreads
    BY <1>4, FS_EmptySet
  <2>2. thread \in [Wp!Threads -> Doings] /\ current \in [Wp!Threads -> PoolTasks \cup {None}]
    BY <1>1 DEF Doings
  <2>3. \A w \in Wp!Threads : current[w] = None
    BY <1>1
  <2> QED
    BY <1>2, <1>5, <2>1, <2>2, <2>3 DEF WorkersFit
<1>7. TasksFit(waiting, current, answer)
  <2>1. Range(<<>>) = {} /\ IsInjective(<<>>)
    BY DEF Range, IsInjective
  <2> QED
    BY <1>1, <2>1, EmptySeq DEF TasksFit, Wp!Init
<1>8. RepliesFit(current, thread, posted)
  BY <1>1 DEF RepliesFit, Wp!Init
<1>9. workers # <<>>
  BY <1>5, EmptySeq
<1> QED
  BY <1>1, <1>3, <1>5, <1>6, <1>7, <1>8, <1>9 DEF WorkerInv, WorkerFlags, Wp!NoIdleWorker, Wp!Init

\* The facts that every step uses.
LEMMA WorkerFacts ==
  ASSUME WorkerInv
  PROVE  /\ Wp!Created \in Nat /\ Wp!Created <= MaxThreads
         /\ workers \in Seq(1 .. Wp!Created) /\ IsInjective(workers)
         /\ thread \in [Wp!Threads -> Doings] /\ current \in [Wp!Threads -> PoolTasks \cup {None}]
         /\ waiting \in Seq(PoolTasks) /\ IsInjective(waiting)
         /\ answer \in [PoolTasks -> {"none", "pending", "settled"}]
         /\ posted \in [Wp!Threads -> PoolTasks \cup {None}]
BY FailedCount, WorkerConstants DEF WorkerInv, WorkersFit, TasksFit, RepliesFit

\* As many threads are made as the numbering says.
LEMMA CreatedAfter ==
  ASSUME NEW n, NEW pool, NEW given, WorkersFit(n, pool, given, thread') PROVE Wp!Created' = n
<1>1. /\ n \in Nat /\ n <= MaxThreads
      /\ \A w \in Wp!Threads : thread'[w] = "none" <=> w > n
  BY FailedCount, WorkerConstants DEF WorkersFit
<1>2. Wp!Cardinality({w \in Wp!Threads : thread'[w] # "none"}) = n
  BY <1>1, MadeSoFar
<1> QED
  BY <1>2 DEF Wp!Created

\* A task is new when nobody has answered it: nobody has it and it does not wait.
LEMMA NewTask ==
  ASSUME WorkerInv, NEW t \in PoolTasks, answer[t] = "none"
  PROVE  t \notin Range(waiting) /\ \A w \in Wp!Threads : current[w] # t
BY DEF WorkerInv, TasksFit

LEMMA AssignKeeps ==
  ASSUME WorkerInv, NEW t \in PoolTasks, answer[t] = "none", Wp!Assign(t), UNCHANGED toStop
  PROVE  WorkerInv'
<1> DEFINE w == Wp!FirstIdle(workers, current)
<1>1. /\ Wp!IdleAt(workers, current) # {} /\ current' = [current EXCEPT ![w] = t]
      /\ UNCHANGED <<waiting, workers>>
      /\ \/ t \in Unclonable /\ answer' = [answer EXCEPT ![t] = "settled"] /\ thread' = thread /\ posted' = posted
         \/ /\ t \notin Unclonable /\ answer' = [answer EXCEPT ![t] = "pending"]
            /\ thread' = [thread EXCEPT ![w] = Wp!AtWork(@)] /\ posted' = [posted EXCEPT ![w] = t]
  BY DEF Wp!Assign
<1>2. w \in Wp!Threads /\ w <= Wp!Created /\ current[w] = None
  <2>1. \E i \in Wp!IdleAt(workers, current) :
          w = workers[i] /\ w \in 1 .. Wp!Created /\ w \in Wp!Threads /\ current[w] = None
    BY <1>1, WorkerFacts, FirstIdleIs
  <2> QED
    BY <2>1, WorkerFacts
<1> HIDE DEF w
<1>3. waiting = <<>>
  BY <1>1 DEF WorkerInv, Wp!NoIdleWorker
<1>4. t \notin Range(waiting) /\ \A v \in Wp!Threads : current[v] # t
  BY NewTask
<1>5. TasksFit(waiting, current', answer')
  <2>1. /\ answer' \in [PoolTasks -> {"none", "pending", "settled"}]
        /\ \A s \in PoolTasks : s # t => answer'[s] = answer[s]
        /\ answer'[t] # "none" /\ (t \notin Unclonable => answer'[t] = "pending")
    BY <1>1, WorkerFacts
  <2>2. Range(waiting) = Range(waiting) \ {t}
    BY <1>4
  <2>3. TasksFit(waiting, current, answer)
    BY DEF WorkerInv
  <2>4. TasksFit(waiting, [current EXCEPT ![w] = t], answer')
    BY <1>2, <1>4, <2>1, <2>2, <2>3, WorkerFacts, TaskGiven
  <2> QED
    BY <1>1, <2>4
<1>6. /\ WorkersFit(Wp!Created, workers, current', thread')
      /\ RepliesFit(current', thread', posted')
  <2>1. WorkersFit(Wp!Created, workers, current, thread) /\ RepliesFit(current, thread, posted)
    BY DEF WorkerInv
  <2>2. CASE thread' = thread /\ posted' = posted
    BY <1>1, <1>2, <2>1, <2>2, ThreadGiven
  <2>3. CASE thread' = [thread EXCEPT ![w] = Wp!AtWork(@)] /\ posted' = [posted EXCEPT ![w] = t]
    BY <1>1, <1>2, <2>1, <2>3, ThreadGiven
  <2> QED
    BY <1>1, <2>2, <2>3
<1>7. Wp!Created' = Wp!Created
  BY <1>6, CreatedAfter
<1> QED
  BY <1>1, <1>3, <1>5, <1>6, <1>7 DEF WorkerInv, Wp!NoIdleWorker

LEMMA EnqueueKeeps ==
  ASSUME WorkerInv, NEW t \in PoolTasks, answer[t] = "none", Wp!Enqueue(t), UNCHANGED toStop
  PROVE  WorkerInv'
<1>1. /\ Wp!IdleAt(workers, current) = {} /\ answer' = [answer EXCEPT ![t] = "pending"]
      /\ waiting' = Append(waiting, t) /\ UNCHANGED <<workers, current, thread, posted, toStop>>
  BY DEF Wp!Enqueue
<1>2. t \notin Range(waiting) /\ \A v \in Wp!Threads : current[v] # t
  BY NewTask
<1>3. /\ waiting' \in Seq(PoolTasks) /\ IsInjective(waiting') /\ Range(waiting') = Range(waiting) \cup {t}
  BY <1>1, <1>2, WorkerFacts, AppendProperties, RangeAppend, InjectiveAppend
<1>4. /\ answer' \in [PoolTasks -> {"none", "pending", "settled"}]
      /\ \A s \in PoolTasks : answer'[s] = IF s = t THEN "pending" ELSE answer[s]
  BY <1>1, WorkerFacts
<1>5. TasksFit(waiting', current, answer')
  BY <1>2, <1>3, <1>4 DEF WorkerInv, TasksFit
<1>6. Wp!Created' = Wp!Created
  BY <1>1 DEF Wp!Created
<1> QED
  BY <1>1, <1>5, <1>6 DEF WorkerInv, Wp!NoIdleWorker

LEMMA RefuseKeeps ==
  ASSUME WorkerInv, NEW t \in PoolTasks, answer[t] = "none", Wp!Refuse(t), UNCHANGED toStop
  PROVE  WorkerInv'
<1>1. /\ answer' = [answer EXCEPT ![t] = "settled"]
      /\ UNCHANGED <<workers, current, waiting, thread, posted, toStop>>
  BY DEF Wp!Refuse
<1>2. t \notin Range(waiting) /\ \A v \in Wp!Threads : current[v] # t
  BY NewTask
<1>3. /\ answer' \in [PoolTasks -> {"none", "pending", "settled"}]
      /\ \A s \in PoolTasks : answer'[s] = IF s = t THEN "settled" ELSE answer[s]
  BY <1>1, WorkerFacts
<1>4. TasksFit(waiting, current, answer')
  BY <1>2, <1>3 DEF WorkerInv, TasksFit
<1>5. Wp!Created' = Wp!Created
  BY <1>1 DEF Wp!Created
<1> QED
  BY <1>1, <1>4, <1>5 DEF WorkerInv, Wp!NoIdleWorker

\* A thread goes on by itself: it replies, fails or stops, and nobody has noticed yet.
LEMMA ThreadMoves ==
  ASSUME WorkerInv, NEW w \in Wp!Threads, NEW doing \in Doings \ {"none"}, thread[w] # "none",
         thread' = [thread EXCEPT ![w] = doing],
         UNCHANGED <<workers, current, waiting, toStop, posted, answer>>,
         doing = "working" => FALSE,
         doing = "replied" => thread[w] = "working",
         doing = "failed" => Wp!Created + Cardinality(FailedIn(thread)) < MaxThreads
  PROVE  WorkerInv'
<1>1. thread' \in [Wp!Threads -> Doings] /\ \A v \in Wp!Threads : thread'[v] = IF v = w THEN doing ELSE thread[v]
  BY WorkerFacts
<1>2. \A v \in Wp!Threads : thread'[v] = "none" <=> thread[v] = "none"
  BY <1>1
<1>3. Wp!Created + Cardinality(FailedIn(thread')) <= MaxThreads
  <2>1. Wp!Created + Cardinality(FailedIn(thread)) <= MaxThreads /\ Wp!Created \in Nat
    BY DEF WorkerInv, WorkersFit
  <2>2. IsFiniteSet(FailedIn(thread)) /\ Cardinality(FailedIn(thread)) \in Nat
    BY FailedCount
  <2>3. CASE doing = "failed"
    <3>1. FailedIn(thread') = FailedIn(thread) \cup {w}
      BY <1>1, <2>3 DEF FailedIn
    <3>2. Cardinality(FailedIn(thread')) <= Cardinality(FailedIn(thread)) + 1
      <4>1. CASE w \in FailedIn(thread)
        <5>1. FailedIn(thread') = FailedIn(thread)
          BY <3>1, <4>1
        <5> QED
          BY <2>2, <5>1
      <4>2. CASE w \notin FailedIn(thread)
        <5>1. Cardinality(FailedIn(thread) \cup {w}) = Cardinality(FailedIn(thread)) + 1
          BY <2>2, <4>2, FS_AddElement
        <5>2. Cardinality(FailedIn(thread')) = Cardinality(FailedIn(thread)) + 1
          BY <3>1, <5>1, Zenon
        <5> QED
          BY <2>2, <5>2
      <4> QED
        BY <4>1, <4>2
    <3>3. Wp!Created + Cardinality(FailedIn(thread)) < MaxThreads
      BY <2>3
    <3>4. Cardinality(FailedIn(thread')) \in Nat
      BY FailedCount
    <3> QED
      BY <2>1, <2>2, <3>2, <3>3, <3>4, WorkerConstants
  <2>4. CASE doing # "failed"
    <3>1. FailedIn(thread') \in SUBSET FailedIn(thread)
      BY <1>1, <2>4 DEF FailedIn
    <3>2. Cardinality(FailedIn(thread')) <= Cardinality(FailedIn(thread)) /\ Cardinality(FailedIn(thread')) \in Nat
      BY <2>2, <3>1, FS_Subset, FailedCount
    <3> QED
      BY <2>1, <2>2, <3>2, WorkerConstants
  <2> QED
    BY <2>3, <2>4
<1>4. WorkersFit(Wp!Created, workers, current, thread')
  BY <1>1, <1>2, <1>3 DEF WorkerInv, WorkersFit
<1>5. Wp!Created' = Wp!Created
  BY <1>4, CreatedAfter
<1>6. RepliesFit(current, thread', posted)
  <2>1. RepliesFit(current, thread, posted)
    BY DEF WorkerInv
  <2> QED
    BY <1>1, <2>1 DEF RepliesFit
<1> QED
  BY <1>4, <1>5, <1>6 DEF WorkerInv, Wp!NoIdleWorker

\* Both handlers answer the task on record and take it off.
LEMMA CurrentAnswered ==
  ASSUME WorkerInv, NEW w \in Wp!Threads, Wp!AnswerCurrent(w)
  PROVE  TasksFit(waiting, [current EXCEPT ![w] = None], answer')
<1> DEFINE freed == [current EXCEPT ![w] = None]
<1>1. \A v \in Wp!Threads : freed[v] = IF v = w THEN None ELSE current[v]
  BY WorkerFacts
<1> HIDE DEF freed
<1>2. /\ answer' \in [PoolTasks -> {"none", "pending", "settled"}]
      /\ \A t \in PoolTasks : answer'[t] = IF t = current[w] THEN "settled" ELSE answer[t]
  BY WorkerFacts DEF Wp!AnswerCurrent
<1>3. TasksFit(waiting, current, answer)
  BY DEF WorkerInv
<1>4. \A s \in PoolTasks : s # None
  BY WorkerConstants
<1>5. \A s \in PoolTasks : (\E v \in Wp!Threads : freed[v] = s) <=>
                           s # current[w] /\ \E v \in Wp!Threads : current[v] = s
  BY <1>1, <1>3, <1>4 DEF TasksFit
<1>6. \A v \in Wp!Threads : freed[v] \notin Range(waiting)
  <2>1. None \notin Range(waiting)
    <3>1. Range(waiting) \subseteq PoolTasks
      BY WorkerFacts, LineCardinality
    <3> QED
      BY <3>1, WorkerConstants
  <2> QED
    BY <1>1, <1>3, <2>1 DEF TasksFit
<1>7. current[w] \notin Range(waiting)
  BY <1>3 DEF TasksFit
<1>8. \A s \in PoolTasks \ Unclonable :
        answer'[s] = "pending" <=> s \in Range(waiting) \/ \E v \in Wp!Threads : freed[v] = s
  BY <1>2, <1>3, <1>5, <1>7 DEF TasksFit
<1>9. \A s \in PoolTasks : s \in Range(waiting) \/ (\E v \in Wp!Threads : freed[v] = s) => answer'[s] # "none"
  BY <1>2, <1>3, <1>5 DEF TasksFit
<1>10. \A u, v \in Wp!Threads : freed[u] # None /\ freed[u] = freed[v] => u = v
  BY <1>1, <1>3 DEF TasksFit
<1>11. TasksFit(waiting, freed, answer')
  BY <1>2, <1>3, <1>6, <1>8, <1>9, <1>10 DEF TasksFit
<1> QED
  BY <1>11 DEF freed

\* While tasks wait only the worker that was freed has nothing to do.
LEMMA OneIdle ==
  ASSUME WorkerInv, NEW w \in Wp!Threads, waiting # <<>>, NEW i \in Wp!IdleAt(workers, [current EXCEPT ![w] = None])
  PROVE  workers[i] = w
<1>1. i \in DOMAIN workers /\ workers[i] \notin Wp!Busy([current EXCEPT ![w] = None])
  BY DEF Wp!IdleAt
<1>2. workers[i] \in Wp!Busy(current)
  BY <1>1 DEF WorkerInv, Wp!NoIdleWorker, Wp!IdleAt
<1> QED
  BY <1>1, <1>2, WorkerFacts DEF Wp!Busy

\* The two handlers end alike.
LEMMA HandlerKeeps ==
  ASSUME WorkerInv, WorkerFlags, UNCHANGED toStop,
         NEW n, NEW pool, NEW freed, NEW now,
         Wp!ProcessQueue(pool, freed, now),
         WorkersFit(n, pool, freed, now), TasksFit(waiting, freed, answer'), RepliesFit(freed, now, posted),
         Len(pool) = PoolSize \/ pool = <<>>,
         waiting # <<>> => \A i, j \in Wp!IdleAt(pool, freed) : i = j
  PROVE  WorkerInv' /\ workers' = pool
<1>1. terminated => waiting = <<>>
  BY DEF WorkerFlags
<1>2. /\ WorkersFit(n, workers', current', thread')
      /\ TasksFit(waiting', current', answer')
      /\ RepliesFit(current', thread', posted')
      /\ waiting' # <<>> => Wp!IdleAt(workers', current') = {}
      /\ workers' = pool
  BY <1>1, QueueProcessed
<1>3. Wp!Created' = n
  BY <1>2, CreatedAfter
<1>4. toStop' \in SUBSET Wp!Threads
  BY DEF WorkerInv
<1> QED
  BY <1>2, <1>3, <1>4 DEF WorkerInv, Wp!NoIdleWorker

LEMMA OnMessageKeeps ==
  ASSUME WorkerInv, WorkerFlags, NEW w \in Wp!Threads, Wp!OnMessage(w)
  PROVE  WorkerInv' /\ workers' = workers
<1> DEFINE freed == [current EXCEPT ![w] = None]
           now == [thread EXCEPT ![w] = "idle"]
<1>1. thread[w] = "replied" /\ Wp!AnswerCurrent(w) /\ Wp!ProcessQueue(workers, freed, now) /\ UNCHANGED toStop
  BY DEF Wp!OnMessage
<1>2. /\ \A v \in Wp!Threads : freed[v] = IF v = w THEN None ELSE current[v]
      /\ \A v \in Wp!Threads : now[v] = IF v = w THEN "idle" ELSE thread[v]
      /\ freed \in [Wp!Threads -> PoolTasks \cup {None}] /\ now \in [Wp!Threads -> Doings]
  BY WorkerFacts DEF Doings
<1>3. TasksFit(waiting, freed, answer')
  BY <1>1, CurrentAnswered
<1>4. waiting # <<>> => \A i, j \in Wp!IdleAt(workers, freed) : i = j
  <2> SUFFICES ASSUME waiting # <<>>, NEW i \in Wp!IdleAt(workers, freed), NEW j \in Wp!IdleAt(workers, freed)
               PROVE  i = j
    OBVIOUS
  <2>1. workers[i] = w /\ workers[j] = w
    BY OneIdle
  <2> QED
    BY <2>1, WorkerFacts DEF IsInjective, Wp!IdleAt
<1> HIDE DEF freed, now
<1>5. FailedIn(now) = FailedIn(thread)
  BY <1>1, <1>2 DEF FailedIn
<1>6. WorkersFit(Wp!Created, workers, freed, now)
  BY <1>1, <1>2, <1>5 DEF WorkerInv, WorkersFit
<1>7. RepliesFit(freed, now, posted)
  BY <1>2 DEF WorkerInv, RepliesFit
<1>8. Len(workers) = PoolSize \/ workers = <<>>
  BY DEF WorkerInv
<1> QED
  BY <1>1, <1>3, <1>4, <1>6, <1>7, <1>8, HandlerKeeps

LEMMA OnErrorKeeps ==
  ASSUME WorkerInv, WorkerFlags, NEW w \in Wp!Threads, Wp!OnError(w)
  PROVE  WorkerInv' /\ (workers # <<>> => workers' # <<>>)
<1> DEFINE freed == [current EXCEPT ![w] = None]
           new == Wp!Created + 1
<1>1. thread[w] = "failed" /\ Wp!AnswerCurrent(w) /\ UNCHANGED toStop
  BY DEF Wp!OnError
<1>2. /\ \A v \in Wp!Threads : freed[v] = IF v = w THEN None ELSE current[v]
      /\ freed \in [Wp!Threads -> PoolTasks \cup {None}] /\ thread \in [Wp!Threads -> Doings]
      /\ workers \in Seq(1 .. Wp!Created) /\ Wp!Created \in Nat /\ Wp!Created <= MaxThreads
      /\ IsInjective(workers) /\ Len(workers) \in Nat /\ DOMAIN workers = 1 .. Len(workers)
  BY WorkerFacts, LenProperties
<1>3. TasksFit(waiting, freed, answer')
  BY <1>1, CurrentAnswered
<1>4. waiting # <<>> => \A i \in Wp!IdleAt(workers, freed) : workers[i] = w
  BY OneIdle
<1> HIDE DEF freed
<1>5. /\ Wp!Created + Cardinality(FailedIn(thread)) <= MaxThreads
      /\ \A v \in Wp!Threads : thread[v] = "none" <=> v > Wp!Created
      /\ \A v \in Wp!Threads : thread[v] = "none" => current[v] = None
      /\ RepliesFit(current, thread, posted)
  BY DEF WorkerInv, WorkersFit
<1>6. w \in FailedIn(thread) /\ IsFiniteSet(FailedIn(thread)) /\ Cardinality(FailedIn(thread)) \in Nat
  BY <1>1, FailedCount DEF FailedIn
<1>7. /\ Cardinality(FailedIn(thread) \ {w}) = Cardinality(FailedIn(thread)) - 1
      /\ Cardinality(FailedIn(thread) \ {w}) \in Nat
  <2>1. /\ IsFiniteSet(FailedIn(thread) \ {w})
        /\ Cardinality(FailedIn(thread) \ {w}) = Cardinality(FailedIn(thread)) - 1
    BY <1>6, FS_RemoveElement
  <2> QED
    BY <2>1, FS_CardinalityType
<1>8. Len(workers) = PoolSize \/ workers = <<>>
  BY DEF WorkerInv
<1>9. CASE /\ w \in Wp!InPool
           /\ Wp!ProcessQueue([i \in DOMAIN workers |-> IF workers[i] = w THEN new ELSE workers[i]],
                              freed, [thread EXCEPT ![w] = "gone", ![new] = "idle"])
  <2> DEFINE pool == [i \in DOMAIN workers |-> IF workers[i] = w THEN new ELSE workers[i]]
             now == [thread EXCEPT ![w] = "gone", ![new] = "idle"]
  <2>1. new \in Nat /\ new \in Wp!Threads /\ new # w /\ thread[new] = "none"
    <3>1. new \in Nat /\ new <= MaxThreads
      <4>1. Cardinality(FailedIn(thread)) \in Nat \ {0}
        BY <1>6, <1>7
      <4> QED
        BY <1>2, <1>5, <4>1, WorkerConstants
    <3>2. new \in Wp!Threads
      BY <1>2, <3>1, WorkerConstants
    <3>3. thread[new] = "none"
      BY <1>2, <1>5, <3>1, <3>2
    <3> QED
      BY <1>1, <3>1, <3>2, <3>3
  <2>2. \A i \in 1 .. Len(workers) : workers[i] \in 1 .. Wp!Created /\ workers[i] # new
    <3>1. \A i \in 1 .. Len(workers) : workers[i] \in 1 .. Wp!Created
      BY <1>2, ElementOfSeq
    <3>2. new \notin 1 .. Wp!Created
      BY <1>2
    <3> QED
      BY <3>1, <3>2
  <2>3. /\ now \in [Wp!Threads -> Doings]
        /\ \A v \in Wp!Threads : now[v] = IF v = new THEN "idle" ELSE IF v = w THEN "gone" ELSE thread[v]
    BY <1>2, <2>1 DEF Doings
  <2>4. \A i \in 1 .. Len(workers) : pool[i] = IF workers[i] = w THEN new ELSE workers[i]
    BY <1>2
  <2>5. pool \in Seq(1 .. new) /\ Len(pool) = Len(workers) /\ DOMAIN pool = 1 .. Len(workers)
    <3>1. \A i \in 1 .. Len(workers) : (IF workers[i] = w THEN new ELSE workers[i]) \in 1 .. new
      BY <1>2, <2>1, <2>2
    <3>2. pool = [i \in 1 .. Len(workers) |-> IF workers[i] = w THEN new ELSE workers[i]]
      BY <1>2
    <3> QED
      BY <1>2, <3>1, <3>2, IsASeq, LenProperties
  <2> HIDE DEF new, pool, now
  <2>6. IsInjective(pool)
    <3> SUFFICES ASSUME NEW i \in 1 .. Len(workers), NEW j \in 1 .. Len(workers), pool[i] = pool[j] PROVE i = j
      BY <2>5 DEF IsInjective
    <3>1. workers[i] = workers[j]
      BY <2>2, <2>4
    <3> QED
      BY <1>2, <3>1 DEF IsInjective
  <2>7. FailedIn(now) = FailedIn(thread) \ {w}
    BY <2>1, <2>3 DEF FailedIn
  <2>8. \A v \in Wp!Threads : now[v] = "none" <=> v > new
    <3> SUFFICES ASSUME NEW v \in Wp!Threads PROVE now[v] = "none" <=> v > new
      OBVIOUS
    <3>1. v \in Nat /\ (v > new <=> v > Wp!Created /\ v # new)
      BY <1>2, WorkerConstants DEF new
    <3>2. CASE v = w
      BY <1>1, <1>5, <2>1, <2>3, <3>1, <3>2
    <3>3. CASE v # w
      BY <1>5, <2>3, <3>1, <3>3
    <3> QED
      BY <3>2, <3>3
  <2>9. \A v \in Wp!Threads : now[v] = "none" => freed[v] = None
    BY <1>2, <1>5, <2>3
  <2>10. new + Cardinality(FailedIn(now)) <= MaxThreads
    BY <1>2, <1>5, <1>6, <1>7, <2>7, WorkerConstants DEF new
  <2>11. WorkersFit(new, pool, freed, now)
    BY <1>2, <2>1, <2>3, <2>5, <2>6, <2>8, <2>9, <2>10 DEF WorkersFit
  <2>12. RepliesFit(freed, now, posted)
    BY <1>2, <1>5, <2>3 DEF RepliesFit
  <2>13. waiting # <<>> => \A i, j \in Wp!IdleAt(pool, freed) : i = j
    <3> SUFFICES ASSUME waiting # <<>>, NEW i \in Wp!IdleAt(pool, freed), NEW j \in Wp!IdleAt(pool, freed)
                 PROVE  i = j
      OBVIOUS
    <3>1. ASSUME NEW k \in Wp!IdleAt(pool, freed) PROVE k \in DOMAIN workers /\ workers[k] = w
      <4>1. k \in 1 .. Len(workers) /\ pool[k] \notin Wp!Busy(freed)
        BY <2>5, <3>1 DEF Wp!IdleAt
      <4>2. CASE workers[k] # w
        <5>1. pool[k] = workers[k]
          BY <2>4, <4>1, <4>2
        <5>2. k \in Wp!IdleAt(workers, freed)
          BY <1>2, <4>1, <5>1 DEF Wp!IdleAt
        <5> QED
          BY <1>4, <4>2, <5>2
      <4> QED
        BY <1>2, <4>1, <4>2
    <3>2. workers[i] = w /\ workers[j] = w /\ i \in DOMAIN workers /\ j \in DOMAIN workers
      BY <3>1
    <3> QED
      BY <1>2, <3>2 DEF IsInjective
  <2>14. Len(pool) = PoolSize \/ pool = <<>>
    BY <1>8, <2>5, EmptySeq
  <2>15. workers # <<>> => pool # <<>>
    <3>1. workers # <<>> => Len(workers) # 0
      BY <1>2, EmptySeq
    <3> QED
      BY <2>5, <3>1, EmptySeq
  <2>16. Wp!ProcessQueue(pool, freed, now)
    BY <1>9 DEF pool, now
  <2> QED
    BY <1>1, <1>3, <2>11, <2>12, <2>13, <2>14, <2>15, <2>16, HandlerKeeps
<1>10. CASE w \notin Wp!InPool /\ Wp!ProcessQueue(workers, freed, [thread EXCEPT ![w] = "gone"])
  <2> DEFINE now == [thread EXCEPT ![w] = "gone"]
  <2>1. /\ now \in [Wp!Threads -> Doings]
        /\ \A v \in Wp!Threads : now[v] = IF v = w THEN "gone" ELSE thread[v]
    BY <1>2 DEF Doings
  <2> HIDE DEF now
  <2>2. FailedIn(now) = FailedIn(thread) \ {w}
    BY <2>1 DEF FailedIn
  <2>3. Wp!Created + Cardinality(FailedIn(now)) <= MaxThreads
    BY <1>2, <1>5, <1>6, <1>7, <2>2, WorkerConstants
  <2>4. \A v \in Wp!Threads : now[v] = "none" <=> v > Wp!Created
    BY <1>1, <1>5, <2>1
  <2>5. \A v \in Wp!Threads : now[v] = "none" => freed[v] = None
    BY <1>2, <1>5, <2>1
  <2>6. WorkersFit(Wp!Created, workers, freed, now)
    BY <1>2, <2>1, <2>3, <2>4, <2>5 DEF WorkersFit
  <2>7. RepliesFit(freed, now, posted)
    BY <1>2, <1>5, <2>1 DEF RepliesFit
  <2>8. waiting # <<>> => Wp!IdleAt(workers, freed) = {}
    BY <1>4, <1>10, WorkerCounts DEF Wp!InPool, Range, Wp!IdleAt
  <2>9. Wp!ProcessQueue(workers, freed, now)
    BY <1>10 DEF now
  <2> QED
    BY <1>1, <1>3, <1>8, <2>6, <2>7, <2>8, <2>9, HandlerKeeps
<1> QED
  BY <1>9, <1>10 DEF Wp!OnError, freed

LEMMA TerminateKeeps ==
  ASSUME WorkerInv, Wp!Terminate
  PROVE  WorkerInv' /\ waiting' = <<>> /\ UNCHANGED workers
<1>1. /\ toStop' = Wp!InPool /\ waiting' = <<>>
      /\ answer' = [t \in PoolTasks |-> IF t \in Wp!Range(waiting) THEN "settled" ELSE answer[t]]
      /\ UNCHANGED <<workers, current, thread, posted>>
  BY DEF Wp!Terminate
<1>2. \A t \in PoolTasks : answer'[t] = IF t \in Range(waiting) THEN "settled" ELSE answer[t]
  BY <1>1, WorkerCounts
<1>3. answer' \in [PoolTasks -> {"none", "pending", "settled"}]
  BY <1>1, WorkerFacts
<1>4. Range(<<>>) = {} /\ IsInjective(<<>>) /\ <<>> \in Seq(PoolTasks)
  BY EmptySeq DEF Range, IsInjective
<1>5. TasksFit(waiting, current, answer)
  BY DEF WorkerInv
<1>6. \A t \in PoolTasks \ Unclonable : answer'[t] = "pending" <=> \E w \in Wp!Threads : current[w] = t
  BY <1>2, <1>5 DEF TasksFit
<1>7. \A t \in PoolTasks : (\E w \in Wp!Threads : current[w] = t) => answer'[t] # "none"
  BY <1>2, <1>5 DEF TasksFit
<1>8. TasksFit(<<>>, current, answer')
  BY <1>3, <1>4, <1>5, <1>6, <1>7 DEF TasksFit
<1>9. Wp!Created' = Wp!Created
  BY <1>1 DEF Wp!Created
<1>10. toStop' \subseteq Wp!Threads
  <2>1. Range(workers) \subseteq 1 .. Wp!Created
    BY WorkerFacts, LineCardinality
  <2> QED
    BY <1>1, <2>1, WorkerCounts, WorkerConstants, WorkerFacts DEF Wp!InPool
<1> QED
  BY <1>1, <1>8, <1>9, <1>10 DEF WorkerInv, Wp!NoIdleWorker

LEMMA FinishTerminateKeeps ==
  ASSUME WorkerInv, WorkerFlags, Wp!FinishTerminate
  PROVE  WorkerInv'
<1>1. workers' = <<>> /\ terminated /\ UNCHANGED <<current, waiting, toStop, thread, posted, answer>>
  BY DEF Wp!FinishTerminate
<1>2. waiting = <<>>
  BY <1>1 DEF WorkerFlags
<1>3. workers' \in Seq(1 .. Wp!Created) /\ IsInjective(workers')
  BY <1>1, EmptySeq DEF IsInjective
<1>4. Wp!Created' = Wp!Created
  BY <1>1 DEF Wp!Created
<1>5. WorkersFit(Wp!Created, workers', current, thread)
  BY <1>3 DEF WorkerInv, WorkersFit
<1> QED
  BY <1>1, <1>2, <1>4, <1>5 DEF WorkerInv, Wp!NoIdleWorker

\* The bound on the threads, as Break states it.
LEMMA BreakBound ==
  ASSUME NEW w \in Wp!Threads, Wp!Break(w)
  PROVE  Wp!Created + Cardinality(FailedIn(thread)) < MaxThreads
BY WorkerCounts DEF Wp!Break, FailedIn

\* What a step does to the flags.
LEMMA FlagSteps ==
  ASSUME WorkerInv, WorkerFlags, Wp!Next
  PROVE  /\ terminated' \in BOOLEAN /\ crashed' \in BOOLEAN
         /\ terminated' = terminated \/ Wp!Terminate
         /\ terminated => waiting' = waiting
<1>1. ASSUME NEW pool, NEW freed, NEW now, Wp!ProcessQueue(pool, freed, now)
      PROVE  crashed' \in BOOLEAN /\ (terminated => waiting' = waiting)
  <2>1. CASE waiting = <<>> \/ terminated \/ Wp!IdleAt(pool, freed) = {}
    <3>1. crashed' = crashed /\ waiting' = waiting
      BY <1>1, <2>1 DEF Wp!ProcessQueue
    <3> QED
      BY <3>1 DEF WorkerFlags
  <2>2. CASE ~(waiting = <<>> \/ terminated \/ Wp!IdleAt(pool, freed) = {})
    <3>1. crashed' = (Head(waiting) \in Unclonable)
      BY <1>1, <2>2 DEF Wp!ProcessQueue
    <3> QED
      BY <2>2, <3>1
  <2> QED
    BY <2>1, <2>2
<1>2. ASSUME NEW t \in PoolTasks, Wp!Run(t)
      PROVE  terminated' = terminated /\ crashed' = crashed /\ (terminated => waiting' = waiting)
  BY <1>2 DEF Wp!Run, Wp!Assign, Wp!Enqueue, Wp!Refuse
<1>3. ASSUME NEW w \in Wp!Threads, Wp!Work(w) \/ Wp!Break(w) \/ Wp!Exit(w)
      PROVE  terminated' = terminated /\ crashed' = crashed /\ waiting' = waiting
  BY <1>3 DEF Wp!Work, Wp!Break, Wp!Exit
<1>4. ASSUME NEW w \in Wp!Threads, Wp!OnMessage(w) \/ Wp!OnError(w)
      PROVE  terminated' = terminated /\ crashed' \in BOOLEAN /\ (terminated => waiting' = waiting)
  BY <1>1, <1>4 DEF Wp!OnMessage, Wp!OnError
<1>5. CASE Wp!Terminate
  BY <1>5 DEF Wp!Terminate, WorkerFlags
<1>6. CASE Wp!FinishTerminate
  BY <1>6 DEF Wp!FinishTerminate, WorkerFlags
<1>7. terminated \in BOOLEAN /\ crashed \in BOOLEAN
  BY DEF WorkerFlags
<1> QED
  BY <1>2, <1>3, <1>4, <1>5, <1>6, <1>7 DEF Wp!Next

LEMMA WorkersNext == WorkerInv /\ WorkerFlags /\ [Wp!Next]_(Wp!vars) => WorkerInv' /\ WorkerFlags'
<1> SUFFICES ASSUME WorkerInv, WorkerFlags, [Wp!Next]_(Wp!vars) PROVE WorkerInv' /\ WorkerFlags'
  OBVIOUS
<1>1. CASE UNCHANGED Wp!vars
  <2>1. Wp!Created' = Wp!Created
    BY <1>1 DEF Wp!vars, Wp!Created
  <2> QED
    BY <1>1, <2>1 DEF Wp!vars, WorkerInv, WorkerFlags, Wp!NoIdleWorker
<1>2. CASE Wp!Next
  <2>1. ASSUME NEW t \in PoolTasks, Wp!Run(t)
        PROVE  WorkerInv' /\ UNCHANGED workers
    <3>1. answer[t] = "none" /\ UNCHANGED toStop /\ (Wp!Refuse(t) \/ Wp!Assign(t) \/ Wp!Enqueue(t))
      BY <2>1 DEF Wp!Run
    <3>2. UNCHANGED workers
      BY <3>1 DEF Wp!Refuse, Wp!Assign, Wp!Enqueue
    <3> QED
      BY <3>1, <3>2, RefuseKeeps, AssignKeeps, EnqueueKeeps
  <2>2. ASSUME NEW w \in Wp!Threads, Wp!Work(w) PROVE WorkerInv' /\ UNCHANGED workers
    <3>1. /\ thread[w] = "working" /\ thread' = [thread EXCEPT ![w] = "replied"]
          /\ UNCHANGED <<workers, current, waiting, toStop, posted, answer>>
      BY <2>2 DEF Wp!Work
    <3>2. "replied" \in Doings \ {"none"} /\ thread[w] # "none" /\ "replied" # "working"
          /\ "replied" # "failed"
      BY <3>1 DEF Doings
    <3> QED
      BY <3>1, <3>2, ThreadMoves
  <2>3. ASSUME NEW w \in Wp!Threads, Wp!Break(w) PROVE WorkerInv' /\ UNCHANGED workers
    <3>1. /\ thread[w] \in {"idle", "working"} /\ thread' = [thread EXCEPT ![w] = "failed"]
          /\ UNCHANGED <<workers, current, waiting, toStop, posted, answer>>
      BY <2>3 DEF Wp!Break
    <3>2. "failed" \in Doings \ {"none"} /\ thread[w] # "none" /\ "failed" # "working" /\ "failed" # "replied"
      BY <3>1 DEF Doings
    <3>3. Wp!Created + Cardinality(FailedIn(thread)) < MaxThreads
      BY <2>3, BreakBound
    <3> QED
      BY <3>1, <3>2, <3>3, ThreadMoves
  <2>4. ASSUME NEW w \in Wp!Threads, Wp!Exit(w) PROVE WorkerInv' /\ UNCHANGED workers
    <3>1. /\ thread[w] \in {"idle", "working"} /\ thread' = [thread EXCEPT ![w] = "gone"]
          /\ UNCHANGED <<workers, current, waiting, toStop, posted, answer>>
      BY <2>4 DEF Wp!Exit
    <3>2. "gone" \in Doings \ {"none"} /\ thread[w] # "none" /\ "gone" # "working" /\ "gone" # "replied"
          /\ "gone" # "failed"
      BY <3>1 DEF Doings
    <3> QED
      BY <3>1, <3>2, ThreadMoves
  <2>5. WorkerInv' /\ (~terminated' /\ workers # <<>> => workers' # <<>>)
    <3>1. CASE Wp!FinishTerminate
      <4>1. terminated' = terminated /\ terminated
        BY <3>1 DEF Wp!FinishTerminate
      <4> QED
        BY <3>1, <4>1, FinishTerminateKeeps
    <3> QED
      BY <1>2, <2>1, <2>2, <2>3, <2>4, <3>1, OnMessageKeeps, OnErrorKeeps, TerminateKeeps DEF Wp!Next
  <2>6. WorkerFlags'
    <3>1. /\ terminated' \in BOOLEAN /\ crashed' \in BOOLEAN
          /\ terminated' = terminated \/ Wp!Terminate
          /\ terminated => waiting' = waiting
      BY <1>2, FlagSteps
    <3>2. terminated' => waiting' = <<>>
      <4>1. CASE Wp!Terminate
        BY <4>1, TerminateKeeps
      <4>2. CASE terminated' = terminated
        BY <3>1, <4>2 DEF WorkerFlags
      <4> QED
        BY <3>1, <4>1, <4>2
    <3>3. ~terminated' => workers' # <<>>
      <4>1. CASE Wp!Terminate
        BY <4>1 DEF Wp!Terminate
      <4>2. CASE terminated' = terminated
        BY <2>5, <4>2 DEF WorkerFlags
      <4> QED
        BY <3>1, <4>1, <4>2
    <3> QED
      BY <3>1, <3>2, <3>3 DEF WorkerFlags
  <2> QED
    BY <2>5, <2>6
<1> QED
  BY <1>1, <1>2

\* What the invariant says of the properties.
LEMMA WorkersHold ==
  WorkerInv /\ WorkerFlags => Wp!TypeOK /\ Wp!RepliesMatch /\ Wp!TasksAccounted
<1> SUFFICES ASSUME WorkerInv, WorkerFlags PROVE Wp!TypeOK /\ Wp!RepliesMatch /\ Wp!TasksAccounted
  OBVIOUS
<1>1. Len(workers) = PoolSize \/ (terminated /\ workers = <<>>)
  <2>1. CASE workers = <<>>
    BY <2>1 DEF WorkerFlags
  <2>2. CASE workers # <<>>
    BY <2>2 DEF WorkerInv
  <2> QED
    BY <2>1, <2>2
<1>2. Wp!TypeOK
  <2>1. terminated \in BOOLEAN /\ crashed \in BOOLEAN
    BY DEF WorkerFlags
  <2>2. toStop \in SUBSET Wp!Threads
    BY DEF WorkerInv
  <2> QED
    BY <1>1, <2>1, <2>2, WorkerFacts DEF Wp!TypeOK, Doings
<1>3. Wp!RepliesMatch
  BY DEF WorkerInv, RepliesFit, Wp!RepliesMatch
<1>4. Wp!TaskInOnePlace
  BY WorkerCounts, WorkerFacts DEF WorkerInv, TasksFit, Wp!TaskInOnePlace, Wp!Busy
<1>5. Wp!AnsweredWhenOut
  BY WorkerCounts DEF WorkerInv, TasksFit, Wp!AnsweredWhenOut
<1> QED
  BY <1>2, <1>3, <1>4, <1>5 DEF WorkerInv, Wp!TasksAccounted

-----------------------------------------------------------------------------
(* The task queue of packages/worker.                                     *)

LEMMA QueueConstants == IsFiniteSet(QueueTasks) /\ Limits \subseteq Nat \ {0}
BY LimitsAssumption DEF Tq!LimitsOK, Tq!IsFiniteSet, IsFiniteSet

LEMMA QueueLibrary ==
  /\ \A S : Tq!Cardinality(S) = Cardinality(S) /\ Tq!Range(S) = Range(S)
  /\ \A S : Tq!IsInjective(S) = IsInjective(S)
BY DEF Tq!Cardinality, Cardinality, Tq!Range, Range, Tq!IsInjective, IsInjective

Where(now, p) == {t \in QueueTasks : now[t] = p}

\* A line of tasks, the tasks that run and their count: what _process() is given.
LineFits(line, now, active) ==
  /\ line \in Seq(QueueTasks) /\ IsInjective(line)
  /\ now \in [QueueTasks -> Tq!Phases]
  /\ Range(line) = Where(now, "queued")
  /\ IsFiniteSet(Where(now, "running")) /\ active = Cardinality(Where(now, "running"))

\* The inductive invariant: that nothing waits without a reason rests on the count,
\* and the count on every task being in one place.
QueueInv ==
  /\ concurrency \in Limits /\ running \in Nat
  /\ LineFits(queue, taskPhase, running)
  /\ Tq!NoIdleRoom

\* What _process() makes of what it is given: it fits again, nothing is left in the
\* line that could run, and what has started is the front of the line.
LEMMA LineProcessed ==
  ASSUME NEW limit \in Nat, NEW active \in Nat, NEW line, NEW now,
         LineFits(line, now, active), Tq!Process(limit, active, line, now)
  PROVE  /\ running' \in Nat /\ LineFits(queue', taskPhase', running')
         /\ queue' # <<>> => running' >= limit
         /\ running' <= limit \/ Where(taskPhase', "running") = Where(now, "running")
         /\ \A i, j \in 1 .. Len(line) :
              i < j /\ taskPhase'[line[j]] = "running" => taskPhase'[line[i]] = "running"
<1> DEFINE room == IF active < limit THEN limit - active ELSE 0
           n == IF room < Len(line) THEN room ELSE Len(line)
           started == {line[i] : i \in 1 .. n}
           taken == SubSeq(line, 1, n)
           rest == SubSeq(line, n + 1, Len(line))
<1>1. /\ line \in Seq(QueueTasks) /\ IsInjective(line) /\ Len(line) \in Nat
      /\ DOMAIN line = 1 .. Len(line) /\ \A i \in 1 .. Len(line) : line[i] \in QueueTasks
  BY LenProperties, ElementOfSeq DEF LineFits
<1>2. n \in 0 .. Len(line) /\ (n = Len(line) \/ active + n >= limit) /\ (n = 0 \/ active + n <= limit)
  BY <1>1
<1>3. /\ running' = active + n /\ queue' = rest
      /\ taskPhase' = [t \in QueueTasks |-> IF t \in started THEN "running" ELSE now[t]]
  BY DEF Tq!Process
<1> HIDE DEF n
<1>0. n \in Nat /\ Len(line) \in Nat /\ n <= Len(line)
  <2>1. Len(line) \in Nat
    BY <1>1
  <2>2. n \in 0 .. Len(line)
    BY <1>2
  <2> QED
    BY <2>1, <2>2
<1>a. \A i \in 1 .. n : i \in 1 .. Len(line)
  BY <1>0
<1>b. \A i \in 1 .. Len(line) - n : n + i \in 1 .. Len(line) /\ n + i \notin 1 .. n
  BY <1>0
<1>4. /\ taken \in Seq(QueueTasks) /\ Len(taken) = n /\ \A i \in 1 .. n : taken[i] = line[i]
      /\ DOMAIN taken = 1 .. n
  <2>1. 1 \in Int /\ n \in Int /\ \A i \in 1 .. n : line[i] \in QueueTasks
    BY <1>0, <1>1, <1>a
  <2>2. /\ taken \in Seq(QueueTasks)
        /\ Len(taken) = IF 1 <= n THEN n - 1 + 1 ELSE 0
        /\ \A i \in 1 .. n - 1 + 1 : taken[i] = line[1 + i - 1]
    BY <2>1, SubSeqProperties
  <2>3. Len(taken) = n /\ \A i \in 1 .. n : taken[i] = line[i]
    <3>1. Len(taken) = n
      BY <1>0, <2>2
    <3>2. \A i \in 1 .. n : 1 + i - 1 = i /\ i \in 1 .. n - 1 + 1
      BY <1>0
    <3> QED
      BY <2>2, <3>1, <3>2
  <2> QED
    BY <2>2, <2>3, LenProperties
<1>5. /\ rest \in Seq(QueueTasks) /\ Len(rest) = Len(line) - n /\ \A i \in 1 .. Len(line) - n : rest[i] = line[n + i]
      /\ DOMAIN rest = 1 .. Len(line) - n
  <2>1. \A i \in n + 1 .. Len(line) : line[i] \in QueueTasks
    BY <1>0, <1>1
  <2>2. /\ rest \in Seq(QueueTasks)
        /\ Len(rest) = IF n + 1 <= Len(line) THEN Len(line) - (n + 1) + 1 ELSE 0
        /\ \A i \in 1 .. Len(line) - (n + 1) + 1 : rest[i] = line[(n + 1) + i - 1]
    <3>1. n + 1 \in Int /\ Len(line) \in Int
      BY <1>0
    <3> QED
      BY <2>1, <3>1, SubSeqProperties
  <2>3. Len(rest) = Len(line) - n /\ \A i \in 1 .. Len(line) - n : rest[i] = line[n + i]
    <3>1. Len(rest) = Len(line) - n
      BY <1>0, <2>2
    <3>2. \A i \in 1 .. Len(line) - n : i \in 1 .. Len(line) - (n + 1) + 1 /\ (n + 1) + i - 1 = n + i
      BY <1>0
    <3> QED
      BY <2>2, <3>1, <3>2
  <2> QED
    BY <2>2, <2>3, LenProperties
<1> HIDE DEF taken, rest
<1>6. IsInjective(taken) /\ Range(taken) = started
  BY <1>1, <1>4, <1>a DEF IsInjective, Range
<1>7. IsFiniteSet(started) /\ Cardinality(started) = n /\ started \subseteq QueueTasks
  BY <1>4, <1>6, LineCardinality
<1>8. started \subseteq Where(now, "queued")
  BY <1>1, <1>a DEF LineFits, Range
<1>9. IsInjective(rest) /\ Range(rest) = Range(line) \ started
  <2>1. \A i \in 1 .. Len(line) - n : n + i \in 1 .. Len(line) /\ n + i \notin 1 .. n
    BY <1>b
  <2>2. IsInjective(rest)
    <3> SUFFICES ASSUME NEW a \in 1 .. Len(line) - n, NEW b \in 1 .. Len(line) - n, rest[a] = rest[b]
                 PROVE  a = b
      BY <1>5 DEF IsInjective
    <3>1. n + a = n + b
      BY <1>1, <1>5, <2>1 DEF IsInjective
    <3> QED
      BY <1>0, <3>1
  <2>3. ASSUME NEW x \in Range(rest) PROVE x \in Range(line) /\ x \notin started
    <3>1. PICK a \in 1 .. Len(line) - n : x = line[n + a]
      BY <1>5, <2>3 DEF Range
    <3>2. n + a \in 1 .. Len(line) /\ n + a \notin 1 .. n
      BY <2>1
    <3>3. \A b \in 1 .. n : b \in 1 .. Len(line) /\ b # n + a
      BY <1>0, <3>2
    <3>4. x \notin started
      BY <1>1, <3>1, <3>2, <3>3 DEF IsInjective
    <3> QED
      BY <1>1, <3>1, <3>2, <3>4 DEF Range
  <2>4. ASSUME NEW x \in Range(line), x \notin started PROVE x \in Range(rest)
    <3>1. PICK a \in 1 .. Len(line) : x = line[a]
      BY <1>1, <2>4 DEF Range
    <3>2. a \notin 1 .. n
      BY <2>4, <3>1
    <3>3. a - n \in 1 .. Len(line) - n /\ n + (a - n) = a
      BY <1>0, <3>2
    <3> QED
      BY <1>5, <3>1, <3>3 DEF Range
  <2> QED
    BY <2>2, <2>3, <2>4
<1>10. \A i \in 1 .. Len(line) : line[i] \in started <=> i <= n
  <2> SUFFICES ASSUME NEW i \in 1 .. Len(line) PROVE line[i] \in started <=> i <= n
    OBVIOUS
  <2>1. ASSUME line[i] \in started PROVE i <= n
    <3>1. PICK a \in 1 .. n : line[i] = line[a]
      BY <2>1
    <3>2. a \in 1 .. Len(line)
      BY <1>0
    <3>3. i = a
      BY <1>1, <3>1, <3>2 DEF IsInjective
    <3> QED
      BY <1>0, <3>3
  <2>2. ASSUME i <= n PROVE line[i] \in started
    <3>1. i \in 1 .. n
      BY <1>0, <2>2
    <3> QED
      BY <3>1
  <2> QED
    BY <2>1, <2>2
<1>11. /\ now \in [QueueTasks -> Tq!Phases] /\ IsFiniteSet(Where(now, "running"))
       /\ active = Cardinality(Where(now, "running")) /\ Range(line) = Where(now, "queued")
  BY DEF LineFits
<1> HIDE DEF started
<1>12. taskPhase' \in [QueueTasks -> Tq!Phases]
  BY <1>3, <1>11 DEF Tq!Phases
<1>13. Where(taskPhase', "running") = Where(now, "running") \cup started /\ Where(now, "running") \cap started = {}
  BY <1>3, <1>7, <1>8 DEF Where
<1>14. Where(taskPhase', "queued") = Where(now, "queued") \ started
  BY <1>3, <1>7 DEF Where
<1>15. IsFiniteSet(Where(taskPhase', "running")) /\ Cardinality(Where(taskPhase', "running")) = active + n
  <2>1. /\ IsFiniteSet(Where(taskPhase', "running"))
        /\ Cardinality(Where(taskPhase', "running")) = active + n - Cardinality({})
    BY <1>7, <1>11, <1>13, FS_Union
  <2> QED
    BY <1>2, <2>1, FS_EmptySet
<1>16. LineFits(queue', taskPhase', running')
  BY <1>3, <1>5, <1>9, <1>11, <1>12, <1>14, <1>15 DEF LineFits
<1>17. queue' # <<>> => running' >= limit
  <2>1. CASE n = Len(line)
    BY <1>3, <1>5, <2>1, EmptySeq
  <2> QED
    BY <1>2, <1>3, <2>1
<1>18. running' <= limit \/ Where(taskPhase', "running") = Where(now, "running")
  <2>1. CASE n = 0
    BY <1>7, <1>13, <2>1, FS_EmptySet
  <2> QED
    BY <1>2, <1>3, <2>1
<1>19. ASSUME NEW i \in 1 .. Len(line), NEW j \in 1 .. Len(line), i < j, taskPhase'[line[j]] = "running"
       PROVE  taskPhase'[line[i]] = "running"
  <2>1. line[j] \in Where(now, "queued") /\ line[j] \in QueueTasks
    BY <1>1, <1>11 DEF Range
  <2>2. line[j] \in started
    BY <1>3, <1>19, <2>1 DEF Where
  <2>3. line[i] \in started /\ line[i] \in QueueTasks
    <3>1. j <= n
      BY <1>10, <2>2
    <3>2. i <= n
      BY <1>0, <1>19, <3>1
    <3> QED
      BY <1>1, <1>10, <3>2
  <2> QED
    BY <1>3, <2>3
<1> QED
  BY <1>2, <1>3, <1>16, <1>17, <1>18, <1>19

LEMMA QueueInit == Tq!Init => QueueInv
<1> SUFFICES ASSUME Tq!Init PROVE QueueInv
  OBVIOUS
<1>1. Where(taskPhase, "running") = {} /\ Where(taskPhase, "queued") = {}
  BY DEF Tq!Init, Where
<1>2. Range(queue) = {} /\ IsInjective(queue) /\ queue \in Seq(QueueTasks)
  <2>1. Range(<<>>) = {} /\ IsInjective(<<>>)
    BY DEF Range, IsInjective
  <2> QED
    BY <2>1, EmptySeq DEF Tq!Init
<1>3. LineFits(queue, taskPhase, running)
  BY <1>1, <1>2, FS_EmptySet DEF Tq!Init, LineFits, Tq!Phases
<1> QED
  BY <1>3 DEF Tq!Init, QueueInv, Tq!NoIdleRoom

\* add() gives _process() a line that fits, with the new task at its end.
LEMMA QueueAdds ==
  ASSUME QueueInv, NEW t \in QueueTasks, Tq!Add(t)
  PROVE  LineFits(Append(queue, t), [taskPhase EXCEPT ![t] = "queued"], running)
<1> DEFINE now == [taskPhase EXCEPT ![t] = "queued"]
<1>1. taskPhase[t] # "queued" /\ taskPhase[t] # "running"
  BY DEF Tq!Add
<1>2. /\ queue \in Seq(QueueTasks) /\ IsInjective(queue) /\ taskPhase \in [QueueTasks -> Tq!Phases]
      /\ Range(queue) = Where(taskPhase, "queued")
  BY DEF QueueInv, LineFits
<1>3. Where(now, "running") = Where(taskPhase, "running") /\ Where(now, "queued") = Where(taskPhase, "queued") \cup {t}
  BY <1>1, <1>2 DEF Where
<1>4. t \notin Range(queue)
  BY <1>1, <1>2 DEF Where
<1>5. /\ Append(queue, t) \in Seq(QueueTasks) /\ IsInjective(Append(queue, t))
      /\ Range(Append(queue, t)) = Range(queue) \cup {t}
  BY <1>2, <1>4, AppendProperties, RangeAppend, InjectiveAppend
<1>6. now \in [QueueTasks -> Tq!Phases]
  BY <1>2 DEF Tq!Phases
<1> QED
  BY <1>2, <1>3, <1>5, <1>6 DEF QueueInv, LineFits

\* A task that settles leaves the count and the tasks that run together.
LEMMA QueueFinishes ==
  ASSUME QueueInv, NEW t \in QueueTasks, Tq!Finish(t)
  PROVE  /\ running - 1 \in Nat
         /\ LineFits(queue, [taskPhase EXCEPT ![t] = "outside"], running - 1)
<1> DEFINE now == [taskPhase EXCEPT ![t] = "outside"]
<1>1. taskPhase[t] = "running"
  BY DEF Tq!Finish
<1>2. /\ queue \in Seq(QueueTasks) /\ IsInjective(queue) /\ taskPhase \in [QueueTasks -> Tq!Phases]
      /\ Range(queue) = Where(taskPhase, "queued") /\ running \in Nat
      /\ IsFiniteSet(Where(taskPhase, "running")) /\ running = Cardinality(Where(taskPhase, "running"))
  BY DEF QueueInv, LineFits
<1>3. Where(now, "running") = Where(taskPhase, "running") \ {t} /\ Where(now, "queued") = Where(taskPhase, "queued")
  BY <1>1, <1>2 DEF Where
<1>4. t \in Where(taskPhase, "running")
  BY <1>1 DEF Where
<1>5. IsFiniteSet(Where(now, "running")) /\ Cardinality(Where(now, "running")) = running - 1
  <2>1. /\ IsFiniteSet(Where(taskPhase, "running") \ {t})
        /\ Cardinality(Where(taskPhase, "running") \ {t}) = running - 1
    BY <1>2, <1>4, FS_RemoveElement
  <2> QED
    BY <1>3, <2>1
<1>6. running - 1 \in Nat
  BY <1>5, FS_CardinalityType
<1>7. now \in [QueueTasks -> Tq!Phases]
  BY <1>2 DEF Tq!Phases
<1> QED
  BY <1>2, <1>3, <1>5, <1>6, <1>7 DEF LineFits

\* Every step but clear() is one of _process(), on a line, phases and a count that fit.
LEMMA QueueProcesses ==
  ASSUME QueueInv, (\E t \in QueueTasks : Tq!Add(t) \/ Tq!Finish(t)) \/ \E limit \in Limits : Tq!SetConcurrency(limit)
  PROVE  \E active, line, now :
           /\ active \in Nat /\ LineFits(line, now, active) /\ Tq!Process(concurrency', active, line, now)
           /\ concurrency' \in Limits
           /\ Where(now, "running") \subseteq Where(taskPhase, "running")
           /\ line = queue \/ \E t \in QueueTasks : line = Append(queue, t)
<1>1. concurrency \in Limits /\ running \in Nat /\ LineFits(queue, taskPhase, running) /\ taskPhase \in [QueueTasks -> Tq!Phases]
  BY DEF QueueInv, LineFits
<1>2. ASSUME NEW t \in QueueTasks, Tq!Add(t)
      PROVE  /\ LineFits(Append(queue, t), [taskPhase EXCEPT ![t] = "queued"], running)
             /\ Tq!Process(concurrency', running, Append(queue, t), [taskPhase EXCEPT ![t] = "queued"])
             /\ concurrency' = concurrency
             /\ Where([taskPhase EXCEPT ![t] = "queued"], "running") \subseteq Where(taskPhase, "running")
  BY <1>1, <1>2, QueueAdds DEF Tq!Add, Where
<1>3. ASSUME NEW t \in QueueTasks, Tq!Finish(t)
      PROVE  /\ running - 1 \in Nat
             /\ LineFits(queue, [taskPhase EXCEPT ![t] = "outside"], running - 1)
             /\ Tq!Process(concurrency', running - 1, queue, [taskPhase EXCEPT ![t] = "outside"])
             /\ concurrency' = concurrency
             /\ Where([taskPhase EXCEPT ![t] = "outside"], "running") \subseteq Where(taskPhase, "running")
  BY <1>1, <1>3, QueueFinishes DEF Tq!Finish, Where
<1>4. ASSUME NEW limit \in Limits, Tq!SetConcurrency(limit)
      PROVE  Tq!Process(concurrency', running, queue, taskPhase) /\ concurrency' \in Limits
  BY <1>4 DEF Tq!SetConcurrency
<1>5. ASSUME NEW t \in QueueTasks, Tq!Add(t) \/ Tq!Finish(t)
      PROVE  \E active, line, now :
               /\ active \in Nat /\ LineFits(line, now, active) /\ Tq!Process(concurrency', active, line, now)
               /\ concurrency' \in Limits
               /\ Where(now, "running") \subseteq Where(taskPhase, "running")
               /\ line = queue \/ \E u \in QueueTasks : line = Append(queue, u)
  BY <1>1, <1>2, <1>3, <1>5
<1>6. ASSUME NEW limit \in Limits, Tq!SetConcurrency(limit)
      PROVE  \E active, line, now :
               /\ active \in Nat /\ LineFits(line, now, active) /\ Tq!Process(concurrency', active, line, now)
               /\ concurrency' \in Limits
               /\ Where(now, "running") \subseteq Where(taskPhase, "running")
               /\ line = queue \/ \E u \in QueueTasks : line = Append(queue, u)
  BY <1>1, <1>4, <1>6
<1> QED
  BY <1>5, <1>6

\* clear() takes every task out that waits.
LEMMA QueueClears == ASSUME QueueInv, Tq!Clear PROVE QueueInv'
<1>1. /\ queue' = <<>> /\ taskPhase' = [t \in QueueTasks |-> IF t \in Range(queue) THEN "cleared" ELSE taskPhase[t]]
      /\ UNCHANGED <<concurrency, running>>
  BY QueueLibrary DEF Tq!Clear
<1>2. /\ taskPhase \in [QueueTasks -> Tq!Phases] /\ Range(queue) = Where(taskPhase, "queued")
      /\ IsFiniteSet(Where(taskPhase, "running")) /\ running = Cardinality(Where(taskPhase, "running"))
  BY DEF QueueInv, LineFits
<1>3. Where(taskPhase', "running") = Where(taskPhase, "running") /\ Where(taskPhase', "queued") = {}
  BY <1>1, <1>2 DEF Where
<1>4. Range(<<>>) = {} /\ IsInjective(<<>>)
  BY DEF Range, IsInjective
<1>5. taskPhase' \in [QueueTasks -> Tq!Phases]
  BY <1>1, <1>2 DEF Tq!Phases
<1>6. LineFits(queue', taskPhase', running')
  BY <1>1, <1>2, <1>3, <1>4, <1>5, EmptySeq DEF LineFits
<1> QED
  BY <1>1, <1>6 DEF QueueInv, Tq!NoIdleRoom

LEMMA QueueNext == QueueInv /\ [Tq!Next]_(Tq!vars) => QueueInv'
<1> SUFFICES ASSUME QueueInv, [Tq!Next]_(Tq!vars) PROVE QueueInv'
  OBVIOUS
<1>1. CASE (\E t \in QueueTasks : Tq!Add(t) \/ Tq!Finish(t)) \/ \E limit \in Limits : Tq!SetConcurrency(limit)
  <2>1. PICK active, line, now :
          active \in Nat /\ LineFits(line, now, active) /\ Tq!Process(concurrency', active, line, now) /\ concurrency' \in Limits
    BY <1>1, QueueProcesses
  <2>2. concurrency' \in Nat
    BY <2>1, QueueConstants
  <2>3. running' \in Nat /\ LineFits(queue', taskPhase', running') /\ (queue' # <<>> => running' >= concurrency')
    BY <2>1, <2>2, LineProcessed
  <2> QED
    BY <2>1, <2>3 DEF QueueInv, Tq!NoIdleRoom
<1>2. CASE Tq!Clear
  BY <1>2, QueueClears
<1>3. CASE UNCHANGED Tq!vars
  BY <1>3 DEF Tq!vars, QueueInv, Tq!NoIdleRoom
<1> QED
  BY <1>1, <1>2, <1>3 DEF Tq!Next

\* For every set of tasks, and whatever the concurrency is set to and when: the
\* count is that of the tasks that run, the queue holds those that wait, once
\* each, and none of them waits while there is room.
LEMMA QueueHolds == QueueInv => Tq!QueueAccounted
BY QueueLibrary DEF QueueInv, LineFits, Tq!QueueAccounted, Tq!Accounted, Tq!InPhase, Where

\* No more tasks run than there are.
LEMMA QueueTypesHold == QueueInv => Tq!TypeOK
<1> SUFFICES ASSUME QueueInv PROVE Tq!TypeOK
  OBVIOUS
<1>1. /\ concurrency \in Limits /\ queue \in Seq(QueueTasks) /\ taskPhase \in [QueueTasks -> Tq!Phases]
      /\ running = Cardinality(Where(taskPhase, "running"))
  BY DEF QueueInv, LineFits
<1>2. Where(taskPhase, "running") \in SUBSET QueueTasks /\ IsFiniteSet(QueueTasks)
  BY QueueConstants DEF Where
<1>3. running \in 0 .. Cardinality(QueueTasks)
  BY <1>1, <1>2, FS_Subset, FS_CardinalityType
<1> QED
  BY <1>1, <1>3, QueueLibrary DEF Tq!TypeOK

\* The tasks that a step starts are within the limit in force, and come in order.
StartsWithin ==
  (Tq!InPhase("running")' \ Tq!InPhase("running") # {}) => Cardinality(Tq!InPhase("running")') <= concurrency'
StartsOrdered ==
  \A i, j \in DOMAIN queue : i < j /\ taskPhase'[queue[j]] = "running" => taskPhase'[queue[i]] # "queued"

LEMMA QueueStarts ==
  QueueInv /\ [Tq!Next]_(Tq!vars) => [StartsWithin]_(Tq!vars) /\ [StartsOrdered]_(Tq!vars)
<1> SUFFICES ASSUME QueueInv, [Tq!Next]_(Tq!vars)
             PROVE  [StartsWithin]_(Tq!vars) /\ [StartsOrdered]_(Tq!vars)
  OBVIOUS
<1>1. DOMAIN queue = 1 .. Len(queue) /\ Len(queue) \in Nat /\ queue \in Seq(QueueTasks)
  BY LenProperties DEF QueueInv, LineFits
<1>2. CASE (\E t \in QueueTasks : Tq!Add(t) \/ Tq!Finish(t)) \/ \E limit \in Limits : Tq!SetConcurrency(limit)
  <2>1. PICK active, line, now :
          /\ active \in Nat /\ LineFits(line, now, active) /\ Tq!Process(concurrency', active, line, now)
          /\ concurrency' \in Limits
          /\ Where(now, "running") \subseteq Where(taskPhase, "running")
          /\ line = queue \/ \E t \in QueueTasks : line = Append(queue, t)
    BY <1>2, QueueProcesses
  <2>2. concurrency' \in Nat
    BY <2>1, QueueConstants
  <2>3. /\ LineFits(queue', taskPhase', running')
        /\ running' <= concurrency' \/ Where(taskPhase', "running") = Where(now, "running")
        /\ \A i, j \in 1 .. Len(line) :
             i < j /\ taskPhase'[line[j]] = "running" => taskPhase'[line[i]] = "running"
    BY <2>1, <2>2, LineProcessed
  <2>4. StartsWithin
    BY <2>1, <2>3 DEF StartsWithin, LineFits, Tq!InPhase, Where
  <2>5. Len(line) >= Len(queue) /\ \A i \in 1 .. Len(queue) : line[i] = queue[i]
    <3>1. CASE line = queue
      BY <1>1, <3>1
    <3>2. ASSUME NEW t \in QueueTasks, line = Append(queue, t)
          PROVE  Len(line) = Len(queue) + 1 /\ \A i \in 1 .. Len(queue) : line[i] = queue[i]
      BY <1>1, <3>2, AppendProperties
    <3> QED
      BY <1>1, <2>1, <3>1, <3>2
  <2>6. StartsOrdered
    <3> SUFFICES ASSUME NEW i \in 1 .. Len(queue), NEW j \in 1 .. Len(queue),
                        i < j, taskPhase'[queue[j]] = "running"
                 PROVE  taskPhase'[queue[i]] = "running"
      BY <1>1 DEF StartsOrdered
    <3>1. i \in 1 .. Len(line) /\ j \in 1 .. Len(line)
      <4>1. Len(line) \in Nat
        BY <2>1, LenProperties DEF LineFits
      <4> QED
        BY <1>1, <2>5, <4>1
    <3> QED
      BY <2>3, <2>5, <3>1
  <2> QED
    BY <2>4, <2>6
<1>3. CASE Tq!Clear
  <2>1. /\ taskPhase' = [t \in QueueTasks |-> IF t \in Range(queue) THEN "cleared" ELSE taskPhase[t]]
        /\ taskPhase \in [QueueTasks -> Tq!Phases]
    BY <1>3, QueueLibrary DEF Tq!Clear, QueueInv, LineFits
  <2>2. Tq!InPhase("running")' \subseteq Tq!InPhase("running")
    BY <2>1 DEF Tq!InPhase
  <2>3. \A i \in 1 .. Len(queue) : queue[i] \in QueueTasks /\ queue[i] \in Range(queue)
    BY <1>1, ElementOfSeq DEF Range
  <2>4. StartsOrdered
    BY <1>1, <2>1, <2>3 DEF StartsOrdered
  <2> QED
    BY <2>2, <2>4 DEF StartsWithin
<1>4. CASE UNCHANGED Tq!vars
  BY <1>4
<1> QED
  BY <1>2, <1>3, <1>4 DEF Tq!Next

-----------------------------------------------------------------------------
(* The composition: a step is one of a class under test or changes nothing *)
(* of it.                                                                  *)

LEMMA BulkheadSteps == [Next]_vars => [Bh!Next]_(Bh!vars)
BY DEF Next, vars, BulkheadStep, BreakerStep, EnhancedBreakerStep, ConnectionPoolStep,
       TaskQueueStep, WorkerPoolStep, bulkheadVars, Bh!vars

LEMMA BreakerSteps == [Next]_vars => [Cb!Next]_(Cb!vars)
BY DEF Next, vars, BulkheadStep, BreakerStep, EnhancedBreakerStep, ConnectionPoolStep,
       TaskQueueStep, WorkerPoolStep, breakerVars, Cb!vars

LEMMA EnhancedBreakerSteps == [Next]_vars => [Eb!Next]_(Eb!vars)
BY DEF Next, vars, BulkheadStep, BreakerStep, EnhancedBreakerStep, ConnectionPoolStep,
       TaskQueueStep, WorkerPoolStep, enhancedVars, Eb!vars

LEMMA ConnectionPoolSteps == [Next]_vars => [Cp!Next]_(Cp!vars)
BY DEF Next, vars, BulkheadStep, BreakerStep, EnhancedBreakerStep, ConnectionPoolStep,
       TaskQueueStep, WorkerPoolStep, connectionVars, Cp!vars

LEMMA TaskQueueSteps == [Next]_vars => [Tq!Next]_(Tq!vars)
BY DEF Next, vars, BulkheadStep, BreakerStep, EnhancedBreakerStep, ConnectionPoolStep,
       TaskQueueStep, WorkerPoolStep, queueVars, Tq!vars

LEMMA WorkerPoolSteps == [Next]_vars => [Wp!Next]_(Wp!vars)
BY DEF Next, vars, BulkheadStep, BreakerStep, EnhancedBreakerStep, ConnectionPoolStep,
       TaskQueueStep, WorkerPoolStep, workerVars, Wp!vars

\* The bulkhead, about which Bulkhead itself has the proofs, behaves as it does alone.
LEMMA BulkheadAlone == Spec => Bh!SafeSpec
BY BulkheadSteps, PTL DEF Spec, Init, Bh!SafeSpec

\* The inductive invariant of the five classes that are proved about here.
PatternsInv == BreakerInv /\ EnhancedInv /\ PoolInv /\ WorkerInv /\ WorkerFlags /\ QueueInv

THEOREM Invariance == Spec => []PatternsInv
<1>1. Init => PatternsInv
  BY BreakerInit, EnhancedInit, ConnectionsInit, WorkersInit, QueueInit DEF Init, PatternsInv
<1>2. PatternsInv /\ [Next]_vars => PatternsInv'
  BY BreakerNext, EnhancedNext, ConnectionsNext, WorkersNext, QueueNext,
     BreakerSteps, EnhancedBreakerSteps, ConnectionPoolSteps, WorkerPoolSteps, TaskQueueSteps
     DEF PatternsInv
<1> QED
  BY <1>1, <1>2, PTL DEF Spec

\* The counters, queues, timers and tables of every class keep their types and bounds:
\* a limit that is set holds what it limits, however results, timers, errors and
\* closings are mixed.
THEOREM TypesHold == Spec => []TypeOK
<1>1. PatternsInv => Cb!TypeOK /\ Eb!TypeOK /\ Cp!TypeOK /\ Wp!TypeOK /\ Tq!TypeOK
  BY BreakerTypes, EnhancedInvImplies, WorkersHold, QueueTypesHold DEF PatternsInv, PoolInv, PoolTypes
<1>2. Bh!SafeSpec => []Bh!TypeOK
  BY Bh!TypesHold, BulkheadAssumption
<1>3. Cb!TypeOK /\ Eb!TypeOK /\ Cp!TypeOK /\ Wp!TypeOK /\ Bh!TypeOK /\ Tq!TypeOK => TypeOK
  BY DEF TypeOK
<1> QED
  BY <1>1, <1>2, <1>3, Invariance, BulkheadAlone, PTL

\* The bulkhead's counters agree with its calls and none waits while a place is free; a
\* busy connection is in a client's hands, and the limit of the pool is exceeded by no
\* more than what its two unchecked loops have still to create.
THEOREM PlacesHold == Spec => []PlacesAccounted
<1>1. PatternsInv => Cp!BusyMeansHeld /\ Cp!OvershootBounded
  BY DEF PatternsInv, PoolInv
<1>2. Bh!SafeSpec => [](Bh!Accounted /\ Bh!NoIdlePlace)
  BY Bh!PlacesHold, BulkheadAssumption
<1>3. Bh!Accounted /\ Bh!NoIdlePlace /\ Cp!BusyMeansHeld /\ Cp!OvershootBounded => PlacesAccounted
  BY DEF PlacesAccounted
<1> QED
  BY <1>1, <1>2, <1>3, Invariance, BulkheadAlone, PTL

\* Both breakers have, in each state, the counts and the timer that this state goes on:
\* failures of an earlier period never open the one, and the other is never left open
\* without a timer.
THEOREM BreakersHold == Spec => []BreakersFit
<1>1. PatternsInv => BreakersFit
  BY DEF PatternsInv, BreakerInv, EnhancedInv, BreakersFit
<1> QED
  BY <1>1, Invariance, PTL

\* The task queue's count and line agree with its tasks; in the worker pool each task is
\* in one place, its promise agrees with that, the reply of a thread answers the task
\* on record for it, and no task waits while a worker is idle.
THEOREM TasksHold == Spec => []TasksAccounted
<1>1. PatternsInv => TasksAccounted
  BY WorkersHold, QueueHolds DEF PatternsInv, TasksAccounted
<1> QED
  BY <1>1, Invariance, PTL

\* The task queue starts tasks in order and within the limit in force.
THEOREM StartsHold == Spec => StartsAsItShould
<1> DEFINE Within == (Tq!InPhase("running")' \ Tq!InPhase("running") # {}) =>
                       Tq!Cardinality(Tq!InPhase("running")') <= concurrency'
           Ordered == \A i, j \in DOMAIN queue :
                        i < j /\ taskPhase'[queue[j]] = "running" => taskPhase'[queue[i]] # "queued"
<1>1. PatternsInv /\ [Next]_vars => [Within]_(Tq!vars) /\ [Ordered]_(Tq!vars)
  BY QueueStarts, TaskQueueSteps, QueueLibrary DEF PatternsInv, StartsWithin, StartsOrdered
<1>2. Spec => [][Within]_(Tq!vars) /\ [][Ordered]_(Tq!vars)
  BY <1>1, Invariance, PTL DEF Spec
<1> QED
  BY <1>2 DEF StartsAsItShould, Tq!StartsAsItShould, Tq!StartsWithinLimit, Tq!StartedInOrder

\* What is open or closed stays so for as long as it should: no step of the one breaker
\* shortens or extends the time it is open, none of the other leaves the open state
\* but by a timer or reset(), and no connection that is closed comes back.
THEOREM ClosingsHold == Spec => ClosedAsLongAsDue
<1> DEFINE StaysOpen ==
             state = "open" =>
               \/ state' = "open" /\ (openFor' >= openFor \/ Cb!ForceOpen)
               \/ state' # "open" /\ (openFor = ResetTimeout \/ Cb!ForceClosed)
           LeavesInTime ==
             /\ enhancedState = "open" /\ enhancedState' # "open" => Eb!Fire \/ Eb!Reset
             /\ enhancedState' = "half_open" /\ enhancedState # "half_open" => enhancedState = "open"
           StaysClosed ==
             /\ \A i \in Cp!Ids : conns[i] = "closed" => conns'[i] = "closed"
             /\ \A c \in Clients :
                  phase'[c] = "holding" /\ phase[c] # "holding" => conns'[conn'[c]] = "busy"
<1>1. PatternsInv /\ [Next]_vars =>
        [StaysOpen]_(Cb!vars) /\ [LeavesInTime]_(Eb!vars) /\ [StaysClosed]_(Cp!vars)
  BY BreakerOpenSteps, EnhancedOpenSteps, ClosedSteps,
     BreakerSteps, EnhancedBreakerSteps, ConnectionPoolSteps DEF PatternsInv
<1>2. Spec => /\ [][StaysOpen]_(Cb!vars)
              /\ [][LeavesInTime]_(Eb!vars)
              /\ [][StaysClosed]_(Cp!vars)
  BY <1>1, Invariance, PTL DEF Spec
<1> QED
  BY <1>2 DEF ClosedAsLongAsDue, Cb!OpenForResetTimeout, Eb!LeavesOpenByTimerOrReset, Cp!ClosedForGood
=============================================================================
