------------------------------ MODULE Bulkhead ------------------------------
(***************************************************************************)
(* The Bulkhead class of packages/resilience: at most MaxConcurrent calls  *)
(* of execute() run, MaxQueued more may wait, for a bounded time.          *)
(*                                                                         *)
(* execute() gives its place back in a finally block.  The block also      *)
(* covers the wait in the queue, so a call whose wait ends by the queue    *)
(* timeout or by close() gives back a place it never had; "forfeited"      *)
(* counts these, as a history variable.  The metrics and callbacks are     *)
(* left out.                                                               *)
(***************************************************************************)
EXTENDS Integers, Sequences, FiniteSets, Functions, FifoLemmas

CONSTANTS Calls,                 \* the activities that call execute()
          MaxConcurrent,
          MaxQueued,
          DegradationThreshold,  \* in percent
          MaxForfeits            \* bound: how many waits end unserved

\* The options that a bulkhead is made with.
OptionsOK ==
  /\ MaxConcurrent \in Nat \ {0}
  /\ MaxQueued \in Nat
  /\ DegradationThreshold \in 0..100
  /\ MaxForfeits \in Nat

VARIABLES running,     \* running, which may be off
          queued,      \* queued
          waitQueue,   \* waitQueue: the calls, with their timers
          state,       \* state
          phase,       \* where each call of execute() is
          forfeited

vars == <<running, queued, waitQueue, state, phase, forfeited>>

Phases == {"outside", "waiting", "executing", "refused"}
InPhase(p) == {c \in Calls : phase[c] = p}

\* updateState()
StateFor(load) ==
  IF load >= MaxConcurrent THEN "OPEN"
  ELSE IF load * 100 >= DegradationThreshold * MaxConcurrent THEN "DEGRADED"
  ELSE "CLOSED"

Init ==
  /\ running = 0
  /\ queued = 0
  /\ waitQueue = <<>>
  /\ state = "CLOSED"
  /\ phase = [c \in Calls |-> "outside"]
  /\ forfeited = 0

-----------------------------------------------------------------------------
\* Faulty variants.
TimeoutLeavesCount(c) ==
  /\ forfeited + Cardinality(InPhase("refused")) < MaxForfeits
  /\ c \in Range(waitQueue)
  /\ waitQueue' = SelectSeq(waitQueue, LAMBDA d : d # c)
  /\ phase' = [phase EXCEPT ![c] = "refused"]
  /\ UNCHANGED <<running, queued, state, forfeited>>

ReleaseWithoutWaking(c) ==
  /\ running' = running - 1
  /\ state' = StateFor(running - 1)
  /\ phase' = [phase EXCEPT ![c] = "outside"]
  /\ UNCHANGED <<queued, waitQueue>>

-----------------------------------------------------------------------------
\* execute() with a place free: it runs at once, past whoever waits.
Enter(c) ==
  /\ phase[c] = "outside"
  /\ running < MaxConcurrent
  /\ running' = running + 1
  /\ state' = StateFor(running + 1)
  /\ phase' = [phase EXCEPT ![c] = "executing"]
  /\ UNCHANGED <<queued, waitQueue, forfeited>>

\* execute() with every place taken: it waits, with a timer.
Wait(c) ==
  /\ phase[c] = "outside"
  /\ running >= MaxConcurrent
  /\ queued < MaxQueued
  /\ queued' = queued + 1
  /\ waitQueue' = Append(waitQueue, c)
  /\ state' = StateFor(running)
  /\ phase' = [phase EXCEPT ![c] = "waiting"]
  /\ UNCHANGED <<running, forfeited>>

\* execute() with the queue full as well: rejected, nothing changes.
Reject(c) ==
  /\ phase[c] = "outside"
  /\ running >= MaxConcurrent
  /\ queued >= MaxQueued
  /\ UNCHANGED vars

\* release(), called by the finally block of call c: the place goes to the
\* longest waiting call, whose timer is cleared.
Release(c) ==
  /\ IF waitQueue # <<>> /\ running - 1 < MaxConcurrent
       THEN /\ running' = (running - 1) + 1
            /\ queued' = queued - 1
            /\ waitQueue' = Tail(waitQueue)
            /\ phase' = [phase EXCEPT ![c] = "outside", ![Head(waitQueue)] = "executing"]
       ELSE /\ running' = running - 1
            /\ phase' = [phase EXCEPT ![c] = "outside"]
            /\ UNCHANGED <<queued, waitQueue>>
  /\ state' = StateFor(running')

\* The function settles, or its execution timeout passes.
Finish(c) ==
  /\ phase[c] = "executing"
  /\ Release(c)
  /\ UNCHANGED forfeited

\* The timer of a waiting call fires; execute() goes on in a later microtask.
QueueTimeout(c) ==
  /\ forfeited + Cardinality(InPhase("refused")) < MaxForfeits
  /\ \E i \in 1 .. Len(waitQueue) :
       /\ waitQueue[i] = c
       /\ waitQueue' = SubSeq(waitQueue, 1, i - 1) \o SubSeq(waitQueue, i + 1, Len(waitQueue))
  /\ queued' = queued - 1
  /\ phase' = [phase EXCEPT ![c] = "refused"]
  /\ UNCHANGED <<running, state, forfeited>>

\* close() refuses every waiting call.
Close ==
  /\ waitQueue # <<>>
  /\ forfeited + Cardinality(InPhase("refused")) + Len(waitQueue) <= MaxForfeits
  /\ phase' = [c \in Calls |-> IF c \in Range(waitQueue) THEN "refused" ELSE phase[c]]
  /\ waitQueue' = <<>>
  /\ queued' = 0
  /\ UNCHANGED <<running, state, forfeited>>

\* The finally block of a call that was refused in the queue.
GiveBackNothing(c) ==
  /\ phase[c] = "refused"
  /\ Release(c)
  /\ forfeited' = forfeited + 1

Next ==
  \/ \E c \in Calls : \/ Enter(c) \/ Wait(c) \/ Reject(c)
                      \/ Finish(c) \/ QueueTimeout(c) \/ GiveBackNothing(c)
  \/ Close

\* An execution ends, at the latest by its timeout; a finally block runs.  The
\* queue timers need not fire.
Fairness == \A c \in Calls : WF_vars(Finish(c)) /\ WF_vars(GiveBackNothing(c))

SafeSpec == Init /\ [][Next]_vars
Spec == SafeSpec /\ Fairness

-----------------------------------------------------------------------------
TypeOK ==
  /\ running \in -MaxForfeits..MaxConcurrent
  /\ queued \in 0..MaxQueued
  /\ waitQueue \in Seq(Calls)
  /\ state \in {"CLOSED", "DEGRADED", "OPEN"}
  /\ phase \in [Calls -> Phases]
  /\ forfeited \in 0..MaxForfeits

\* Calls that wait are exactly those that queued counts, whichever of release,
\* the timer and close takes them out.
QueueAccounted ==
  /\ queued = Len(waitQueue)
  /\ Range(waitQueue) = InPhase("waiting")

\* No place that the bulkhead believes free is kept from a waiting call.
NoIdlePlace == waitQueue # <<>> => running = MaxConcurrent

\* The counter misses the executions by exactly one for every wait that ended
\* unserved: each of those raises the capacity for good.
DriftAccounted == Cardinality(InPhase("executing")) = running + forfeited

\* The published state tells the load that is counted.
StateTellsLoad == (state = "OPEN") <=> (running = MaxConcurrent)

\* The counters, the queue and the state agree with the calls and with each
\* other, after whatever mixture of entries, timeouts, releases and close().
Accounted == QueueAccounted /\ DriftAccounted /\ StateTellsLoad

\* A waiting call leaves the queue even if its timer never fires.
WaitEnds == \A c \in Calls : (phase[c] = "waiting") ~> (phase[c] # "waiting")

\* What the option promises: at most MaxConcurrent executions at a time.
AtMostMaxConcurrent == Cardinality(InPhase("executing")) <= MaxConcurrent

-----------------------------------------------------------------------------
(* Proofs, for every set of calls and all options.                         *)

\* The inductive invariant.  release() trusts the counter: that it counts the
\* executions but for the waits that ended unserved, and that whoever is in the queue
\* is waiting and stands there once, hold only together.
IInv ==
  /\ running \in Int /\ running <= MaxConcurrent /\ forfeited \in Nat
  /\ waitQueue \in Seq(Calls) /\ IsInjective(waitQueue)
  /\ phase \in [Calls -> Phases]
  /\ IsFiniteSet(InPhase("executing"))
  /\ Accounted /\ NoIdlePlace

\* What the parts of the invariant say, without the counts.
LEMMA Known ==
  ASSUME OptionsOK, IInv
  PROVE  /\ MaxConcurrent \in Nat \ {0} /\ running \in Int /\ running <= MaxConcurrent /\ forfeited \in Nat
         /\ waitQueue \in Seq(Calls) /\ IsInjective(waitQueue) /\ phase \in [Calls -> Phases]
         /\ queued = Len(waitQueue) /\ Range(waitQueue) = InPhase("waiting")
         /\ IsFiniteSet(InPhase("executing")) /\ Cardinality(InPhase("executing")) = running + forfeited
         /\ waitQueue # <<>> => running = MaxConcurrent
         /\ (state = "OPEN") <=> (running = MaxConcurrent)
  BY DEF OptionsOK, IInv, Accounted, QueueAccounted, DriftAccounted, StateTellsLoad, NoIdlePlace

LEMMA StateForOpen ==
  ASSUME OptionsOK, NEW load \in Int, load <= MaxConcurrent
  PROVE  (StateFor(load) = "OPEN") <=> (load = MaxConcurrent)
  BY DEF OptionsOK, StateFor

LEMMA InitIInv == ASSUME OptionsOK, Init PROVE IInv
<1>1. MaxConcurrent \in Nat \ {0}
  BY DEF OptionsOK
<1>2. InPhase("executing") = {} /\ InPhase("waiting") = {}
  BY DEF Init, InPhase
<1>3. Range(<<>>) = {} /\ IsInjective(<<>>) /\ Len(<<>>) = 0 /\ <<>> \in Seq(Calls)
  BY EmptySeq DEF Range, IsInjective
<1>4. Accounted
  <2>1. QueueAccounted
    BY <1>2, <1>3 DEF Init, QueueAccounted
  <2>2. DriftAccounted
    BY <1>2, FS_EmptySet DEF Init, DriftAccounted
  <2>3. StateTellsLoad
    BY <1>1 DEF Init, StateTellsLoad
  <2> QED
    BY <2>1, <2>2, <2>3 DEF Accounted
<1> QED
  BY <1>1, <1>2, <1>3, <1>4, FS_EmptySet DEF Init, IInv, NoIdlePlace, Phases

LEMMA EnterIInv == ASSUME OptionsOK, IInv, NEW c \in Calls, Enter(c) PROVE IInv'
<1>1. /\ phase[c] = "outside" /\ running < MaxConcurrent /\ running' = running + 1
      /\ state' = StateFor(running + 1) /\ phase' = [phase EXCEPT ![c] = "executing"]
      /\ UNCHANGED <<queued, waitQueue, forfeited>>
  BY DEF Enter
<1>2. running' \in Int /\ running' <= MaxConcurrent /\ waitQueue = <<>>
  BY <1>1, Known
<1>3. /\ InPhase("executing")' = InPhase("executing") \cup {c} /\ c \notin InPhase("executing")
      /\ InPhase("waiting")' = InPhase("waiting") /\ phase' \in [Calls -> Phases]
  BY <1>1, Known DEF InPhase, Phases
<1>4. IsFiniteSet(InPhase("executing")') /\ Cardinality(InPhase("executing")') = running + forfeited + 1
  BY <1>3, Known, FS_AddElement
<1>5. DriftAccounted'
  BY <1>1, <1>4, Known DEF DriftAccounted
<1>6. StateTellsLoad'
  BY <1>1, <1>2, StateForOpen DEF StateTellsLoad
<1>7. QueueAccounted'
  BY <1>1, <1>3, Known DEF QueueAccounted
<1> QED
  BY <1>1, <1>2, <1>3, <1>4, <1>5, <1>6, <1>7, Known DEF IInv, Accounted, NoIdlePlace

LEMMA WaitIInv == ASSUME OptionsOK, IInv, NEW c \in Calls, Wait(c) PROVE IInv'
<1>1. /\ phase[c] = "outside" /\ running >= MaxConcurrent /\ queued' = queued + 1
      /\ waitQueue' = Append(waitQueue, c) /\ state' = StateFor(running)
      /\ phase' = [phase EXCEPT ![c] = "waiting"] /\ UNCHANGED <<running, forfeited>>
  BY DEF Wait
<1>2. running = MaxConcurrent
  BY <1>1, Known
<1>3. /\ InPhase("executing")' = InPhase("executing") /\ c \notin InPhase("waiting")
      /\ InPhase("waiting")' = InPhase("waiting") \cup {c} /\ phase' \in [Calls -> Phases]
  BY <1>1, Known DEF InPhase, Phases
<1>4. /\ waitQueue' \in Seq(Calls) /\ Len(waitQueue') = Len(waitQueue) + 1
      /\ IsInjective(waitQueue') /\ Range(waitQueue') = Range(waitQueue) \cup {c}
  BY <1>1, <1>3, Known, AppendProperties, RangeAppend, InjectiveAppend
<1>5. QueueAccounted' /\ DriftAccounted'
  BY <1>1, <1>3, <1>4, Known DEF QueueAccounted, DriftAccounted
<1>6. StateTellsLoad'
  BY <1>1, <1>2, Known, StateForOpen DEF StateTellsLoad
<1> QED
  BY <1>1, <1>2, <1>3, <1>4, <1>5, <1>6, Known DEF IInv, Accounted, NoIdlePlace

\* release(), by a call that executes or by one that was refused: the counter goes
\* down by one or the longest waiting call executes instead.
LEMMA ReleaseEffect ==
  ASSUME OptionsOK, IInv, NEW c \in Calls, phase[c] \in {"executing", "refused"}, Release(c)
  PROVE  /\ running' \in Int /\ running' <= MaxConcurrent
         /\ waitQueue' \in Seq(Calls) /\ IsInjective(waitQueue') /\ phase' \in [Calls -> Phases]
         /\ QueueAccounted' /\ NoIdlePlace' /\ StateTellsLoad'
         /\ IsFiniteSet(InPhase("executing")')
         /\ Cardinality(InPhase("executing")') - running'
              = Cardinality(InPhase("executing") \ {c}) - (running - 1)
<1> DEFINE others == InPhase("executing") \ {c}
<1>1. IsFiniteSet(others) /\ Cardinality(others) \in Nat
  BY Known, FS_RemoveElement, FS_CardinalityType
<1>2. running - 1 < MaxConcurrent /\ running - 1 \in Int /\ (running - 1) + 1 = running
  BY Known
<1>3. c \notin InPhase("waiting")
  BY DEF InPhase
<1>4. running' \in Int /\ running' <= MaxConcurrent => StateTellsLoad'
  BY StateForOpen DEF Release, StateTellsLoad
<1>5. CASE waitQueue = <<>>
  <2>1. /\ running' = running - 1 /\ phase' = [phase EXCEPT ![c] = "outside"]
        /\ UNCHANGED <<queued, waitQueue>>
    BY <1>5 DEF Release
  <2>2. /\ InPhase("executing")' = others /\ InPhase("waiting")' = InPhase("waiting")
        /\ phase' \in [Calls -> Phases]
    BY <1>3, <2>1, Known DEF InPhase, Phases
  <2>3. QueueAccounted' /\ NoIdlePlace'
    BY <1>5, <2>1, <2>2, Known DEF QueueAccounted, NoIdlePlace
  <2>4. running' \in Int /\ running' <= MaxConcurrent
    BY <1>2, <2>1, Known
  <2> QED
    BY <1>1, <1>4, <2>1, <2>2, <2>3, <2>4, Known
<1>6. CASE waitQueue # <<>>
  <2> DEFINE h == Head(waitQueue)
  <2>1. /\ running' = running /\ queued' = queued - 1 /\ waitQueue' = Tail(waitQueue)
        /\ phase' = [phase EXCEPT ![c] = "outside", ![h] = "executing"]
    BY <1>2, <1>6 DEF Release
  <2>2. /\ h \in Range(waitQueue) /\ h \in Calls
        /\ Tail(waitQueue) \in Seq(Calls)
        /\ Range(Tail(waitQueue)) = Range(waitQueue) \ {h}
        /\ IsInjective(Tail(waitQueue))
    BY <1>6, Known, ShiftLine
  <2>3. h \in InPhase("waiting") /\ h # c /\ h \notin others
    BY <1>3, <2>2, Known DEF InPhase
  <2> HIDE DEF h
  <2>4. /\ InPhase("executing")' = others \cup {h} /\ InPhase("waiting")' = InPhase("waiting") \ {h}
        /\ phase' \in [Calls -> Phases]
    BY <1>3, <2>1, <2>2, <2>3, Known DEF InPhase, Phases
  <2>5. IsFiniteSet(InPhase("executing")') /\ Cardinality(InPhase("executing")') = Cardinality(others) + 1
    <3>1. IsFiniteSet(others \cup {h}) /\ Cardinality(others \cup {h}) = Cardinality(others) + 1
      BY <1>1, <2>3, FS_AddElement
    <3> QED
      BY <2>4, <3>1
  <2>6. Len(waitQueue') = Len(waitQueue) - 1
    BY <1>6, <2>1, Known, HeadTailProperties
  <2>7. QueueAccounted' /\ NoIdlePlace'
    BY <1>6, <2>1, <2>2, <2>4, <2>6, Known DEF QueueAccounted, NoIdlePlace
  <2>8. running' \in Int /\ running' <= MaxConcurrent
    BY <2>1, Known
  <2>9. Cardinality(InPhase("executing")') - running' = Cardinality(others) - (running - 1)
    BY <1>1, <2>1, <2>5, Known
  <2> QED
    BY <1>4, <2>1, <2>2, <2>4, <2>5, <2>7, <2>8, <2>9
<1> QED
  BY <1>5, <1>6

LEMMA FinishIInv == ASSUME OptionsOK, IInv, NEW c \in Calls, Finish(c) PROVE IInv'
<1>1. phase[c] = "executing" /\ Release(c) /\ forfeited' = forfeited
  BY DEF Finish
<1>2. Cardinality(InPhase("executing") \ {c}) = running + forfeited - 1
  <2>1. c \in InPhase("executing")
    BY <1>1 DEF InPhase
  <2> QED
    <3>1. Cardinality(InPhase("executing") \ {c}) = Cardinality(InPhase("executing")) - 1
      BY <2>1, Known, FS_RemoveElement
    <3> QED
      BY <3>1, Known
<1>3. IsFiniteSet(InPhase("executing")') /\ running' \in Int
  BY <1>1, ReleaseEffect
<1>4. Cardinality(InPhase("executing")') - running' = (running + forfeited - 1) - (running - 1)
  BY <1>1, <1>2, ReleaseEffect
<1>5. DriftAccounted'
  BY <1>1, <1>3, <1>4, Known, FS_CardinalityType DEF DriftAccounted
<1> QED
  BY <1>1, <1>5, Known, ReleaseEffect DEF IInv, Accounted

\* The place is given back that nobody had: the counter and the executions part by one.
LEMMA GiveBackIInv == ASSUME OptionsOK, IInv, NEW c \in Calls, GiveBackNothing(c) PROVE IInv'
<1>1. phase[c] = "refused" /\ Release(c) /\ forfeited' = forfeited + 1
  BY DEF GiveBackNothing
<1>2. InPhase("executing") \ {c} = InPhase("executing")
  BY <1>1 DEF InPhase
<1>3. IsFiniteSet(InPhase("executing")') /\ running' \in Int
  BY <1>1, ReleaseEffect
<1>4. Cardinality(InPhase("executing")') - running' = (running + forfeited) - (running - 1)
  <2>1. Cardinality(InPhase("executing")') - running'
          = Cardinality(InPhase("executing") \ {c}) - (running - 1)
    BY <1>1, ReleaseEffect
  <2> QED
    BY <1>2, <2>1, Known
<1>5. DriftAccounted'
  BY <1>1, <1>3, <1>4, Known, FS_CardinalityType DEF DriftAccounted
<1>6. forfeited' \in Nat
  BY <1>1, Known
<1>7. /\ running' \in Int /\ running' <= MaxConcurrent
      /\ waitQueue' \in Seq(Calls) /\ IsInjective(waitQueue') /\ phase' \in [Calls -> Phases]
      /\ QueueAccounted' /\ NoIdlePlace' /\ StateTellsLoad' /\ IsFiniteSet(InPhase("executing")')
  BY <1>1, ReleaseEffect
<1> QED
  BY <1>5, <1>6, <1>7 DEF IInv, Accounted

LEMMA TimeoutIInv == ASSUME OptionsOK, IInv, NEW c \in Calls, QueueTimeout(c) PROVE IInv'
<1>1. /\ queued' = queued - 1 /\ phase' = [phase EXCEPT ![c] = "refused"]
      /\ UNCHANGED <<running, state, forfeited>>
  BY DEF QueueTimeout
<1>2. PICK i \in 1 .. Len(waitQueue) :
        /\ waitQueue[i] = c
        /\ waitQueue' = SubSeq(waitQueue, 1, i - 1) \o SubSeq(waitQueue, i + 1, Len(waitQueue))
  BY DEF QueueTimeout
<1>3. /\ waitQueue' \in Seq(Calls) /\ Len(waitQueue') = Len(waitQueue) - 1
      /\ IsInjective(waitQueue') /\ Range(waitQueue') = Range(waitQueue) \ {c}
  <2>1. waitQueue \in Seq(Calls) /\ IsInjective(waitQueue)
    BY Known
  <2>2. ASSUME NEW r, r = SubSeq(waitQueue, 1, i - 1) \o SubSeq(waitQueue, i + 1, Len(waitQueue))
        PROVE  /\ r \in Seq(Calls) /\ Len(r) = Len(waitQueue) - 1
               /\ IsInjective(r) /\ Range(r) = Range(waitQueue) \ {waitQueue[i]}
    BY <2>1, <2>2, RemoveFromLine
  <2> QED
    BY <1>2, <2>2
<1>4. c \in InPhase("waiting") /\ waitQueue # <<>>
  <2>1. DOMAIN waitQueue = 1 .. Len(waitQueue)
    BY Known, LenProperties
  <2>2. c \in Range(waitQueue)
    BY <1>2, <2>1 DEF Range
  <2>3. waitQueue # <<>>
    BY <2>2 DEF Range
  <2> QED
    BY <2>2, <2>3, Known
<1>5. /\ InPhase("executing")' = InPhase("executing")
      /\ InPhase("waiting")' = InPhase("waiting") \ {c} /\ phase' \in [Calls -> Phases]
  BY <1>1, <1>4, Known DEF InPhase, Phases
<1>6. Accounted'
  BY <1>1, <1>3, <1>5, Known DEF Accounted, QueueAccounted, DriftAccounted, StateTellsLoad
<1>7. NoIdlePlace'
  BY <1>1, <1>4, Known DEF NoIdlePlace
<1> QED
  BY <1>1, <1>3, <1>5, <1>6, <1>7, Known DEF IInv

LEMMA CloseIInv == ASSUME OptionsOK, IInv, Close PROVE IInv'
<1>1. /\ phase' = [c \in Calls |-> IF c \in Range(waitQueue) THEN "refused" ELSE phase[c]]
      /\ waitQueue' = <<>> /\ queued' = 0 /\ UNCHANGED <<running, state, forfeited>>
  BY DEF Close
<1>2. /\ InPhase("executing")' = InPhase("executing")
      /\ InPhase("waiting")' = {} /\ phase' \in [Calls -> Phases]
  BY <1>1, Known DEF InPhase, Phases
<1>3. Range(<<>>) = {} /\ IsInjective(<<>>) /\ Len(<<>>) = 0 /\ <<>> \in Seq(Calls)
  BY EmptySeq DEF Range, IsInjective
<1>4. Accounted'
  BY <1>1, <1>2, <1>3, Known DEF Accounted, QueueAccounted, DriftAccounted, StateTellsLoad
<1> QED
  BY <1>1, <1>2, <1>3, <1>4, Known DEF IInv, NoIdlePlace

\* The bulkhead keeps its inductive invariant, its type included.
THEOREM Invariance == ASSUME OptionsOK PROVE SafeSpec => []IInv
<1>1. Init => IInv
  BY InitIInv
<1>2. IInv /\ [Next]_vars => IInv'
  <2> SUFFICES ASSUME IInv, [Next]_vars PROVE IInv'
    OBVIOUS
  <2>1. ASSUME NEW c \in Calls, Enter(c) \/ Wait(c) \/ Finish(c) \/ QueueTimeout(c) \/ GiveBackNothing(c)
        PROVE  IInv'
    BY <2>1, EnterIInv, WaitIInv, FinishIInv, TimeoutIInv, GiveBackIInv
  <2>2. CASE Close
    BY <2>2, CloseIInv
  <2>3. CASE UNCHANGED vars
    BY <2>3 DEF vars, IInv, InPhase, Accounted, QueueAccounted, DriftAccounted, StateTellsLoad, NoIdlePlace
  <2>4. ASSUME NEW c \in Calls, Reject(c) PROVE UNCHANGED vars
    BY <2>4 DEF Reject
  <2> QED
    BY <2>1, <2>2, <2>3, <2>4 DEF Next
<1> QED
  BY <1>1, <1>2, PTL DEF SafeSpec

\* The bounds on the queue and on the waits that end unserved, for which a wait that has
\* ended counts from the moment at which it ends.
Bounded ==
  /\ queued <= MaxQueued /\ state \in {"CLOSED", "DEGRADED", "OPEN"}
  /\ IsFiniteSet(InPhase("refused"))
  /\ forfeited + Cardinality(InPhase("refused")) <= MaxForfeits

\* release() hands a place to a call that waits, never to one that was refused.
LEMMA ReleaseRefused ==
  ASSUME OptionsOK, IInv, Bounded, NEW c \in Calls, phase[c] \in {"executing", "refused"}, Release(c)
  PROVE  /\ InPhase("refused")' = InPhase("refused") \ {c}
         /\ queued' <= MaxQueued /\ state' \in {"CLOSED", "DEGRADED", "OPEN"}
<1>1. /\ phase \in [Calls -> Phases] /\ waitQueue \in Seq(Calls) /\ IsInjective(waitQueue)
      /\ Range(waitQueue) = InPhase("waiting") /\ queued = Len(waitQueue) /\ Len(waitQueue) \in Nat
  BY Known, LenProperties
<1>2. waitQueue # <<>> => Head(waitQueue) \in InPhase("waiting")
  BY <1>1, ShiftLine
<1>3. InPhase("refused")' = InPhase("refused") \ {c}
  BY <1>1, <1>2 DEF Release, InPhase
<1>4. queued' <= MaxQueued
  BY <1>1 DEF Release, Bounded, OptionsOK
<1>5. state' \in {"CLOSED", "DEGRADED", "OPEN"}
  BY DEF Release, StateFor
<1> QED
  BY <1>3, <1>4, <1>5

LEMMA NextBounded == ASSUME OptionsOK, IInv, Bounded, [Next]_vars PROVE Bounded'
<1>1. /\ phase \in [Calls -> Phases] /\ waitQueue \in Seq(Calls) /\ IsInjective(waitQueue)
      /\ Range(waitQueue) = InPhase("waiting") /\ queued = Len(waitQueue) /\ Len(waitQueue) \in Nat
      /\ forfeited \in Nat /\ MaxForfeits \in Nat /\ MaxQueued \in Nat
  BY Known, LenProperties DEF OptionsOK
<1>2. IsFiniteSet(InPhase("refused")) /\ Cardinality(InPhase("refused")) \in Nat
      /\ forfeited + Cardinality(InPhase("refused")) <= MaxForfeits
      /\ queued <= MaxQueued /\ state \in {"CLOSED", "DEGRADED", "OPEN"}
  BY FS_CardinalityType DEF Bounded
<1>3. ASSUME NEW c \in Calls, Enter(c) \/ Wait(c) \/ Reject(c) PROVE Bounded'
  <2>1. InPhase("refused")' = InPhase("refused") /\ forfeited' = forfeited
    BY <1>1, <1>3 DEF Enter, Wait, Reject, InPhase, vars
  <2>2. queued' <= MaxQueued /\ state' \in {"CLOSED", "DEGRADED", "OPEN"}
    BY <1>1, <1>2, <1>3 DEF Enter, Wait, Reject, StateFor, vars
  <2> QED
    BY <1>2, <2>1, <2>2 DEF Bounded
<1>4. ASSUME NEW c \in Calls, Finish(c) PROVE Bounded'
  <2>1. phase[c] = "executing" /\ Release(c) /\ forfeited' = forfeited
    BY <1>4 DEF Finish
  <2>2. /\ InPhase("refused")' = InPhase("refused") /\ queued' <= MaxQueued
        /\ state' \in {"CLOSED", "DEGRADED", "OPEN"}
    BY <2>1, ReleaseRefused DEF InPhase
  <2> QED
    BY <1>2, <2>1, <2>2 DEF Bounded
<1>5. ASSUME NEW c \in Calls, GiveBackNothing(c) PROVE Bounded'
  <2>1. phase[c] = "refused" /\ Release(c) /\ forfeited' = forfeited + 1 /\ c \in InPhase("refused")
    BY <1>5 DEF GiveBackNothing, InPhase
  <2>2. /\ InPhase("refused")' = InPhase("refused") \ {c} /\ queued' <= MaxQueued
        /\ state' \in {"CLOSED", "DEGRADED", "OPEN"}
    BY <2>1, ReleaseRefused
  <2>3. /\ IsFiniteSet(InPhase("refused")')
        /\ Cardinality(InPhase("refused")') = Cardinality(InPhase("refused")) - 1
    BY <1>2, <2>1, <2>2, FS_RemoveElement
  <2> QED
    BY <1>1, <1>2, <2>1, <2>2, <2>3 DEF Bounded
<1>6. ASSUME NEW c \in Calls, QueueTimeout(c) PROVE Bounded'
  <2>1. PICK i \in 1 .. Len(waitQueue) : waitQueue[i] = c
    BY <1>6 DEF QueueTimeout
  <2>2. /\ phase' = [phase EXCEPT ![c] = "refused"] /\ queued' = queued - 1 /\ forfeited' = forfeited
        /\ state' = state /\ forfeited + Cardinality(InPhase("refused")) < MaxForfeits
    BY <1>6 DEF QueueTimeout
  <2>3. c \in InPhase("waiting")
    BY <1>1, <2>1, LenProperties DEF Range
  <2>4. InPhase("refused")' = InPhase("refused") \cup {c} /\ c \notin InPhase("refused")
    BY <1>1, <2>2, <2>3 DEF InPhase
  <2>5. /\ IsFiniteSet(InPhase("refused")')
        /\ Cardinality(InPhase("refused")') = Cardinality(InPhase("refused")) + 1
    BY <1>2, <2>4, FS_AddElement
  <2> QED
    BY <1>1, <1>2, <2>2, <2>5 DEF Bounded
<1>7. CASE Close
  <2>1. /\ phase' = [c \in Calls |-> IF c \in Range(waitQueue) THEN "refused" ELSE phase[c]]
        /\ queued' = 0 /\ forfeited' = forfeited /\ state' = state
        /\ forfeited + Cardinality(InPhase("refused")) + Len(waitQueue) <= MaxForfeits
    BY <1>7 DEF Close
  <2>2. InPhase("refused")' = InPhase("refused") \cup Range(waitQueue)
        /\ InPhase("refused") \cap Range(waitQueue) = {}
    BY <1>1, <2>1 DEF InPhase
  <2>3. IsFiniteSet(Range(waitQueue)) /\ Cardinality(Range(waitQueue)) = Len(waitQueue)
    BY <1>1, LineCardinality
  <2>4. /\ IsFiniteSet(InPhase("refused")')
        /\ Cardinality(InPhase("refused")') = Cardinality(InPhase("refused")) + Len(waitQueue) - Cardinality({})
    BY <1>2, <2>2, <2>3, FS_Union, SMTT(30)
  <2>5. Cardinality({}) = 0
    BY FS_EmptySet
  <2> QED
    BY <1>1, <1>2, <2>1, <2>4, <2>5 DEF Bounded
<1>8. CASE UNCHANGED vars
  BY <1>2, <1>8 DEF vars, Bounded, InPhase
<1> QED
  BY <1>3, <1>4, <1>5, <1>6, <1>7, <1>8 DEF Next

\* The types hold for all options: the queue stays within its limit, and the count, which
\* goes below zero, by no more than the waits that end unserved.
THEOREM TypesHold == ASSUME OptionsOK PROVE SafeSpec => []TypeOK
<1>1. Init => Bounded
  <2> SUFFICES ASSUME Init PROVE Bounded
    OBVIOUS
  <2>1. InPhase("refused") = {}
    BY DEF Init, InPhase
  <2> QED
    BY <2>1, FS_EmptySet DEF Init, Bounded, OptionsOK
<1>2. IInv /\ Bounded /\ [Next]_vars => Bounded'
  BY NextBounded
<1>3. IInv /\ Bounded => TypeOK
  <2> SUFFICES ASSUME IInv, Bounded PROVE TypeOK
    OBVIOUS
  <2>1. /\ forfeited \in Nat /\ Cardinality(InPhase("refused")) \in Nat
        /\ forfeited + Cardinality(InPhase("refused")) <= MaxForfeits
        /\ Cardinality(InPhase("executing")) = running + forfeited /\ Cardinality(InPhase("executing")) \in Nat
        /\ running \in Int /\ running <= MaxConcurrent
    BY Known, FS_CardinalityType DEF Bounded
  <2>2. running \in -MaxForfeits..MaxConcurrent /\ forfeited \in 0..MaxForfeits
    BY <2>1 DEF OptionsOK
  <2>3. queued \in 0..MaxQueued
    BY Known, LenProperties DEF Bounded, OptionsOK
  <2> QED
    BY <2>2, <2>3, Known DEF TypeOK, Bounded
<1> QED
  BY <1>1, <1>2, <1>3, Invariance, PTL DEF SafeSpec

\* For all options, however calls, timeouts, releases and close() are mixed: the
\* counters, the queue and the state agree with the calls, and no place that is
\* counted free is kept from one that waits.
THEOREM PlacesHold == ASSUME OptionsOK PROVE SafeSpec => [](Accounted /\ NoIdlePlace)
<1>1. IInv => Accounted /\ NoIdlePlace
  BY DEF IInv
<1> QED
  BY <1>1, Invariance, PTL

\* The limit is exceeded by no more than the number of waits that ended unserved;
\* without a queue timeout and a close() it is kept.
THEOREM Overshoot ==
  ASSUME OptionsOK
  PROVE  SafeSpec => [](/\ Cardinality(InPhase("executing")) <= MaxConcurrent + forfeited
                        /\ forfeited = 0 => AtMostMaxConcurrent)
<1>1. IInv => /\ Cardinality(InPhase("executing")) <= MaxConcurrent + forfeited
              /\ forfeited = 0 => AtMostMaxConcurrent
  BY Known DEF AtMostMaxConcurrent
<1> QED
  BY <1>1, Invariance, PTL
=============================================================================
