-------------------------- MODULE SemaphoreRunAll --------------------------
(***************************************************************************)
(* Semaphore.runAll(fns) next to ordinary callers of the same semaphore.   *)
(* Its workers are clients of the semaphore, numbered 1..NumWorkers; the   *)
(* other clients call run() as in module Semaphore.                        *)
(*                                                                         *)
(* A worker's loop is synchronous from the finally block of one function   *)
(* through the test of the loop, the claim of the next index and the call  *)
(* of acquire(), so these are one step.                                    *)
(***************************************************************************)
EXTENDS Semaphore

CONSTANT Tasks      \* fns.length

ASSUME TasksAssumption == Tasks \in Nat

NumWorkers == IF Slots < Tasks THEN Slots ELSE Tasks
Workers == 1..NumWorkers
Callers == Clients \ Workers

ASSUME WorkersAssumption == Workers \subseteq Clients

VARIABLES index,    \* the next function that no worker has claimed
          claim,    \* the function each worker has claimed
          worker,   \* how far each worker's promise is
          batch,    \* how far the promise of runAll is
          ran       \* the functions that have completed

batchVars == <<index, claim, worker, batch, ran>>
allVars == <<sem, index, claim, worker, batch, ran>>

Looping == {w \in Workers : worker[w] = "looping"}

BatchInit ==
  /\ Init
  /\ index = 1
  /\ claim = [w \in Workers |-> 0]
  /\ worker = [w \in Workers |-> "off"]
  /\ batch = "off"
  /\ ran = {}

-----------------------------------------------------------------------------
\* The workers 1, 2, ... call acquire(), one after the other: the first take the slots
\* that are free, the others join the line.
AcquireAll(s) ==
  LET free == Slots - s.current
      enter == IF free < NumWorkers THEN free ELSE NumWorkers
  IN  [current |-> s.current + enter,
       queue |-> s.queue \o [i \in 1..(NumWorkers - enter) |-> enter + i],
       holders |-> s.holders \cup 1..enter]

\* runAll(fns): every worker runs up to its first await, one after the other;
\* with no function at all the result is there at once.
RunAll ==
  /\ batch = "off"
  /\ sem' = AcquireAll(sem)
  /\ claim' = [w \in Workers |-> w]
  /\ index' = NumWorkers + 1
  /\ worker' = [w \in Workers |-> "looping"]
  /\ batch' = IF Tasks = 0 THEN "resolved" ELSE "pending"
  /\ UNCHANGED ran

\* The loop of worker w goes round once more, or ends; released is the state
\* of the semaphore after the finally block.
NextClaim(w, released) ==
  IF index <= Tasks
    THEN /\ sem' = AcquireIn(released, w)
         /\ claim' = [claim EXCEPT ![w] = index]
         /\ index' = index + 1
         /\ worker' = worker
    ELSE /\ sem' = released
         /\ worker' = [worker EXCEPT ![w] = "returned"]
         /\ UNCHANGED <<claim, index>>

\* Promise.all resolves with the last of the workers.
Settled(workers) == \A w \in Workers : workers[w] = "returned"

FunctionResolves(w) ==
  /\ w \in Looping \cap sem.holders
  /\ ran' = ran \cup {claim[w]}
  /\ NextClaim(w, ReleaseIn(sem, w))
  /\ batch' = IF batch = "pending" /\ Settled(worker') THEN "resolved" ELSE batch

\* The error leaves the loop of this worker through the finally block and
\* rejects runAll; the other workers know nothing of it.
FunctionRejects(w) ==
  /\ w \in Looping \cap sem.holders
  /\ sem' = ReleaseIn(sem, w)
  /\ worker' = [worker EXCEPT ![w] = "threw"]
  /\ batch' = IF batch = "pending" THEN "rejected" ELSE batch
  /\ UNCHANGED <<index, claim, ran>>

CallerStep(c) == (Acquire(c) \/ Release(c)) /\ UNCHANGED batchVars

BatchNext ==
  \/ RunAll
  \/ \E w \in Workers : FunctionResolves(w) \/ FunctionRejects(w)
  \/ \E c \in Callers : CallerStep(c)

\* Every function settles, the batch's and the callers'.
BatchFairness ==
  /\ \A w \in Workers : WF_allVars(FunctionResolves(w) \/ FunctionRejects(w))
  /\ \A c \in Callers : WF_allVars(Release(c) /\ UNCHANGED batchVars)

BatchSpec == BatchInit /\ [][BatchNext]_allVars /\ BatchFairness

-----------------------------------------------------------------------------
BatchTypeOK ==
  /\ TypeOK
  /\ index \in 1..(Tasks + 1)
  /\ claim \in [Workers -> 0..Tasks]
  /\ worker \in [Workers -> {"off", "looping", "returned", "threw"}]
  /\ batch \in {"off", "pending", "resolved", "rejected"}
  /\ ran \in SUBSET (1..Tasks)

\* The index is claimed before the worker waits for a slot, so no function is
\* ever run by two workers or once more after it has completed (runAll).
NoFunctionTwice ==
  \A w \in Looping :
    /\ claim[w] \notin ran
    /\ \A v \in Looping \ {w} : claim[v] # claim[w]

\* runAll only resolves when every function has completed.
ResolvedMeansComplete == batch = "resolved" => ran = 1..Tasks

\* An error rejects runAll but does not cancel the batch: unless every worker
\* has met one, the functions that are left are all claimed in the end.
NothingForgotten ==
  (batch # "off" /\ Looping = {})
    => index = Tasks + 1 \/ \A w \in Workers : worker[w] = "threw"

\* However the workers fail and interleave, no function of the batch is lost,
\* none is run twice, and the result is only reported when it is complete.
BatchComplete == NoFunctionTwice /\ ResolvedMeansComplete /\ NothingForgotten

\* The promise of runAll settles although other callers compete for the slots.
BatchSettles == (batch = "pending") ~> (batch \in {"resolved", "rejected"})
=============================================================================
