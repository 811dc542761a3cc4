----------------------------- MODULE Primitives -----------------------------
(***************************************************************************)
(* The classes of packages/concurrency, checked together: the read-write   *)
(* lock, the semaphore alone and with runAll(), the mutex, Once and        *)
(* ConcurrentMap.  An object of one class never calls another and shares   *)
(* nothing with it, so that one of them is under test in each behaviour,   *)
(* which says which ("subject"), and the others stay as they were          *)
(* constructed.                                                            *)
(***************************************************************************)
EXTENDS ReadWriteLock, SemaphoreRunAll, FifoLemmas

CONSTANTS OnceCallers, MaxRuns, MaxResets,        \* of Once
          LoadCallers, Keys, Given, Nothing, MaxLoads, MaxDeletes  \* of the map

VARIABLES subject,
          semaphore,                                       \* Semaphore, without runAll()
          locked, queue, owners,                           \* Mutex
          done, promise, runs, awaits, outcome, epoch,     \* Once
          store, loading, loads, loadAwaits, age           \* ConcurrentMap

Sm == INSTANCE Semaphore WITH sem <- semaphore
Mx == INSTANCE Mutex
On == INSTANCE Once WITH Callers <- OnceCallers
Cm == INSTANCE ConcurrentMap WITH Callers <- LoadCallers, awaits <- loadAwaits

\* Values of distinct kinds in the map.
ASSUME ValuesAssumption == Cm!ValuesDistinct

ASSUME BoundsAssumption == MaxRuns \in Nat /\ MaxResets \in Nat /\ MaxLoads \in Nat /\ MaxDeletes \in Nat

mutexVars == <<locked, queue, owners>>
onceVars == <<done, promise, runs, awaits, outcome, epoch>>
mapVars == <<store, loading, loads, loadAwaits, age>>
suiteVars == <<subject, lockVars, allVars, semaphore, mutexVars, onceVars, mapVars>>

SuiteInit ==
  /\ subject \in {"ReadWriteLock", "Semaphore", "SemaphoreRunAll", "Mutex", "Once", "ConcurrentMap"}
  /\ LockInit /\ Sm!Init /\ BatchInit /\ Mx!Init /\ On!Init /\ Cm!Init

LockStep ==
  /\ subject = "ReadWriteLock" /\ LockNext
  /\ UNCHANGED <<subject, allVars, semaphore, mutexVars, onceVars, mapVars>>

SemaphoreStep ==
  /\ subject = "Semaphore" /\ Sm!Next
  /\ UNCHANGED <<subject, lockVars, allVars, mutexVars, onceVars, mapVars>>

BatchStep ==
  /\ subject = "SemaphoreRunAll" /\ BatchNext
  /\ UNCHANGED <<subject, lockVars, semaphore, mutexVars, onceVars, mapVars>>

MutexStep ==
  /\ subject = "Mutex" /\ Mx!Next
  /\ UNCHANGED <<subject, lockVars, allVars, semaphore, onceVars, mapVars>>

OnceStep ==
  /\ subject = "Once" /\ On!Next
  /\ UNCHANGED <<subject, lockVars, allVars, semaphore, mutexVars, mapVars>>

MapStep ==
  /\ subject = "ConcurrentMap" /\ Cm!Next
  /\ UNCHANGED <<subject, lockVars, allVars, semaphore, mutexVars, onceVars>>

SuiteNext == LockStep \/ SemaphoreStep \/ BatchStep \/ MutexStep \/ OnceStep \/ MapStep

\* No fair action is enabled in an object that nobody has used, so the fairness
\* of each class only bears on the one under test.
SuiteFairness ==
  LockFairness /\ Sm!Fairness /\ BatchFairness /\ Mx!Fairness /\ On!Fairness /\ Cm!Fairness

SuiteSpec == SuiteInit /\ [][SuiteNext]_suiteVars /\ SuiteFairness

-----------------------------------------------------------------------------
SuiteTypeOK == LockTypeOK /\ Sm!TypeOK /\ BatchTypeOK /\ Mx!TypeOK /\ On!TypeOK /\ Cm!TypeOK

\* The semaphore and the mutex implement the abstract limiter: a place that is
\* given back goes to whoever has waited longest and to nobody else, and
\* everybody who waits gets one.
LimitersAreFair == Sm!ImplementsFairLimiter /\ Mx!ImplementsFairLimiter

\* Once.run and ConcurrentMap.load: between two resets, or two deletions of a
\* key, the callers share one execution; nobody returns before an execution has
\* completed, and a key's marker never outlives a computation that has succeeded.
\* Semaphore.runAll: each function of the batch is run, once.
ComputationsShared == On!SharedRun /\ Cm!SingleFlight /\ BatchComplete

\* Whoever waits for one of the classes is answered: writers always, readers
\* once no writers come, callers of run() and load() although the executions
\* fail or the objects are reset, that of runAll() although others use its semaphore.
EverybodyAnswered ==
  /\ BatchSettles /\ WriterAdmitted /\ ReaderAdmittedAfterWriters
  /\ On!EveryCallerAnswered /\ Cm!EveryLoadAnswered
-----------------------------------------------------------------------------
(* The invariants and the action properties, for every value of the        *)
(* constants.  What concerns one class is proved about the steps of its    *)
(* module; as the others leave its variables alone, it holds of the        *)
(* composition.                                                            *)

-----------------------------------------------------------------------------
(* The semaphore.  Its invariant is stated for any state of one, since     *)
(* there are two: one alone, and one that runAll() is a user of.           *)

\* The counter counts the owners of the slots; the line is a line: nobody stands in it
\* twice, nor while owning a slot, and nobody at all while a slot is free.  The
\* capacity alone is not inductive: release() hands a slot over without looking at the
\* counter, so one has to know that the counter is right and that the head of the line
\* owns no slot yet.
SemOK(s) ==
  /\ s \in [current : 0..Slots, queue : Seq(Clients), holders : SUBSET Clients]
  /\ IsFiniteSet(s.holders) /\ s.current = Cardinality(s.holders)
  /\ IsInjective(s.queue) /\ Range(s.queue) \cap s.holders = {}
  /\ s.queue # <<>> => s.current = Slots

\* Whoever has called acquire() and has not released.
Using(s) == s.holders \cup Range(s.queue)

LEMMA EmptyOK == SemOK(EmptySemaphore) /\ Using(EmptySemaphore) = {}
<1>1. /\ EmptySemaphore \in [current : 0..Slots, queue : Seq(Clients), holders : SUBSET Clients]
      /\ EmptySemaphore.current = 0 /\ EmptySemaphore.queue = <<>> /\ EmptySemaphore.holders = {}
  BY EmptySeq, SlotsAssumption DEF EmptySemaphore
<1>2. Range(<<>>) = {} /\ IsInjective(<<>>)
  BY DEF Range, IsInjective
<1> QED
  BY <1>1, <1>2, FS_EmptySet DEF SemOK, Using

\* What acquire does: the client enters just when a slot is free, and then nobody waits.
LEMMA AcquireEffect ==
  ASSUME NEW s, SemOK(s), NEW c
  PROVE  \/ /\ s.current < Slots /\ s.queue = <<>>
            /\ AcquireIn(s, c) = [current |-> s.current + 1, queue |-> s.queue,
                                  holders |-> s.holders \cup {c}]
         \/ /\ s.current = Slots
            /\ AcquireIn(s, c) = [current |-> s.current, queue |-> Append(s.queue, c),
                                  holders |-> s.holders]
<1>0. /\ s \in [current : 0..Slots, queue : Seq(Clients), holders : SUBSET Clients]
      /\ s.current \in 0..Slots /\ (s.queue # <<>> => s.current = Slots)
  BY DEF SemOK
<1>1. CASE s.current < Slots
  <2>1. s.queue = <<>>
    BY <1>0, <1>1, SlotsAssumption
  <2> QED
    BY <1>0, <1>1, <2>1 DEF AcquireIn
<1>2. CASE ~(s.current < Slots)
  <2>1. s.current = Slots
    BY <1>0, <1>2, SlotsAssumption
  <2> QED
    BY <1>0, <1>2, <2>1 DEF AcquireIn
<1> QED
  BY <1>1, <1>2

\* What release does: the counter goes down only when nobody takes the slot over.
LEMMA ReleaseEffect ==
  ASSUME NEW s, SemOK(s), NEW c \in s.holders
  PROVE  /\ s.current > 0
         /\ \/ /\ s.queue = <<>>
               /\ ReleaseIn(s, c) = [current |-> s.current - 1, queue |-> s.queue,
                                     holders |-> s.holders \ {c}]
            \/ /\ s.queue # <<>>
               /\ ReleaseIn(s, c) = [current |-> s.current, queue |-> Tail(s.queue),
                                     holders |-> (s.holders \ {c}) \cup {Head(s.queue)}]
<1>1. s.current \in Nat /\ s.current > 0
  BY FS_EmptySet, FS_CardinalityType, SlotsAssumption DEF SemOK
<1>2. (s.current - 1) + 1 = s.current
  BY <1>1
<1> QED
  BY <1>1, <1>2 DEF SemOK, ReleaseIn

LEMMA AcquireKeeps ==
  ASSUME NEW s, SemOK(s), NEW c \in Clients \ Using(s)
  PROVE  SemOK(AcquireIn(s, c)) /\ Using(AcquireIn(s, c)) = Using(s) \cup {c}
<1> USE SlotsAssumption
<1> DEFINE after == AcquireIn(s, c)
<1>0. /\ c \notin s.holders /\ c \notin Range(s.queue) /\ IsInjective(s.queue)
      /\ s.current \in 0..Slots /\ s.queue \in Seq(Clients) /\ s.holders \subseteq Clients
  BY DEF SemOK, Using
<1>1. CASE /\ s.current < Slots /\ s.queue = <<>>
           /\ AcquireIn(s, c) = [current |-> s.current + 1, queue |-> s.queue,
                                 holders |-> s.holders \cup {c}]
  <2>1. after.current = s.current + 1 /\ after.queue = s.queue /\ after.holders = s.holders \cup {c}
    BY <1>1
  <2>2. IsFiniteSet(s.holders \cup {c}) /\ Cardinality(s.holders \cup {c}) = Cardinality(s.holders) + 1
    BY <1>0, FS_AddElement DEF SemOK
  <2>3. after \in [current : 0..Slots, queue : Seq(Clients), holders : SUBSET Clients]
    BY <1>0, <1>1
  <2>4. Range(s.queue) = {}
    BY <1>1 DEF Range
  <2> HIDE DEF after
  <2>5. SemOK(after)
    BY <1>0, <1>1, <2>1, <2>2, <2>3, <2>4 DEF SemOK
  <2>6. Using(after) = Using(s) \cup {c}
    BY <2>1 DEF Using
  <2> QED
    BY <2>5, <2>6 DEF after
<1>2. CASE /\ s.current = Slots
           /\ AcquireIn(s, c) = [current |-> s.current, queue |-> Append(s.queue, c),
                                 holders |-> s.holders]
  <2>1. after.current = s.current /\ after.queue = Append(s.queue, c) /\ after.holders = s.holders
    BY <1>2
  <2>2. /\ Append(s.queue, c) \in Seq(Clients) /\ IsInjective(Append(s.queue, c))
        /\ Range(Append(s.queue, c)) = Range(s.queue) \cup {c}
    BY <1>0, AppendProperties, RangeAppend, InjectiveAppend
  <2>3. after \in [current : 0..Slots, queue : Seq(Clients), holders : SUBSET Clients]
    BY <1>0, <1>2, <2>2
  <2> HIDE DEF after
  <2>4. SemOK(after)
    BY <1>0, <1>2, <2>1, <2>2, <2>3 DEF SemOK
  <2>5. Using(after) = Using(s) \cup {c}
    BY <2>1, <2>2 DEF Using
  <2> QED
    BY <2>4, <2>5 DEF after
<1> QED
  BY <1>1, <1>2, AcquireEffect

LEMMA ReleaseKeeps ==
  ASSUME NEW s, SemOK(s), NEW c \in s.holders
  PROVE  SemOK(ReleaseIn(s, c)) /\ Using(ReleaseIn(s, c)) = Using(s) \ {c}
<1> USE SlotsAssumption
<1> DEFINE after == ReleaseIn(s, c)
<1>0. /\ s.current > 0 /\ s.current \in 0..Slots
      /\ s.queue \in Seq(Clients) /\ IsInjective(s.queue) /\ Range(s.queue) \cap s.holders = {}
      /\ s.holders \subseteq Clients /\ IsFiniteSet(s.holders) /\ s.current = Cardinality(s.holders)
  BY ReleaseEffect DEF SemOK
<1>a. IsFiniteSet(s.holders \ {c}) /\ Cardinality(s.holders \ {c}) = s.current - 1
  BY <1>0, FS_RemoveElement
<1>1. CASE /\ s.queue = <<>>
           /\ ReleaseIn(s, c) = [current |-> s.current - 1, queue |-> s.queue,
                                 holders |-> s.holders \ {c}]
  <2>1. after.current = s.current - 1 /\ after.queue = s.queue /\ after.holders = s.holders \ {c}
    BY <1>1
  <2>2. after \in [current : 0..Slots, queue : Seq(Clients), holders : SUBSET Clients]
    BY <1>0, <1>1
  <2> HIDE DEF after
  <2>3. SemOK(after)
    BY <1>0, <1>a, <1>1, <2>1, <2>2 DEF SemOK
  <2>4. Using(after) = Using(s) \ {c}
    BY <1>0, <2>1 DEF Using
  <2> QED
    BY <2>3, <2>4 DEF after
<1>2. CASE /\ s.queue # <<>>
           /\ ReleaseIn(s, c) = [current |-> s.current, queue |-> Tail(s.queue),
                                 holders |-> (s.holders \ {c}) \cup {Head(s.queue)}]
  <2> DEFINE h == Head(s.queue)
  <2>0. after.current = s.current /\ after.queue = Tail(s.queue) /\ after.holders = (s.holders \ {c}) \cup {h}
    BY <1>2
  <2>1. /\ h \in Range(s.queue) /\ h \in Clients
        /\ Tail(s.queue) \in Seq(Clients)
        /\ Range(Tail(s.queue)) = Range(s.queue) \ {h}
        /\ IsInjective(Tail(s.queue))
    BY <1>0, <1>2, ShiftLine
  <2>2. after \in [current : 0..Slots, queue : Seq(Clients), holders : SUBSET Clients]
    BY <1>0, <1>2, <2>1
  <2> HIDE DEF after, h
  <2>3. /\ IsFiniteSet((s.holders \ {c}) \cup {h})
        /\ Cardinality((s.holders \ {c}) \cup {h}) = (s.current - 1) + 1
    BY <1>0, <1>a, <2>1, FS_AddElement
  <2>4. SemOK(after)
    <3>1. s.current = Slots
      BY <1>2 DEF SemOK
    <3>2. Range(Tail(s.queue)) \cap ((s.holders \ {c}) \cup {h}) = {}
      BY <1>0, <2>1
    <3>3. (s.current - 1) + 1 = s.current
      BY <1>0
    <3> QED
      BY <2>0, <2>1, <2>2, <2>3, <3>1, <3>2, <3>3 DEF SemOK
  <2>5. Using(after) = Using(s) \ {c}
    BY <1>0, <2>0, <2>1 DEF Using
  <2> QED
    BY <2>4, <2>5 DEF after
<1> QED
  BY <1>1, <1>2, ReleaseEffect

\* The two steps of a client of the semaphore.
LEMMA ClientKeeps ==
  ASSUME SemOK(sem), NEW c \in Clients, Acquire(c) \/ Release(c)
  PROVE  SemOK(sem') /\ Using(sem') \ {c} = Using(sem) \ {c}
<1>1. CASE Acquire(c)
  BY <1>1, AcquireKeeps DEF Acquire, Using
<1>2. CASE Release(c)
  BY <1>2, ReleaseKeeps DEF Release, Using
<1> QED
  BY <1>1, <1>2

\* The semaphore keeps its inductive invariant.
LEMMA SemaphoreNext == SemOK(sem) /\ [Next]_sem => SemOK(sem)'
BY ClientKeeps DEF Next

-----------------------------------------------------------------------------
(* runAll() on a semaphore that others use as well.                        *)

\* The workers that loop are users of the semaphore, and no others are.
WorkersUse == SemOK(sem) /\ \A w \in Workers : w \in Looping <=> w \in Using(sem)

\* A worker that loops has claimed a function that no other has claimed and that has
\* not completed; unless a worker threw, every function claimed is with one or has completed.
ClaimsFit ==
  /\ \A w \in Looping : claim[w] \in 1..(index - 1) /\ claim[w] \notin ran
  /\ \A v, w \in Looping : claim[v] = claim[w] => v = w
  /\ ran \subseteq 1..(index - 1)
  /\ (\A w \in Workers : worker[w] # "threw") =>
       \A i \in 1..(index - 1) : i \in ran \/ \E w \in Looping : claim[w] = i

\* How far the workers are agrees with how far the batch is.
WorkersFit ==
  /\ batch = "off" => index = 1 /\ ran = {} /\ \A w \in Workers : worker[w] = "off"
  /\ batch # "off" => \A w \in Workers : worker[w] # "off"
  /\ \A w \in Workers : worker[w] = "returned" => index = Tasks + 1
  /\ batch \in {"pending", "resolved"} => \A w \in Workers : worker[w] # "threw"
  /\ batch = "resolved" => Looping = {} /\ index = Tasks + 1

BatchInv == BatchTypeOK /\ WorkersUse /\ ClaimsFit /\ WorkersFit

LEMMA NumWorkersCounts == NumWorkers \in Nat /\ NumWorkers <= Slots /\ NumWorkers <= Tasks
BY SlotsAssumption, TasksAssumption DEF NumWorkers

\* The workers that start take the free slots and join the line.
LEMMA AcquireAllKeeps ==
  ASSUME NEW s, SemOK(s), Using(s) \cap Workers = {}
  PROVE  SemOK(AcquireAll(s)) /\ Using(AcquireAll(s)) = Using(s) \cup Workers
<1> DEFINE free == Slots - s.current
           enter == IF free < NumWorkers THEN free ELSE NumWorkers
           line == [i \in 1..(NumWorkers - enter) |-> enter + i]
           after == AcquireAll(s)
<1> USE SlotsAssumption, NumWorkersCounts
<1>0. /\ s.current \in 0..Slots /\ s.queue \in Seq(Clients) /\ s.holders \subseteq Clients
      /\ IsFiniteSet(s.holders) /\ s.current = Cardinality(s.holders)
      /\ IsInjective(s.queue) /\ Range(s.queue) \cap s.holders = {}
      /\ (s.queue # <<>> => s.current = Slots)
      /\ s.holders \cap Workers = {} /\ Range(s.queue) \cap Workers = {}
      /\ Workers = 1..NumWorkers /\ Workers \subseteq Clients
  BY WorkersAssumption DEF SemOK, Using, Workers
<1>1. after.current = s.current + enter /\ after.queue = s.queue \o line /\ after.holders = s.holders \cup 1..enter
  BY DEF AcquireAll
<1>2. /\ enter \in Nat /\ enter <= NumWorkers /\ NumWorkers - enter \in Nat /\ s.current + enter \in 0..Slots
      /\ (enter < NumWorkers => s.current + enter = Slots)
      /\ (s.queue # <<>> => s.current + enter = Slots)
  BY <1>0
<1>3. after = [current |-> s.current + enter, queue |-> s.queue \o line, holders |-> s.holders \cup 1..enter]
  BY DEF AcquireAll
<1> HIDE DEF enter
<1>4. line \in Seq(Clients) /\ Len(line) = NumWorkers - enter /\ DOMAIN line = 1..(NumWorkers - enter)
  <2>1. \A i \in 1..(NumWorkers - enter) : enter + i \in Workers
    BY <1>0, <1>2
  <2>2. line \in [1..(NumWorkers - enter) -> Clients]
    BY <1>0, <2>1
  <2>3. line \in Seq(Clients)
    BY <1>2, <2>2, SeqDef, ZenonT(60)
  <2>4. DOMAIN line = 1..(NumWorkers - enter) /\ DOMAIN line = 1..Len(line) /\ Len(line) \in Nat
    BY <2>3, LenProperties
  <2>5. Len(line) = NumWorkers - enter
    BY <1>2, <2>4
  <2> QED
    BY <2>3, <2>4, <2>5
<1>5. IsInjective(line) /\ Range(line) = Workers \ 1..enter
  <2>1. IsInjective(line)
    BY <1>2, <1>4 DEF IsInjective
  <2>2. ASSUME NEW w \in Workers \ 1..enter PROVE w \in Range(line)
    <3>1. w - enter \in 1..(NumWorkers - enter) /\ enter + (w - enter) = w
      BY <1>0, <1>2
    <3> QED
      BY <1>4, <3>1 DEF Range
  <2>3. ASSUME NEW w \in Range(line) PROVE w \in Workers \ 1..enter
    <3>1. PICK i \in 1..(NumWorkers - enter) : w = enter + i
      BY <1>4 DEF Range
    <3> QED
      BY <1>0, <1>2, <3>1
  <2> QED
    BY <2>1, <2>2, <2>3
<1> HIDE DEF line
<1>6. 1..enter \subseteq Workers /\ IsFiniteSet(1..enter) /\ Cardinality(1..enter) = enter
  <2>1. 1..enter \subseteq Workers
    BY <1>0, <1>2
  <2>2. 1 \in Int /\ enter \in Int
    BY <1>2
  <2>3. IsFiniteSet(1..enter) /\ Cardinality(1..enter) = IF 1 > enter THEN 0 ELSE enter - 1 + 1
    BY ONLY <2>2, FS_Interval
  <2>4. Cardinality(1..enter) = enter
    BY <1>2, <2>3
  <2> QED
    BY <2>1, <2>3, <2>4
<1>7. Range(s.queue) \cap Range(line) = {}
  BY <1>0, <1>5
<1>8. s.queue \o line \in Seq(Clients) /\ IsInjective(s.queue \o line) /\ Range(s.queue \o line) = Range(s.queue) \cup Range(line)
  BY <1>0, <1>4, <1>5, <1>7, JoinLines
<1>9. IsFiniteSet(s.holders \cup 1..enter) /\ Cardinality(s.holders \cup 1..enter) = s.current + enter
  <2>1. s.holders \cap (1..enter) = {}
    BY <1>0, <1>6
  <2>2. /\ IsFiniteSet(s.holders \cup 1..enter)
        /\ Cardinality(s.holders \cup 1..enter) =
             Cardinality(s.holders) + Cardinality(1..enter) - Cardinality(s.holders \cap (1..enter))
    BY ONLY <1>0, <1>6, FS_Union
  <2>3. Cardinality(s.holders \cap (1..enter)) = 0
    BY <2>1, FS_EmptySet
  <2> QED
    BY <1>0, <1>2, <1>6, <2>2, <2>3
<1>10. s.queue \o line # <<>> => s.current + enter = Slots
  <2>1. CASE enter = NumWorkers
    <3>1. line = <<>>
      BY <1>2, <1>4, <2>1, EmptySeq
    <3> QED
      BY <1>0, <1>2, <3>1, ConcatEmptySeq
  <2> QED
    BY <1>2, <2>1
<1>11. Range(s.queue \o line) \cap (s.holders \cup 1..enter) = {}
  BY <1>0, <1>5, <1>6, <1>8
<1>12. after \in [current : 0..Slots, queue : Seq(Clients), holders : SUBSET Clients]
  BY <1>0, <1>2, <1>3, <1>6, <1>8
<1> HIDE DEF after
<1>13. SemOK(after)
  BY <1>1, <1>8, <1>9, <1>10, <1>11, <1>12 DEF SemOK
<1>14. Using(after) = Using(s) \cup Workers
  BY <1>1, <1>5, <1>6, <1>8 DEF Using
<1> QED
  BY <1>13, <1>14 DEF after

LEMMA BatchStarts == BatchInit => BatchInv
<1> SUFFICES ASSUME BatchInit PROVE BatchInv
  OBVIOUS
<1>1. SemOK(sem) /\ Using(sem) = {}
  BY EmptyOK DEF BatchInit, Init
<1>2. Looping = {}
  BY DEF BatchInit, Looping
<1>3. BatchTypeOK
  BY <1>1, TasksAssumption DEF BatchInit, BatchTypeOK, TypeOK, SemOK
<1>4. WorkersUse /\ ClaimsFit /\ WorkersFit
  BY <1>1, <1>2 DEF BatchInit, WorkersUse, ClaimsFit, WorkersFit
<1> QED
  BY <1>3, <1>4 DEF BatchInv

LEMMA RunAllKeeps == ASSUME BatchInv, RunAll PROVE BatchInv'
<1> USE NumWorkersCounts, TasksAssumption
<1>1. /\ SemOK(sem) /\ Using(sem) \cap Workers = {} /\ ran = {} /\ index = 1
  BY DEF BatchInv, WorkersUse, WorkersFit, RunAll, Looping
<1>2. /\ SemOK(sem') /\ Using(sem') = Using(sem) \cup Workers
  BY <1>1, AcquireAllKeeps DEF RunAll
<1>3. /\ Looping' = Workers /\ worker' = [w \in Workers |-> "looping"] /\ claim' = [w \in Workers |-> w]
      /\ index' = NumWorkers + 1 /\ ran' = {} /\ Workers = 1..NumWorkers
      /\ batch' = IF Tasks = 0 THEN "resolved" ELSE "pending"
  BY <1>1 DEF RunAll, Looping, Workers
<1>4. BatchTypeOK'
  BY <1>2, <1>3 DEF BatchTypeOK, TypeOK, SemOK
<1>5. WorkersUse'
  BY <1>2, <1>3 DEF WorkersUse
<1>6. ClaimsFit'
  BY <1>3 DEF ClaimsFit
<1>7. WorkersFit'
  <2>1. Tasks = 0 => Workers = {} /\ NumWorkers = 0
    BY <1>3
  <2> QED
    BY <1>3, <2>1 DEF WorkersFit
<1> QED
  BY <1>4, <1>5, <1>6, <1>7 DEF BatchInv

\* What the end of a function leaves of the semaphore.
LEMMA Released ==
  ASSUME BatchInv, NEW w \in Looping \cap sem.holders
  PROVE  /\ SemOK(ReleaseIn(sem, w)) /\ Using(ReleaseIn(sem, w)) = Using(sem) \ {w}
         /\ w \in Workers /\ w \in Clients
BY ReleaseKeeps, WorkersAssumption DEF BatchInv, WorkersUse, Looping

\* A batch of which a worker loops is pending or rejected.
LEMMA LoopingMeans ==
  ASSUME BatchInv, NEW w \in Looping
  PROVE  batch \in {"pending", "rejected"} /\ w \in Workers /\ worker[w] = "looping"
BY DEF BatchInv, BatchTypeOK, WorkersFit, Looping

LEMMA LoopsOn ==
  ASSUME BatchInv, NEW w \in Workers, FunctionResolves(w), index <= Tasks PROVE BatchInv'
<1>0. w \in Looping \cap sem.holders
  BY DEF FunctionResolves
<1>1. /\ SemOK(ReleaseIn(sem, w)) /\ Using(ReleaseIn(sem, w)) = Using(sem) \ {w} /\ w \in Clients
      /\ batch \in {"pending", "rejected"} /\ worker[w] = "looping"
  BY <1>0, Released, LoopingMeans
<1>2. /\ sem' = AcquireIn(ReleaseIn(sem, w), w) /\ claim' = [claim EXCEPT ![w] = index]
      /\ index' = index + 1 /\ worker' = worker /\ ran' = ran \cup {claim[w]} /\ Looping' = Looping
      /\ batch' = batch
  <2>1. worker' = worker
    BY DEF FunctionResolves, NextClaim
  <2>2. ~Settled(worker')
    BY <1>1, <2>1 DEF Settled
  <2> QED
    BY <2>1, <2>2 DEF FunctionResolves, NextClaim, Looping
<1>3. SemOK(sem') /\ Using(sem') = Using(sem)
  <2>1. w \in Clients \ Using(ReleaseIn(sem, w)) /\ w \in Using(sem)
    BY <1>0, <1>1 DEF Using
  <2>2. SemOK(AcquireIn(ReleaseIn(sem, w), w))
        /\ Using(AcquireIn(ReleaseIn(sem, w), w)) = Using(ReleaseIn(sem, w)) \cup {w}
    BY <1>1, <2>1, AcquireKeeps
  <2> QED
    BY <1>1, <1>2, <2>1, <2>2
<1>4. /\ index \in 1..Tasks /\ Tasks \in Nat /\ claim \in [Workers -> 0..Tasks] /\ ran \in SUBSET (1..Tasks)
      /\ Looping \subseteq Workers /\ w \in Looping
  BY <1>0, TasksAssumption DEF BatchInv, BatchTypeOK, Looping
<1>5. claim[w] \in 1..(index - 1)
  BY <1>4 DEF BatchInv, ClaimsFit
<1>6. BatchTypeOK'
  <2>1. TypeOK'
    BY <1>3 DEF TypeOK, SemOK
  <2>2. index' \in 1..(Tasks + 1) /\ claim' \in [Workers -> 0..Tasks]
    BY <1>2, <1>4
  <2>3. claim[w] \in 1..Tasks
    BY <1>4, <1>5
  <2> QED
    BY <1>2, <1>4, <2>1, <2>2, <2>3 DEF BatchInv, BatchTypeOK
<1>7. WorkersUse'
  BY <1>2, <1>3 DEF BatchInv, WorkersUse
<1>8. ClaimsFit'
  <2>1. \A v \in Looping : claim'[v] = IF v = w THEN index ELSE claim[v]
    BY <1>2, <1>4
  <2>2. \A v \in Looping : claim[v] \in 1..(index - 1) /\ claim[v] \notin ran
    BY DEF BatchInv, ClaimsFit
  <2>3. \A v \in Looping : claim'[v] \in 1..(index' - 1) /\ claim'[v] \notin ran'
    <3> SUFFICES ASSUME NEW v \in Looping PROVE claim'[v] \in 1..(index' - 1) /\ claim'[v] \notin ran'
      OBVIOUS
    <3>1. CASE v = w
      <4>1. index \notin ran
        BY <1>4 DEF BatchInv, ClaimsFit
      <4> QED
        BY <1>2, <1>4, <1>5, <2>1, <3>1, <4>1
    <3>2. CASE v # w
      <4>1. claim[v] # claim[w]
        BY <1>4, <3>2 DEF BatchInv, ClaimsFit
      <4> QED
        BY <1>2, <1>4, <2>1, <2>2, <3>2, <4>1
    <3> QED
      BY <3>1, <3>2
  <2>4. \A u, v \in Looping : claim'[u] = claim'[v] => u = v
    <3>1. index \notin 1..(index - 1)
      BY <1>4
    <3> QED
      BY <2>1, <2>2, <3>1 DEF BatchInv, ClaimsFit
  <2>5. ran' \subseteq 1..(index' - 1)
    <3>1. 1..(index - 1) \subseteq 1..(index' - 1) /\ ran \subseteq 1..(index - 1)
      BY <1>2, <1>4 DEF BatchInv, ClaimsFit
    <3> QED
      BY <1>2, <1>5, <3>1
  <2>6. ASSUME \A v \in Workers : worker'[v] # "threw", NEW i \in 1..(index' - 1)
        PROVE  i \in ran' \/ \E v \in Looping : claim'[v] = i
    <3>1. CASE i = index
      BY <1>4, <2>1, <3>1
    <3>2. CASE i # index
      <4>1. i \in 1..(index - 1)
        BY <1>2, <1>4, <3>2
      <4>2. i \in ran \/ \E v \in Looping : claim[v] = i
        BY <1>2, <2>6, <4>1 DEF BatchInv, ClaimsFit
      <4> QED
        BY <1>2, <2>1, <4>2
    <3> QED
      BY <3>1, <3>2
  <2> QED
    BY <1>2, <2>3, <2>4, <2>5, <2>6 DEF ClaimsFit
<1>9. WorkersFit'
  <2>1. \A v \in Workers : worker[v] # "returned"
    BY <1>4 DEF BatchInv, WorkersFit
  <2> QED
    BY <1>1, <1>2, <2>1 DEF BatchInv, WorkersFit
<1> QED
  BY <1>6, <1>7, <1>8, <1>9 DEF BatchInv

\* A worker that leaves its loop, with or without an error.
LEMMA Leaves ==
  ASSUME BatchInv, NEW w \in Looping \cap sem.holders, NEW end \in {"returned", "threw"},
         sem' = ReleaseIn(sem, w), worker' = [worker EXCEPT ![w] = end], UNCHANGED <<index, claim>>,
         ran' = IF end = "returned" THEN ran \cup {claim[w]} ELSE ran,
         end = "returned" => index = Tasks + 1
  PROVE  /\ Looping' = Looping \ {w} /\ worker \in [Workers -> {"off", "looping", "returned", "threw"}]
         /\ w \in Workers
         /\ SemOK(sem') /\ ran' \in SUBSET (1..Tasks) /\ WorkersUse' /\ ClaimsFit'
         /\ \A v \in Workers : worker'[v] = "returned" => index' = Tasks + 1
<1>1. /\ SemOK(sem') /\ Using(sem') = Using(sem) \ {w} /\ w \in Workers /\ worker[w] = "looping"
  BY Released, LoopingMeans
<1>2. /\ index \in 1..(Tasks + 1) /\ Tasks \in Nat /\ claim \in [Workers -> 0..Tasks] /\ ran \in SUBSET (1..Tasks)
      /\ worker \in [Workers -> {"off", "looping", "returned", "threw"}] /\ Looping \subseteq Workers
  BY TasksAssumption DEF BatchInv, BatchTypeOK, Looping
<1>3. Looping' = Looping \ {w}
  BY <1>1, <1>2 DEF Looping
<1>4. claim[w] \in 1..(index - 1)
  BY DEF BatchInv, ClaimsFit
<1>5. WorkersUse'
  BY <1>1, <1>3 DEF BatchInv, WorkersUse
<1>6. ran' \in SUBSET (1..Tasks)
  <2>1. claim[w] \in 1..Tasks
    BY <1>2, <1>4
  <2> QED
    BY <1>2, <2>1
<1>7. ClaimsFit'
  <2>1. \A v \in Looping' : claim'[v] \in 1..(index' - 1) /\ claim'[v] \notin ran'
    BY <1>3 DEF BatchInv, ClaimsFit
  <2>2. ran' \subseteq 1..(index' - 1)
    BY <1>4 DEF BatchInv, ClaimsFit
  <2>3. ASSUME \A v \in Workers : worker'[v] # "threw", NEW i \in 1..(index' - 1)
        PROVE  i \in ran' \/ \E v \in Looping' : claim'[v] = i
    <3>1. end = "returned" /\ \A v \in Workers : worker[v] # "threw"
      BY <1>1, <1>2, <2>3
    <3>2. i \in ran \/ \E v \in Looping : claim[v] = i
      BY <2>3, <3>1 DEF BatchInv, ClaimsFit
    <3> QED
      BY <1>3, <3>1, <3>2
  <2> QED
    BY <1>3, <2>1, <2>2, <2>3 DEF BatchInv, ClaimsFit
<1>8. \A v \in Workers : worker'[v] = "returned" => index' = Tasks + 1
  BY <1>1, <1>2 DEF BatchInv, WorkersFit
<1> QED
  BY <1>1, <1>2, <1>3, <1>5, <1>6, <1>7, <1>8

LEMMA ReturnKeeps ==
  ASSUME BatchInv, NEW w \in Workers, FunctionResolves(w), ~(index <= Tasks) PROVE BatchInv'
<1>0. w \in Looping \cap sem.holders
  BY DEF FunctionResolves
<1>1. /\ sem' = ReleaseIn(sem, w) /\ worker' = [worker EXCEPT ![w] = "returned"] /\ UNCHANGED <<claim, index>>
      /\ ran' = ran \cup {claim[w]}
      /\ batch' = IF batch = "pending" /\ Settled(worker') THEN "resolved" ELSE batch
  BY DEF FunctionResolves, NextClaim
<1>2. index = Tasks + 1
  BY TasksAssumption DEF BatchInv, BatchTypeOK
<1>3. /\ Looping' = Looping \ {w} /\ worker \in [Workers -> {"off", "looping", "returned", "threw"}]
      /\ SemOK(sem') /\ ran' \in SUBSET (1..Tasks) /\ WorkersUse' /\ ClaimsFit'
  BY <1>0, <1>1, <1>2, Leaves
<1>4. batch \in {"pending", "rejected"} /\ batch' \in {"pending", "resolved", "rejected"}
  BY <1>0, <1>1, LoopingMeans
<1>5. BatchTypeOK'
  BY <1>1, <1>3, <1>4 DEF BatchInv, BatchTypeOK, TypeOK, SemOK
<1>6. \A v \in Workers : worker'[v] = IF v = w THEN "returned" ELSE worker[v]
  BY <1>1, <1>3
<1>7. batch' = "resolved" => Looping' = {}
  <2>1. batch' = "resolved" => \A v \in Workers : worker'[v] = "returned"
    BY <1>1, <1>4 DEF Settled
  <2> QED
    BY <2>1 DEF Looping
<1>8. WorkersFit'
  BY <1>1, <1>2, <1>4, <1>6, <1>7 DEF BatchInv, WorkersFit
<1> QED
  BY <1>3, <1>5, <1>8 DEF BatchInv

LEMMA RejectKeeps ==
  ASSUME BatchInv, NEW w \in Workers, FunctionRejects(w) PROVE BatchInv'
<1>1. /\ sem' = ReleaseIn(sem, w) /\ worker' = [worker EXCEPT ![w] = "threw"] /\ UNCHANGED <<index, claim, ran>>
      /\ batch' = IF batch = "pending" THEN "rejected" ELSE batch
      /\ w \in Looping \cap sem.holders
  BY DEF FunctionRejects
<1>2. batch \in {"pending", "rejected"} /\ batch' = "rejected"
  BY <1>1, LoopingMeans
<1>3. /\ Looping' = Looping \ {w} /\ worker \in [Workers -> {"off", "looping", "returned", "threw"}]
      /\ SemOK(sem') /\ ran' \in SUBSET (1..Tasks) /\ WorkersUse' /\ ClaimsFit'
      /\ \A v \in Workers : worker'[v] = "returned" => index' = Tasks + 1
  BY <1>1, Leaves
<1>4. BatchTypeOK'
  BY <1>1, <1>2, <1>3 DEF BatchInv, BatchTypeOK, TypeOK, SemOK
<1>5. \A v \in Workers : worker'[v] = IF v = w THEN "threw" ELSE worker[v]
  BY <1>1, <1>3
<1>6. WorkersFit'
  BY <1>1, <1>2, <1>3, <1>5 DEF BatchInv, WorkersFit
<1> QED
  BY <1>3, <1>4, <1>6 DEF BatchInv

LEMMA BatchKeeps == BatchInv /\ [BatchNext]_allVars => BatchInv'
<1> SUFFICES ASSUME BatchInv, [BatchNext]_allVars PROVE BatchInv'
  OBVIOUS
<1>1. CASE RunAll
  BY <1>1, RunAllKeeps
<1>2. ASSUME NEW w \in Workers, FunctionResolves(w) PROVE BatchInv'
  BY <1>2, LoopsOn, ReturnKeeps
<1>3. ASSUME NEW w \in Workers, FunctionRejects(w) PROVE BatchInv'
  BY <1>3, RejectKeeps
<1>4. ASSUME NEW c \in Callers, CallerStep(c) PROVE BatchInv'
  <2>1. c \in Clients /\ c \notin Workers /\ (Acquire(c) \/ Release(c)) /\ UNCHANGED batchVars
    BY <1>4 DEF Callers, CallerStep
  <2>2. SemOK(sem') /\ Using(sem') \ {c} = Using(sem) \ {c}
    BY <2>1, ClientKeeps DEF BatchInv, WorkersUse
  <2>3. UNCHANGED <<index, claim, worker, batch, ran>> /\ Looping' = Looping
    BY <2>1 DEF batchVars, Looping
  <2>4. BatchTypeOK'
    BY <2>2, <2>3 DEF BatchInv, BatchTypeOK, TypeOK, SemOK
  <2>5. WorkersUse'
    BY <2>1, <2>2, <2>3 DEF BatchInv, WorkersUse
  <2>6. ClaimsFit' /\ WorkersFit'
    BY <2>3 DEF BatchInv, ClaimsFit, WorkersFit
  <2> QED
    BY <2>4, <2>5, <2>6 DEF BatchInv
<1>5. CASE UNCHANGED allVars
  BY <1>5 DEF allVars, BatchInv, BatchTypeOK, TypeOK, WorkersUse, ClaimsFit, WorkersFit, Looping
<1> QED
  BY <1>1, <1>2, <1>3, <1>4, <1>5 DEF BatchNext

\* What the runs check of the batch and of the semaphore it uses.
LEMMA BatchHolds ==
  BatchInv => BatchTypeOK /\ CapacityRespected /\ NoIdleSlot /\ BatchComplete
<1> SUFFICES ASSUME BatchInv PROVE BatchTypeOK /\ CapacityRespected /\ NoIdleSlot /\ BatchComplete
  OBVIOUS
<1>1. BatchTypeOK /\ CapacityRespected /\ NoIdleSlot
  BY SlotsAssumption DEF BatchInv, WorkersUse, SemOK, CapacityRespected, NoIdleSlot
<1>2. NoFunctionTwice
  BY DEF BatchInv, ClaimsFit, NoFunctionTwice
<1>3. ResolvedMeansComplete
  <2> SUFFICES ASSUME batch = "resolved" PROVE ran = 1..Tasks
    BY DEF ResolvedMeansComplete
  <2>1. Looping = {} /\ index = Tasks + 1 /\ \A w \in Workers : worker[w] # "threw"
    BY DEF BatchInv, WorkersFit
  <2>2. (Tasks + 1) - 1 = Tasks
    BY TasksAssumption
  <2>3. ran \subseteq 1..Tasks /\ \A i \in 1..Tasks : i \in ran
    BY <2>1, <2>2 DEF BatchInv, ClaimsFit
  <2> QED
    BY <2>3
<1>4. NothingForgotten
  BY DEF BatchInv, BatchTypeOK, WorkersFit, NothingForgotten, Looping
<1> QED
  BY <1>1, <1>2, <1>3, <1>4 DEF BatchComplete

-----------------------------------------------------------------------------
(* The read-write lock.                                                    *)

\* The two fields count who is inside.
Counters ==
  /\ IsFiniteSet(reading)
  /\ readers = Cardinality(reading)
  /\ writer <=> writing # {}

\* Everybody is at one place: inside once, or in one line once, or outside.
OnePlace ==
  /\ IsInjective(readQueue)
  /\ IsInjective(writeQueue)
  /\ Range(readQueue) \cap reading = {}

\* The inductive invariant.  Exclusion is not inductive by itself: a lock is
\* handed over on the strength of the counters, so they have to be right, and
\* the readers that are let in together have to be as many as are counted.
LockInv == LockTypeOK /\ Counters /\ OnePlace /\ Exclusion /\ NobodyStranded

LEMMA LockStarts == LockInit => LockInv
<1> SUFFICES ASSUME LockInit PROVE LockInv
  OBVIOUS
<1>1. LockTypeOK
  BY EmptySeq DEF LockInit, LockTypeOK
<1>4. NobodyStranded /\ Exclusion
  BY DEF LockInit, NobodyStranded, Exclusion
<1>2. Counters
  BY FS_EmptySet DEF LockInit, Counters
<1>3. OnePlace
  BY DEF LockInit, OnePlace, IsInjective, Range
<1> QED
  BY <1>1, <1>2, <1>3, <1>4 DEF LockInv

\* The counter of the readers is zero just when no reader is inside.
LEMMA NoReaders ==
  ASSUME LockInv
  PROVE  readers = 0 <=> reading = {}
  BY FS_EmptySet DEF LockInv, Counters

LEMMA AcquireReadKeeps ==
  ASSUME LockInv, NEW c \in Lockers, AcquireRead(c)
  PROVE  LockInv'
<1> USE DEF LockInv, AcquireRead, Outside
<1>1. CASE ReaderEnters(c)
  <2>1. LockTypeOK'
    BY <1>1 DEF LockTypeOK, ReaderEnters
  <2>2. Counters'
    BY <1>1, FS_AddElement DEF Counters, ReaderEnters
  <2>3. OnePlace'
    BY <1>1 DEF OnePlace, ReaderEnters
  <2>4. Exclusion' /\ NobodyStranded'
    BY <1>1 DEF Exclusion, NobodyStranded, Counters, ReaderEnters
  <2> QED
    BY <2>1, <2>2, <2>3, <2>4
<1>2. CASE ReaderWaits(c)
  <2>1. readQueue \in Seq(Lockers) /\ IsInjective(readQueue) /\ c \notin Range(readQueue)
    BY DEF LockTypeOK, OnePlace
  <2>2. /\ Append(readQueue, c) \in Seq(Lockers)
        /\ IsInjective(Append(readQueue, c))
        /\ Range(Append(readQueue, c)) = Range(readQueue) \cup {c}
    BY <2>1, AppendProperties, InjectiveAppend, RangeAppend
  <2>3. LockTypeOK' /\ OnePlace'
    BY <1>2, <2>2 DEF LockTypeOK, OnePlace, ReaderWaits
  <2>4. Counters' /\ Exclusion' /\ NobodyStranded'
    BY <1>2 DEF Counters, Exclusion, NobodyStranded, ReaderWaits
  <2> QED
    BY <2>3, <2>4
<1> QED
  BY <1>1, <1>2

LEMMA AcquireWriteKeeps ==
  ASSUME LockInv, NEW c \in Lockers, AcquireWrite(c)
  PROVE  LockInv'
<1> USE DEF LockInv, AcquireWrite, Outside
<1>1. CASE WriterEnters(c)
  <2>1. reading = {} /\ writing = {} /\ writing' = {c} /\ writeQueue = <<>>
    BY <1>1, NoReaders DEF WriterEnters, Counters, NobodyStranded
  <2>2. LockTypeOK' /\ Counters' /\ OnePlace'
    BY <1>1, <2>1 DEF LockTypeOK, Counters, OnePlace, WriterEnters
  <2>3. Exclusion' /\ NobodyStranded'
    BY <1>1, <2>1 DEF Exclusion, NobodyStranded, WriterEnters
  <2> QED
    BY <2>2, <2>3
<1>2. CASE WriterWaits(c)
  <2>1. writeQueue \in Seq(Lockers) /\ IsInjective(writeQueue) /\ c \notin Range(writeQueue)
    BY DEF LockTypeOK, OnePlace
  <2>2. /\ Append(writeQueue, c) \in Seq(Lockers)
        /\ IsInjective(Append(writeQueue, c))
    BY <2>1, AppendProperties, InjectiveAppend
  <2>3. writing \cup reading # {}
    BY <1>2, NoReaders DEF WriterWaits, Counters, LockTypeOK
  <2>4. LockTypeOK' /\ OnePlace'
    BY <1>2, <2>2 DEF LockTypeOK, OnePlace, WriterWaits
  <2>5. Counters' /\ Exclusion'
    BY <1>2 DEF Counters, Exclusion, WriterWaits
  <2>6. NobodyStranded'
    <3>1. Append(writeQueue, c) # <<>>
      BY <2>1, AppendProperties
    <3> QED
      BY <1>2, <2>3, <3>1 DEF NobodyStranded, WriterWaits
  <2> QED
    BY <2>4, <2>5, <2>6
<1> QED
  BY <1>1, <1>2

LEMMA ReleaseReadKeeps ==
  ASSUME LockInv, NEW c \in Lockers, ReleaseRead(c)
  PROVE  LockInv'
<1> USE DEF LockInv, ReleaseRead
<1>1. /\ c \in reading /\ writing = {} /\ ~writer
      /\ IsFiniteSet(reading \ {c})
      /\ readers - 1 = Cardinality(reading \ {c})
      /\ readers - 1 \in Nat
  <2>1. c \in reading /\ writing = {} /\ ~writer
    BY DEF Counters, Exclusion
  <2>2. IsFiniteSet(reading \ {c}) /\ Cardinality(reading \ {c}) = readers - 1
    BY <2>1, FS_RemoveElement DEF Counters
  <2>3. Cardinality(reading \ {c}) \in Nat
    BY <2>2, FS_CardinalityType
  <2> QED
    BY <2>1, <2>2, <2>3
<1>2. readers' = readers - 1 /\ reading' = reading \ {c} /\ readQueue' = readQueue
  OBVIOUS
<1>3. Range(readQueue') \cap reading' = {}
  BY <1>2 DEF OnePlace
<1>4. CASE readers - 1 = 0 /\ writeQueue # <<>>
  <2>1. /\ writeQueue' = Tail(writeQueue) /\ writer' = TRUE /\ writing' = {Head(writeQueue)}
    BY <1>4 DEF WakeWriter
  <2>2. Head(writeQueue) \in Lockers /\ Tail(writeQueue) \in Seq(Lockers) /\ IsInjective(Tail(writeQueue))
    BY <1>4, ShiftLine DEF LockTypeOK, OnePlace
  <2>3. reading' = {}
    BY <1>1, <1>2, <1>4, FS_EmptySet
  <2>4. LockTypeOK' /\ OnePlace'
    BY <1>1, <1>2, <1>3, <2>1, <2>2 DEF LockTypeOK, OnePlace
  <2>5. Counters'
    BY <1>1, <1>2, <2>1 DEF Counters
  <2>6. Exclusion' /\ NobodyStranded'
    BY <2>1, <2>3 DEF Exclusion, NobodyStranded
  <2> QED
    BY <2>4, <2>5, <2>6
<1>5. CASE ~(readers - 1 = 0 /\ writeQueue # <<>>)
  <2>1. UNCHANGED <<writer, writeQueue, writing>>
    BY <1>5 DEF WakeWriter
  <2>2. LockTypeOK' /\ OnePlace'
    BY <1>1, <1>2, <1>3, <2>1 DEF LockTypeOK, OnePlace
  <2>3. Counters' /\ Exclusion'
    BY <1>1, <1>2, <2>1 DEF Counters, Exclusion
  <2>4. writeQueue # <<>> => reading' # {}
    BY <1>1, <1>2, <1>5, FS_EmptySet
  <2>5. NobodyStranded'
    BY <1>1, <1>2, <2>1, <2>4 DEF NobodyStranded
  <2> QED
    BY <2>2, <2>3, <2>5
<1> QED
  BY <1>4, <1>5

LEMMA ReleaseWriteKeeps ==
  ASSUME LockInv, NEW c \in Lockers, ReleaseWrite(c)
  PROVE  LockInv'
<1> USE DEF LockInv, ReleaseWrite
<1>1. c \in writing /\ reading = {} /\ readers = 0
  BY FS_EmptySet DEF Exclusion, Counters
<1>2. CASE writeQueue # <<>> /\ NextWriter
  <2>1. Head(writeQueue) \in Lockers /\ Tail(writeQueue) \in Seq(Lockers) /\ IsInjective(Tail(writeQueue))
    BY <1>2, ShiftLine DEF LockTypeOK, OnePlace
  <2>2. LockTypeOK' /\ OnePlace'
    BY <1>2, <2>1 DEF LockTypeOK, OnePlace, NextWriter
  <2>3. Counters' /\ Exclusion' /\ NobodyStranded'
    BY <1>1, <1>2 DEF Counters, Exclusion, NobodyStranded, NextWriter
  <2> QED
    BY <2>2, <2>3
<1>3. CASE writeQueue = <<>> /\ AllReaders
  <2>1. /\ IsFiniteSet(Range(readQueue))
        /\ Cardinality(Range(readQueue)) = Len(readQueue)
        /\ Range(readQueue) \subseteq Lockers
        /\ Len(readQueue) \in Nat
    BY LineCardinality, LenProperties DEF LockTypeOK, OnePlace
  <2>2. reading' = Range(readQueue) /\ readers' = Len(readQueue) /\ readQueue' = <<>>
    BY <1>1, <1>3, <2>1 DEF AllReaders
  <2>3. LockTypeOK'
    BY <1>3, <2>1, <2>2 DEF LockTypeOK, AllReaders
  <2>4. OnePlace'
    BY <1>3, <2>2 DEF OnePlace, AllReaders, IsInjective, Range
  <2>5. Counters' /\ Exclusion' /\ NobodyStranded'
    BY <1>3, <2>1, <2>2 DEF Counters, Exclusion, NobodyStranded, AllReaders
  <2> QED
    BY <2>3, <2>4, <2>5
<1> QED
  BY <1>2, <1>3

LEMMA LockKeeps == LockInv /\ [LockNext]_lockVars => LockInv'
<1> SUFFICES ASSUME LockInv, [LockNext]_lockVars PROVE LockInv'
  OBVIOUS
<1>1. CASE UNCHANGED lockVars
  BY <1>1 DEF lockVars, LockInv, LockTypeOK, Counters, OnePlace, Exclusion, NobodyStranded
<1> QED
  BY <1>1, AcquireReadKeeps, AcquireWriteKeeps, ReleaseReadKeeps, ReleaseWriteKeeps DEF LockNext

-----------------------------------------------------------------------------
(* The mutex.                                                              *)

\* The inductive invariant.  release() does not ask who calls it, and passes the
\* lock on without looking at _locked: one has to know that the flag is right and
\* that the head of the line does not own the lock already.
MutexInv ==
  /\ Mx!TypeOK
  /\ \A o, p \in owners : o = p
  /\ IsInjective(queue) /\ Range(queue) \cap owners = {}
  /\ queue # <<>> => locked

LEMMA MutexStarts == Mx!Init => MutexInv
<1> SUFFICES ASSUME Mx!Init PROVE MutexInv
  OBVIOUS
<1>1. queue \in Seq(Clients)
  BY EmptySeq DEF Mx!Init
<1>2. IsInjective(<<>>) /\ Range(<<>>) = {}
  BY DEF IsInjective, Range
<1> QED
  BY <1>1, <1>2 DEF Mx!Init, MutexInv, Mx!TypeOK

LEMMA MutexAcquire == ASSUME MutexInv, NEW c \in Clients, Mx!Acquire(c) PROVE MutexInv'
<1>1. c \notin owners /\ c \notin Range(queue) /\ queue \in Seq(Clients) /\ IsInjective(queue)
  BY DEF Mx!Acquire, Mx!Range, Range, MutexInv, Mx!TypeOK
<1>2. CASE Mx!Lock(c)
  <2>1. queue = <<>> /\ owners = {} /\ owners' = {c} /\ locked' /\ queue' = queue
    BY <1>2 DEF Mx!Lock, MutexInv, Mx!TypeOK
  <2> QED
    BY <1>1, <2>1 DEF MutexInv, Mx!TypeOK, IsInjective, Range
<1>3. CASE Mx!Enqueue(c)
  <2>1. queue' = Append(queue, c) /\ locked /\ UNCHANGED <<locked, owners>>
    BY <1>3 DEF Mx!Enqueue
  <2>2. /\ queue' \in Seq(Clients) /\ IsInjective(queue')
        /\ Range(queue') = Range(queue) \cup {c}
    BY <1>1, <2>1, AppendProperties, RangeAppend, InjectiveAppend
  <2> QED
    BY <1>1, <2>1, <2>2 DEF MutexInv, Mx!TypeOK
<1> QED
  BY <1>2, <1>3 DEF Mx!Acquire

LEMMA MutexRelease == ASSUME MutexInv, NEW c \in Clients, Mx!Release(c) PROVE MutexInv'
<1>1. owners = {c} /\ locked = TRUE /\ queue \in Seq(Clients) /\ IsInjective(queue) /\ Range(queue) \cap owners = {}
  BY DEF Mx!Release, MutexInv, Mx!TypeOK
<1>2. CASE Mx!PassOn(c)
  <2>1. queue # <<>> /\ queue' = Tail(queue) /\ owners' = {Head(queue)} /\ locked' = locked
    BY <1>1, <1>2 DEF Mx!PassOn
  <2>2. /\ Head(queue) \in Clients /\ queue' \in Seq(Clients) /\ IsInjective(queue')
        /\ Range(queue') = Range(queue) \ {Head(queue)}
    BY <1>1, <2>1, ShiftLine
  <2> QED
    BY <1>1, <2>1, <2>2 DEF MutexInv, Mx!TypeOK
<1>3. CASE Mx!Unlock(c)
  <2>1. queue = <<>> /\ queue' = queue /\ owners' = {} /\ locked' = FALSE
    BY <1>1, <1>3 DEF Mx!Unlock
  <2> QED
    BY <1>1, <2>1 DEF MutexInv, Mx!TypeOK
<1> QED
  BY <1>2, <1>3 DEF Mx!Release

\* Whatever the order of the calls, one client has the lock at most, and nobody waits
\* for a free one.
LEMMA MutexKeeps == MutexInv /\ [Mx!Next]_(Mx!vars) => MutexInv'
<1> SUFFICES ASSUME MutexInv, [Mx!Next]_(Mx!vars) PROVE MutexInv'
  OBVIOUS
<1>1. CASE UNCHANGED Mx!vars
  BY <1>1 DEF Mx!vars, MutexInv, Mx!TypeOK
<1> QED
  BY <1>1, MutexAcquire, MutexRelease DEF Mx!Next

-----------------------------------------------------------------------------
(* Once, for every set of callers and however often the function is called *)
(* and the object reset.                                                   *)

OnceStates == {"running", "resolved", "rejected", "threw"}
Executions == [epoch : Nat, state : OnceStates]

\* The types, which the bounds of a run do not matter for.
OnceTypes ==
  /\ done \in BOOLEAN /\ promise \in Nat /\ epoch \in Nat
  /\ runs \in Seq(Executions)
  /\ awaits \in [OnceCallers -> Nat]
  /\ outcome \in [OnceCallers -> {"none", "returned", "threw"}]

\* No execution is of the future; and as long as none is remembered, each that was
\* started since the last reset threw, so that run() may start another.
Remembered ==
  /\ \A r \in On!RunIds : runs[r].epoch <= epoch
  /\ promise = 0 => \A r \in On!RunIds : runs[r].epoch = epoch => runs[r].state = "threw"

OnceInv == OnceTypes /\ Remembered /\ On!SharedRun

LEMMA OnceStarts == On!Init => OnceInv
<1> SUFFICES ASSUME On!Init PROVE OnceInv
  OBVIOUS
<1>1. runs = <<>> /\ On!RunIds = {}
  BY DEF On!Init, On!RunIds
<1>2. OnceTypes
  BY <1>1, EmptySeq DEF On!Init, OnceTypes
<1> QED
  BY <1>1, <1>2 DEF On!Init, OnceInv, Remembered, On!SharedRun, On!RunsOnce, On!ReturnsAfterCompletion

\* The executions after one more was started.
LEMMA RunAppended ==
  ASSUME OnceTypes, NEW state \in OnceStates, runs' = Append(runs, [epoch |-> epoch, state |-> state])
  PROVE  /\ runs' \in Seq(Executions)
         /\ On!RunIds' = On!RunIds \cup {Len(runs) + 1} /\ Len(runs) + 1 \notin On!RunIds
         /\ \A r \in On!RunIds : runs'[r] = runs[r]
         /\ runs'[Len(runs) + 1].epoch = epoch /\ runs'[Len(runs) + 1].state = state
<1> DEFINE added == [epoch |-> epoch, state |-> state]
<1>0. added.epoch = epoch /\ added.state = state
  OBVIOUS
<1>1. runs \in Seq(Executions) /\ [epoch |-> epoch, state |-> state] \in Executions
  BY DEF OnceTypes, Executions
<1> HIDE DEF Executions
<1>2. On!RunIds = 1 .. Len(runs) /\ Len(runs) \in Nat
  BY <1>1, LenProperties DEF On!RunIds
<1>3. /\ runs' \in Seq(Executions) /\ Len(runs') = Len(runs) + 1
      /\ \A r \in 1 .. Len(runs) : runs'[r] = runs[r]
      /\ runs'[Len(runs) + 1] = added
  BY <1>1, AppendProperties
<1>4. On!RunIds' = 1 .. Len(runs) + 1
  BY <1>2, <1>3, LenProperties DEF On!RunIds
<1> HIDE DEF added
<1> QED
  BY <1>0, <1>2, <1>3, <1>4

\* An execution that ends stays of the time it was started in.
LEMMA RunEnded ==
  ASSUME OnceTypes, NEW r \in On!RunIds, NEW state \in OnceStates, runs' = [runs EXCEPT ![r].state = state]
  PROVE  /\ runs' \in Seq(Executions) /\ On!RunIds' = On!RunIds
         /\ runs'[r].state = state
         /\ \A q \in On!RunIds : runs'[q].epoch = runs[q].epoch
         /\ \A q \in On!RunIds : q # r => runs'[q] = runs[q]
<1>1. runs \in Seq(Executions) /\ On!RunIds = 1..Len(runs) /\ Len(runs) \in Nat
  BY LenProperties DEF OnceTypes, On!RunIds
<1>2. runs[r] \in Executions
  BY <1>1, ElementOfSeq
<1> DEFINE ended == [runs[r] EXCEPT !.state = state]
<1>3. ended \in Executions /\ ended.state = state /\ ended.epoch = runs[r].epoch
  BY <1>2 DEF Executions
<1>4. runs' = [runs EXCEPT ![r] = ended]
  OBVIOUS
<1> HIDE DEF ended
<1>5. /\ runs' \in Seq(Executions) /\ Len(runs') = Len(runs)
      /\ \A q \in 1..Len(runs) : runs'[q] = IF q = r THEN ended ELSE runs[q]
  BY <1>1, <1>3, <1>4, ExceptSeq
<1>6. On!RunIds' = On!RunIds
  BY <1>1, <1>5, LenProperties DEF On!RunIds
<1> QED
  BY <1>1, <1>3, <1>5, <1>6

LEMMA EpochsAreNumbers ==
  ASSUME OnceTypes PROVE epoch \in Nat /\ \A r \in On!RunIds : runs[r].epoch \in Nat
<1>1. \A r \in On!RunIds : runs[r] \in Executions
  BY LenProperties, ElementOfSeq DEF OnceTypes, On!RunIds
<1> QED
  BY <1>1 DEF OnceTypes, Executions

LEMMA RunKeeps == ASSUME OnceInv, NEW c \in OnceCallers, On!Run(c) PROVE OnceInv'
<1> USE DEF OnceInv, On!SharedRun
<1>0. epoch \in Nat /\ \A r \in On!RunIds : runs[r].epoch \in Nat
  BY EpochsAreNumbers
<1>1. CASE On!AlreadyDone(c)
  BY <1>1 DEF On!AlreadyDone, OnceTypes, Remembered, On!RunsOnce, On!ReturnsAfterCompletion, On!RunIds
<1>2. CASE On!JoinRun(c)
  <2>1. OnceTypes'
    BY <1>2 DEF On!JoinRun, OnceTypes
  <2>2. UNCHANGED <<done, promise, runs, epoch>> /\ \A d \in OnceCallers : outcome'[d] = "returned" => outcome[d] = "returned"
    BY <1>2 DEF On!JoinRun, OnceTypes
  <2> QED
    BY <2>1, <2>2 DEF Remembered, On!RunsOnce, On!ReturnsAfterCompletion, On!RunIds
<1>3. CASE ~done /\ promise = 0 /\ On!StartRun(c)
  <2>1. runs' = Append(runs, [epoch |-> epoch, state |-> "running"]) /\ UNCHANGED <<done, outcome, epoch>>
        /\ promise' = Len(runs) + 1 /\ awaits' = [awaits EXCEPT ![c] = Len(runs) + 1] /\ Len(runs) \in Nat
    BY <1>3 DEF On!StartRun, OnceTypes
  <2>2. /\ runs' \in Seq(Executions)
        /\ On!RunIds' = On!RunIds \cup {Len(runs) + 1} /\ Len(runs) + 1 \notin On!RunIds
        /\ \A r \in On!RunIds : runs'[r] = runs[r]
        /\ runs'[Len(runs) + 1].epoch = epoch /\ runs'[Len(runs) + 1].state = "running"
    BY <2>1, RunAppended DEF OnceStates
  <2>3. OnceTypes'
    BY <2>1, <2>2 DEF OnceTypes
  <2>4. Remembered'
    <3>1. ASSUME NEW r \in On!RunIds' PROVE runs'[r].epoch <= epoch'
      <4>1. CASE r \in On!RunIds
        BY <2>1, <2>2, <4>1 DEF Remembered
      <4>2. CASE r = Len(runs) + 1
        BY <1>0, <2>1, <2>2, <4>2
      <4> QED
        BY <2>2, <4>1, <4>2
    <3>2. promise' # 0
      BY <2>1
    <3> QED
      BY <3>1, <3>2 DEF Remembered
  <2>5. On!RunsOnce'
    <3> SUFFICES ASSUME NEW r \in On!RunIds', NEW q \in On!RunIds', r # q, runs'[r].epoch = runs'[q].epoch
                 PROVE  "threw" \in {runs'[r].state, runs'[q].state}
      BY DEF On!RunsOnce
    <3>1. \A e \in On!RunIds : runs[e].epoch = epoch => runs[e].state = "threw"
      BY <1>3 DEF Remembered
    <3>2. CASE r \in On!RunIds /\ q \in On!RunIds
      BY <2>2, <3>2 DEF On!RunsOnce
    <3>3. CASE r \notin On!RunIds \/ q \notin On!RunIds
      BY <2>2, <3>1, <3>3
    <3> QED
      BY <3>2, <3>3
  <2>6. On!ReturnsAfterCompletion'
    BY <2>1, <2>2 DEF On!ReturnsAfterCompletion
  <2> QED
    BY <2>3, <2>4, <2>5, <2>6
<1>4. CASE ~done /\ promise = 0 /\ On!FunctionThrows(c)
  <2>1. runs' = Append(runs, [epoch |-> epoch, state |-> "threw"]) /\ UNCHANGED <<done, promise, awaits, epoch>>
        /\ outcome' = [outcome EXCEPT ![c] = "threw"]
    BY <1>4 DEF On!FunctionThrows
  <2>2. /\ runs' \in Seq(Executions)
        /\ On!RunIds' = On!RunIds \cup {Len(runs) + 1} /\ Len(runs) + 1 \notin On!RunIds
        /\ \A r \in On!RunIds : runs'[r] = runs[r]
        /\ runs'[Len(runs) + 1].epoch = epoch /\ runs'[Len(runs) + 1].state = "threw"
    BY <2>1, RunAppended DEF OnceStates
  <2>3. OnceTypes'
    BY <2>1, <2>2 DEF OnceTypes
  <2>4. Remembered'
    <3>1. ASSUME NEW r \in On!RunIds' PROVE runs'[r].epoch <= epoch'
      <4>1. CASE r \in On!RunIds
        BY <2>1, <2>2, <4>1 DEF Remembered
      <4>2. CASE r = Len(runs) + 1
        BY <1>0, <2>1, <2>2, <4>2
      <4> QED
        BY <2>2, <4>1, <4>2
    <3>2. \A r \in On!RunIds' : runs'[r].epoch = epoch' => runs'[r].state = "threw"
      BY <1>4, <2>1, <2>2 DEF Remembered
    <3> QED
      BY <3>1, <3>2 DEF Remembered
  <2>5. On!RunsOnce'
    <3> SUFFICES ASSUME NEW r \in On!RunIds', NEW q \in On!RunIds', r # q, runs'[r].epoch = runs'[q].epoch
                 PROVE  "threw" \in {runs'[r].state, runs'[q].state}
      BY DEF On!RunsOnce
    <3>1. CASE r \in On!RunIds /\ q \in On!RunIds
      BY <2>2, <3>1 DEF On!RunsOnce
    <3>2. CASE r \notin On!RunIds \/ q \notin On!RunIds
      BY <2>2, <3>2
    <3> QED
      BY <3>1, <3>2
  <2>6. On!ReturnsAfterCompletion'
    <3>1. \A d \in OnceCallers : outcome'[d] = "returned" => outcome[d] = "returned"
      BY <2>1 DEF OnceTypes
    <3> QED
      BY <2>1, <2>2, <3>1 DEF On!ReturnsAfterCompletion
  <2> QED
    BY <2>3, <2>4, <2>5, <2>6
<1> QED
  BY <1>1, <1>2, <1>3, <1>4 DEF On!Run

LEMMA RunEndKeeps ==
  ASSUME OnceInv, NEW r \in On!RunIds, On!RunResolves(r) \/ On!RunRejects(r)
  PROVE  OnceInv'
<1> USE DEF OnceInv, On!SharedRun
<1>1. runs[r].state = "running" /\ UNCHANGED <<promise, epoch>>
  BY DEF On!RunResolves, On!RunRejects
<1>2. PICK state \in {"resolved", "rejected"} :
        /\ runs' = [runs EXCEPT ![r].state = state]
        /\ done' \in BOOLEAN /\ (done' => done \/ state = "resolved")
        /\ On!Answer(r, IF state = "resolved" THEN "returned" ELSE "threw")
  <2>1. CASE On!RunResolves(r)
    BY <2>1 DEF On!RunResolves
  <2>2. CASE On!RunRejects(r)
    BY <2>2 DEF On!RunRejects, OnceTypes
  <2> QED
    BY <2>1, <2>2
<1>3. /\ runs' \in Seq(Executions) /\ On!RunIds' = On!RunIds
      /\ runs'[r].state = state
      /\ \A q \in On!RunIds : runs'[q].epoch = runs[q].epoch
      /\ \A q \in On!RunIds : q # r => runs'[q] = runs[q]
  BY <1>2, RunEnded DEF OnceStates
<1>4. OnceTypes'
  BY <1>1, <1>2, <1>3 DEF OnceTypes, On!Answer
<1>5. Remembered'
  BY <1>1, <1>3 DEF Remembered
<1>6. On!RunsOnce'
  BY <1>1, <1>3 DEF On!RunsOnce
<1>7. On!ReturnsAfterCompletion'
  <2>1. \A d \in OnceCallers : outcome'[d] = "returned" => outcome[d] = "returned" \/ state = "resolved"
    BY <1>2 DEF On!Answer
  <2> QED
    BY <1>1, <1>2, <1>3, <2>1 DEF On!ReturnsAfterCompletion
<1> QED
  BY <1>4, <1>5, <1>6, <1>7

\* Once keeps its inductive invariant.
LEMMA OnceInvariance == On!Spec => []OnceInv
<1>1. OnceInv /\ [On!Next]_(On!vars) => OnceInv'
  <2> SUFFICES ASSUME OnceInv, [On!Next]_(On!vars) PROVE OnceInv'
    OBVIOUS
  <2>1. CASE On!Reset
    <3>0. OnceTypes'
      <4>1. OnceTypes /\ UNCHANGED <<runs, awaits, outcome>> /\ done' = FALSE /\ promise' = 0 /\ epoch' = epoch + 1
        BY <2>1 DEF On!Reset, OnceInv
      <4>2. done' \in BOOLEAN
        BY <4>1
      <4>3. epoch' \in Nat /\ promise' \in Nat
        BY <4>1 DEF OnceTypes
      <4> QED
        BY <4>1, <4>2, <4>3 DEF OnceTypes
    <3>1. On!SharedRun'
      BY <2>1 DEF On!Reset, OnceInv, On!SharedRun, On!RunsOnce, On!ReturnsAfterCompletion, On!RunIds
    <3>2. \A r \in On!RunIds : runs[r].epoch \in Nat /\ runs[r].epoch < epoch + 1
      BY EpochsAreNumbers DEF OnceInv, OnceTypes, Remembered
    <3> QED
      BY <2>1, <3>0, <3>1, <3>2, EpochsAreNumbers DEF On!Reset, OnceInv, Remembered, On!RunIds
  <2>2. CASE UNCHANGED On!vars
    BY <2>2 DEF On!vars, OnceInv, OnceTypes, Remembered, On!SharedRun, On!RunsOnce, On!ReturnsAfterCompletion, On!RunIds
  <2>3. ASSUME NEW c \in OnceCallers, On!Run(c) PROVE OnceInv'
    BY <2>3, RunKeeps
  <2>4. ASSUME NEW r \in On!RunIds, On!RunResolves(r) \/ On!RunRejects(r) PROVE OnceInv'
    BY <2>4, RunEndKeeps
  <2> QED
    BY <2>1, <2>2, <2>3, <2>4 DEF On!Next
<1> QED
  BY <1>1, OnceStarts, PTL DEF On!Spec

\* The function is called once between two resets unless it threw at once, and nobody
\* returns from run() before an execution has completed, whatever resets come between.
THEOREM SharedRunHolds == On!Spec => []On!SharedRun
<1>1. OnceInv => On!SharedRun
  BY DEF OnceInv
<1> QED
  BY <1>1, OnceInvariance, PTL

\* The bounds, and that whoever awaits an execution awaits one that runs: what run()
\* hands out is, as long as the object is not done, an execution that runs or has failed.
OnceAwaited ==
  /\ epoch <= MaxResets
  /\ promise # 0 => promise \in On!RunIds /\ (~done => runs[promise].state \in {"running", "rejected"})
  /\ \A c \in OnceCallers : awaits[c] # 0 => awaits[c] \in On!RunIds /\ runs[awaits[c]].state = "running"

LEMMA RunAwaited == ASSUME OnceInv, OnceAwaited, NEW c \in OnceCallers, On!Run(c) PROVE OnceAwaited'
<1>1. awaits \in [OnceCallers -> Nat] /\ promise \in Nat /\ OnceTypes /\ Len(runs) \in Nat
  BY LenProperties DEF OnceInv, OnceTypes
<1>2. CASE On!AlreadyDone(c)
  BY <1>2 DEF On!AlreadyDone, OnceAwaited, On!RunIds
<1>3. CASE On!JoinRun(c)
  <2>1. promise \in On!RunIds /\ UNCHANGED <<done, promise, runs, epoch>> /\ On!RunIds' = On!RunIds
    BY <1>1, <1>3 DEF On!JoinRun, OnceAwaited, On!RunIds
  <2>2. \A d \in OnceCallers :
          awaits'[d] = awaits[d] \/ (awaits'[d] = promise /\ runs[promise].state = "running")
    BY <1>1, <1>3 DEF On!JoinRun, OnceAwaited
  <2> QED
    BY <2>1, <2>2 DEF OnceAwaited
<1>4. CASE ~done /\ promise = 0 /\ On!StartRun(c)
  <2>1. /\ runs' = Append(runs, [epoch |-> epoch, state |-> "running"]) /\ UNCHANGED <<done, outcome, epoch>>
        /\ promise' = Len(runs) + 1 /\ awaits' = [awaits EXCEPT ![c] = Len(runs) + 1]
    BY <1>4 DEF On!StartRun
  <2>2. /\ On!RunIds' = On!RunIds \cup {Len(runs) + 1}
        /\ \A r \in On!RunIds : runs'[r] = runs[r]
        /\ runs'[Len(runs) + 1].state = "running"
    BY <1>1, <2>1, RunAppended DEF OnceStates
  <2>3. \A d \in OnceCallers : awaits'[d] = awaits[d] \/ awaits'[d] = Len(runs) + 1
    BY <1>1, <2>1
  <2>4. promise' # 0 /\ promise' \in On!RunIds' /\ runs'[promise'].state = "running"
    BY <1>1, <2>1, <2>2
  <2>5. ASSUME NEW d \in OnceCallers, awaits'[d] # 0
        PROVE  awaits'[d] \in On!RunIds' /\ runs'[awaits'[d]].state = "running"
    <3>1. CASE awaits'[d] = awaits[d]
      <4>1. awaits[d] \in On!RunIds /\ runs[awaits[d]].state = "running"
        BY <2>5, <3>1 DEF OnceAwaited
      <4> QED
        BY <2>2, <3>1, <4>1
    <3>2. CASE awaits'[d] = Len(runs) + 1
      BY <2>2, <3>2
    <3> QED
      BY <2>3, <3>1, <3>2
  <2>6. epoch' <= MaxResets
    BY <2>1 DEF OnceAwaited
  <2> QED
    BY <2>4, <2>5, <2>6 DEF OnceAwaited
<1>5. CASE ~done /\ promise = 0 /\ On!FunctionThrows(c)
  <2>1. runs' = Append(runs, [epoch |-> epoch, state |-> "threw"]) /\ UNCHANGED <<done, promise, awaits, epoch>>
    BY <1>5 DEF On!FunctionThrows
  <2>2. On!RunIds' = On!RunIds \cup {Len(runs) + 1} /\ \A r \in On!RunIds : runs'[r] = runs[r]
    BY <1>1, <2>1, RunAppended DEF OnceStates
  <2> QED
    BY <1>5, <2>1, <2>2 DEF OnceAwaited
<1> QED
  BY <1>2, <1>3, <1>4, <1>5 DEF On!Run

LEMMA RunEndAwaited ==
  ASSUME OnceInv, OnceAwaited, NEW r \in On!RunIds, On!RunResolves(r) \/ On!RunRejects(r)
  PROVE  OnceAwaited'
<1>1. UNCHANGED <<promise, epoch>> /\ OnceTypes
  BY DEF On!RunResolves, On!RunRejects, OnceInv
<1>2. PICK state \in {"resolved", "rejected"} :
        /\ runs' = [runs EXCEPT ![r].state = state]
        /\ ~done' => ~done /\ state = "rejected"
        /\ \A c \in OnceCallers : awaits'[c] # 0 => awaits'[c] = awaits[c] /\ awaits[c] # r
  BY DEF On!RunResolves, On!RunRejects, On!Answer
<1>3. /\ On!RunIds' = On!RunIds /\ runs'[r].state = state
      /\ \A q \in On!RunIds : q # r => runs'[q] = runs[q]
  BY <1>1, <1>2, RunEnded DEF OnceStates
<1> QED
  BY <1>1, <1>2, <1>3 DEF OnceAwaited

\* The types hold for every bound: an execution that a caller awaits is one that runs.
LEMMA OnceTypesHold == ASSUME MaxResets \in Nat PROVE On!Spec => []On!TypeOK
<1>1. On!Init => OnceAwaited
  BY DEF On!Init, OnceAwaited
<1>2. OnceInv /\ OnceAwaited /\ [On!Next]_(On!vars) => OnceAwaited'
  <2> SUFFICES ASSUME OnceInv, OnceAwaited, [On!Next]_(On!vars) PROVE OnceAwaited'
    OBVIOUS
  <2>1. CASE On!Reset
    BY <2>1 DEF On!Reset, OnceInv, OnceTypes, OnceAwaited, On!RunIds
  <2>2. CASE UNCHANGED On!vars
    BY <2>2 DEF On!vars, OnceAwaited, On!RunIds
  <2>3. ASSUME NEW c \in OnceCallers, On!Run(c) PROVE OnceAwaited'
    BY <2>3, RunAwaited
  <2>4. ASSUME NEW r \in On!RunIds, On!RunResolves(r) \/ On!RunRejects(r) PROVE OnceAwaited'
    BY <2>4, RunEndAwaited
  <2> QED
    BY <2>1, <2>2, <2>3, <2>4 DEF On!Next
<1>3. OnceInv /\ OnceAwaited => On!TypeOK
  <2> SUFFICES ASSUME OnceInv, OnceAwaited PROVE On!TypeOK
    OBVIOUS
  <2>1. On!RunIds = 1 .. Len(runs) /\ Len(runs) \in Nat /\ OnceTypes
    BY LenProperties DEF OnceInv, OnceTypes, On!RunIds
  <2> DEFINE Bounded == [epoch : 0..MaxResets, state : OnceStates]
  <2>2. runs \in Seq(Bounded)
    <3>1. \A r \in 1 .. Len(runs) : runs[r] \in Executions /\ runs[r].epoch <= MaxResets
      <4> SUFFICES ASSUME NEW r \in 1 .. Len(runs) PROVE runs[r] \in Executions /\ runs[r].epoch <= MaxResets
        OBVIOUS
      <4>1. runs[r] \in Executions
        BY <2>1, ElementOfSeq DEF OnceTypes
      <4>2. runs[r].epoch <= epoch /\ epoch <= MaxResets /\ epoch \in Nat /\ runs[r].epoch \in Nat
        BY <2>1, <4>1 DEF OnceInv, OnceTypes, Remembered, OnceAwaited, Executions
      <4> QED
        BY <4>1, <4>2
    <3>2. \A r \in 1 .. Len(runs) : runs[r] \in Bounded
      BY <3>1 DEF Executions
    <3>3. runs \in [1 .. Len(runs) -> Bounded]
      BY <2>1, <3>2, LenProperties DEF OnceTypes
    <3> HIDE DEF Bounded
    <3> QED
      BY <2>1, <3>3, SeqDef
  <2>3. awaits \in [OnceCallers -> {r \in 0..Len(runs) : r = 0 \/ runs[r].state = "running"}]
    BY <2>1 DEF OnceTypes, OnceAwaited
  <2>4. promise \in 0..Len(runs) /\ epoch \in 0..MaxResets
    BY <2>1 DEF OnceTypes, OnceAwaited
  <2> QED
    BY <2>1, <2>2, <2>3, <2>4 DEF OnceTypes, On!TypeOK, OnceStates
<1> QED
  BY <1>1, <1>2, <1>3, OnceInvariance, PTL DEF On!Spec

-----------------------------------------------------------------------------
(* ConcurrentMap, for every set of keys and callers, however many          *)
(* computations and deletions there are.                                   *)

Computations == [key : Keys, state : {"running", "resolved", "rejected"}, age : Nat]

\* The types, which the bounds of a run do not matter for.
MapTypes ==
  /\ loads \in Seq(Computations)
  /\ store \in [Keys -> {Nothing, Given} \cup Nat]
  /\ loading \in [Keys -> {0} \cup Cm!LoadIds]
  /\ age \in [Keys -> Nat]

\* No computation is of the future; and while one is in flight that no deletion has
\* come after, its key has a marker or a value, so that nobody starts another: who
\* takes its marker away, an older one, leaves a value.
Covered ==
  /\ \A l \in Cm!LoadIds : loads[l].age <= age[loads[l].key]
  /\ \A k \in Keys : \A l \in Cm!InFlight(k) :
       loads[l].age = age[k] => loading[k] # 0 \/ store[k] # Nothing

MapInv == MapTypes /\ Covered /\ Cm!SingleFlight

LEMMA MapStarts == Cm!Init => MapInv
<1> SUFFICES ASSUME Cm!Init PROVE MapInv
  OBVIOUS
<1>1. loads = <<>> /\ Cm!LoadIds = {}
  BY DEF Cm!Init, Cm!LoadIds
<1>2. MapTypes
  BY <1>1, EmptySeq DEF Cm!Init, MapTypes
<1> QED
  BY <1>1, <1>2 DEF Cm!Init, MapInv, Covered, Cm!SingleFlight, Cm!NoDuplicateBetweenDeletions, Cm!MarkersAreLive, Cm!InFlight

\* What is known of the computations, each by itself.
LEMMA LoadFields ==
  ASSUME MapTypes
  PROVE  /\ Cm!LoadIds = 1 .. Len(loads) /\ Len(loads) \in Nat
         /\ \A l \in Cm!LoadIds : loads[l] \in Computations /\ loads[l].key \in Keys /\ loads[l].age \in Nat
<1>1. Cm!LoadIds = 1 .. Len(loads) /\ Len(loads) \in Nat
  BY LenProperties DEF MapTypes, Cm!LoadIds
<1>2. \A l \in Cm!LoadIds : loads[l] \in Computations
  BY <1>1, ElementOfSeq DEF MapTypes
<1> QED
  BY <1>1, <1>2 DEF Computations

LEMMA LoadKeeps ==
  ASSUME MapInv, NEW c \in LoadCallers, NEW k \in Keys, store[k] = Nothing, loading[k] = 0, Cm!Start(c, k)
  PROVE  MapInv'
<1> DEFINE new == Len(loads) + 1
           started == [key |-> k, state |-> "running", age |-> age[k]]
<1> USE DEF MapInv, Cm!SingleFlight
<1>1. started \in Computations /\ started.key = k /\ started.state = "running" /\ started.age = age[k]
  BY DEF MapTypes, Computations
<1>2. /\ loads' = Append(loads, started) /\ loading' = [loading EXCEPT ![k] = new]
      /\ UNCHANGED <<store, age>>
  BY DEF Cm!Start
<1> HIDE DEF started
<1>3. /\ loads' \in Seq(Computations) /\ Len(loads') = new
      /\ \A l \in 1 .. Len(loads) : loads'[l] = loads[l]
      /\ loads'[new] = started
  BY <1>1, <1>2, AppendProperties DEF MapTypes
<1>4. Cm!LoadIds' = Cm!LoadIds \cup {new} /\ new \notin Cm!LoadIds /\ new # 0 /\ 0 \notin Cm!LoadIds
  BY <1>3, LoadFields, LenProperties DEF Cm!LoadIds
<1>5. \A l \in Cm!LoadIds : loads'[l] = loads[l]
  BY <1>3, LoadFields
<1>6. age[k] \in Nat /\ \A l \in Keys : loading'[l] = IF l = k THEN new ELSE loading[l]
  BY <1>2 DEF MapTypes
<1>7. MapTypes'
  BY <1>2, <1>3, <1>4 DEF MapTypes
<1> HIDE DEF new
<1>8. Covered'
  <2>1. ASSUME NEW l \in Cm!LoadIds' PROVE loads'[l].age <= age'[loads'[l].key]
    <3>1. CASE l \in Cm!LoadIds
      BY <1>2, <1>5, <3>1 DEF Covered
    <3>2. CASE l = new
      BY <1>1, <1>2, <1>3, <1>6, <3>2
    <3> QED
      BY <1>4, <3>1, <3>2
  <2>2. ASSUME NEW j \in Keys, NEW l \in Cm!LoadIds', loads'[l].key = j, loads'[l].state = "running",
               loads'[l].age = age'[j]
        PROVE  loading'[j] # 0 \/ store'[j] # Nothing
    <3>1. CASE l \in Cm!LoadIds
      <4>1. loads[l].key = j /\ loads[l].state = "running" /\ loads[l].age = age[j]
        BY <1>2, <1>5, <2>2, <3>1
      <4>2. loading[j] # 0 \/ store[j] # Nothing
        BY <3>1, <4>1 DEF Covered, Cm!InFlight
      <4>3. store'[j] = store[j] /\ (loading[j] # 0 => loading'[j] # 0)
        BY <1>2, <1>4, <1>6
      <4> QED
        BY <4>2, <4>3
    <3>2. CASE l = new
      BY <1>1, <1>3, <1>4, <1>6, <2>2, <3>2
    <3> QED
      BY <1>4, <3>1, <3>2
  <2> QED
    BY <2>1, <2>2 DEF Covered, Cm!InFlight
<1>9. Cm!NoDuplicateBetweenDeletions'
  <2> SUFFICES ASSUME NEW j \in Keys, NEW l \in Cm!LoadIds', NEW m \in Cm!LoadIds',
                      loads'[l].key = j, loads'[l].state = "running",
                      loads'[m].key = j, loads'[m].state = "running", loads'[l].age = loads'[m].age
               PROVE  l = m
    BY DEF Cm!NoDuplicateBetweenDeletions, Cm!InFlight
  <2>1. CASE l \in Cm!LoadIds /\ m \in Cm!LoadIds
    BY <1>5, <2>1 DEF Cm!NoDuplicateBetweenDeletions, Cm!InFlight
  <2>2. \A q \in Cm!LoadIds : ~(loads[q].key = k /\ loads[q].state = "running" /\ loads[q].age = age[k])
    BY DEF Covered, Cm!InFlight
  <2>3. CASE l = new \/ m = new
    BY <1>1, <1>3, <1>4, <1>5, <2>2, <2>3
  <2> QED
    BY <1>4, <2>1, <2>3
<1>10. Cm!MarkersAreLive'
  BY <1>1, <1>3, <1>4, <1>5, <1>6 DEF Cm!MarkersAreLive, MapTypes
<1> QED
  BY <1>7, <1>8, <1>9, <1>10

LEMMA LoadEndKeeps ==
  ASSUME MapInv, Cm!ValuesDistinct, NEW l \in Cm!LoadIds, Cm!Resolve(l) \/ Cm!Reject(l)
  PROVE  MapInv'
<1> USE DEF MapInv, Cm!SingleFlight
<1>1. PICK state \in {"resolved", "rejected"} :
        /\ loads' = [loads EXCEPT ![l].state = state]
        /\ state = "rejected" => UNCHANGED <<store, loading>>
        /\ state = "resolved" => /\ store' = [store EXCEPT ![loads[l].key] = l]
                                 /\ loading' = [loading EXCEPT ![loads[l].key] = 0]
  BY DEF Cm!Resolve, Cm!Reject
<1>2. loads[l].state = "running" /\ UNCHANGED age
  BY DEF Cm!Resolve, Cm!Reject
<1>3. loads[l] \in Computations
  BY LoadFields
<1> DEFINE ended == [loads[l] EXCEPT !.state = state]
<1>4. /\ ended \in Computations /\ ended.state = state
      /\ ended.key = loads[l].key /\ ended.age = loads[l].age
  BY <1>3 DEF Computations
<1>5. loads' = [loads EXCEPT ![l] = ended]
  BY <1>1
<1> HIDE DEF ended
<1>6. /\ loads' \in Seq(Computations) /\ Len(loads') = Len(loads)
      /\ \A q \in 1 .. Len(loads) : loads'[q] = IF q = l THEN ended ELSE loads[q]
  BY <1>4, <1>5, LoadFields, ExceptSeq DEF MapTypes
<1>7. Cm!LoadIds' = Cm!LoadIds /\ \A q \in Cm!LoadIds : loads'[q] = IF q = l THEN ended ELSE loads[q]
  BY <1>6, LoadFields, LenProperties DEF Cm!LoadIds
<1>8. l \in Nat /\ l # Nothing /\ loads[l].key \in Keys
  BY LoadFields DEF Cm!ValuesDistinct
<1>9. ASSUME NEW k \in Keys
      PROVE  /\ loading'[k] # 0 => loading'[k] = loading[k]
             /\ loading'[k] # 0 => ~(state = "resolved" /\ k = loads[l].key)
             /\ loading'[k] = loading[k] \/ store'[k] # Nothing
             /\ store'[k] = store[k] \/ store'[k] # Nothing
  <2>1. CASE state = "rejected"
    BY <1>1, <2>1
  <2>2. CASE state = "resolved"
    BY <1>1, <1>8, <2>2 DEF MapTypes
  <2> QED
    BY <2>1, <2>2
<1>10. MapTypes'
  BY <1>1, <1>2, <1>6, <1>7, <1>8 DEF MapTypes
<1>11. Covered'
  <2>1. \A q \in Cm!LoadIds' : loads'[q].age <= age'[loads'[q].key]
    BY <1>2, <1>4, <1>7 DEF Covered
  <2>2. ASSUME NEW j \in Keys, NEW q \in Cm!LoadIds', loads'[q].key = j, loads'[q].state = "running",
               loads'[q].age = age'[j]
        PROVE  loading'[j] # 0 \/ store'[j] # Nothing
    <3>1. q # l /\ loads'[q] = loads[q]
      BY <1>4, <1>7, <2>2
    <3>2. loading[j] # 0 \/ store[j] # Nothing
      BY <1>2, <1>7, <2>2, <3>1 DEF Covered, Cm!InFlight
    <3>3. (loading'[j] = loading[j] \/ store'[j] # Nothing) /\ (store'[j] = store[j] \/ store'[j] # Nothing)
      BY <1>9
    <3> QED
      BY <3>2, <3>3
  <2> QED
    BY <2>1, <2>2 DEF Covered, Cm!InFlight
<1>12. Cm!NoDuplicateBetweenDeletions'
  BY <1>4, <1>7 DEF Cm!NoDuplicateBetweenDeletions, Cm!InFlight
<1>13. Cm!MarkersAreLive'
  <2> SUFFICES ASSUME NEW k \in Keys, loading'[k] # 0
               PROVE  loads'[loading'[k]].key = k /\ loads'[loading'[k]].state # "resolved"
    BY DEF Cm!MarkersAreLive
  <2>1. loading'[k] = loading[k] /\ ~(state = "resolved" /\ k = loads[l].key)
    BY <1>9
  <2>2. loading[k] \in Cm!LoadIds /\ loads[loading[k]].key = k /\ loads[loading[k]].state # "resolved"
    BY <2>1 DEF Cm!MarkersAreLive, MapTypes
  <2>3. CASE loading[k] = l
    BY <1>4, <1>7, <2>1, <2>2, <2>3
  <2>4. CASE loading[k] # l
    BY <1>7, <2>1, <2>2, <2>4
  <2> QED
    BY <2>3, <2>4
<1> QED
  BY <1>10, <1>11, <1>12, <1>13

LEMMA ForgetKeeps == ASSUME MapInv, NEW ks \in SUBSET Keys, Cm!Forget(ks) PROVE MapInv'
<1> USE DEF MapInv, Cm!SingleFlight
<1>1. /\ UNCHANGED loads /\ Cm!LoadIds' = Cm!LoadIds
      /\ \A k \in Keys : /\ k \in ks => loading'[k] = 0 /\ age'[k] = age[k] + 1
                         /\ k \notin ks => loading'[k] = loading[k] /\ age'[k] = age[k] /\ store'[k] = store[k]
  BY DEF Cm!Forget, Cm!LoadIds
<1>2. \A k \in Keys : age[k] \in Nat
  BY DEF MapTypes
<1>3. MapTypes'
  BY <1>1, <1>2 DEF Cm!Forget, MapTypes
<1>4. Covered'
  <2>1. ASSUME NEW l \in Cm!LoadIds PROVE loads[l].age <= age'[loads[l].key]
    BY <1>1, <1>2, LoadFields DEF Covered
  <2>2. ASSUME NEW j \in Keys, NEW l \in Cm!LoadIds, loads[l].key = j, loads[l].state = "running",
               loads[l].age = age'[j]
        PROVE  loading'[j] # 0 \/ store'[j] # Nothing
    <3>1. loads[l].age <= age[j] /\ loads[l].age \in Nat
      BY <2>2, LoadFields DEF Covered
    <3>2. j \notin ks
      BY <1>1, <1>2, <2>2, <3>1
    <3> QED
      BY <1>1, <2>2, <3>2 DEF Covered, Cm!InFlight
  <2> QED
    BY <1>1, <2>1, <2>2 DEF Covered, Cm!InFlight
<1>5. Cm!NoDuplicateBetweenDeletions'
  BY <1>1 DEF Cm!NoDuplicateBetweenDeletions, Cm!InFlight
<1>6. Cm!MarkersAreLive'
  BY <1>1 DEF Cm!MarkersAreLive
<1> QED
  BY <1>3, <1>4, <1>5, <1>6

LEMMA SetKeeps == ASSUME MapInv, Cm!ValuesDistinct, NEW k \in Keys, Cm!Set(k) PROVE MapInv'
<1> USE DEF MapInv, Cm!SingleFlight
<1>1. UNCHANGED <<loading, loads, age>> /\ Cm!LoadIds' = Cm!LoadIds
  BY DEF Cm!Set, Cm!LoadIds
<1>2. \A j \in Keys : store'[j] = store[j] \/ store'[j] # Nothing
  BY DEF Cm!Set, MapTypes, Cm!ValuesDistinct
<1>3. MapTypes'
  BY <1>1 DEF Cm!Set, MapTypes
<1> QED
  BY <1>1, <1>2, <1>3 DEF Covered, Cm!NoDuplicateBetweenDeletions, Cm!MarkersAreLive, Cm!InFlight

\* The map keeps its inductive invariant.
LEMMA MapInvariance == ASSUME Cm!ValuesDistinct PROVE Cm!Spec => []MapInv
<1>1. MapInv /\ [Cm!Next]_(Cm!vars) => MapInv'
  <2> SUFFICES ASSUME MapInv, [Cm!Next]_(Cm!vars) PROVE MapInv'
    OBVIOUS
  <2>1. ASSUME UNCHANGED <<store, loading, loads, age>> PROVE MapInv'
    BY <2>1 DEF MapInv, MapTypes, Covered, Cm!SingleFlight, Cm!NoDuplicateBetweenDeletions, Cm!MarkersAreLive, Cm!InFlight, Cm!LoadIds
  <2>2. ASSUME NEW c \in LoadCallers, NEW k \in Keys, Cm!Load(c, k) PROVE MapInv'
    BY <2>1, <2>2, LoadKeeps DEF Cm!Load, Cm!Hit, Cm!Join, Cm!vars
  <2>3. ASSUME NEW l \in Cm!LoadIds, Cm!Resolve(l) \/ Cm!Reject(l) PROVE MapInv'
    BY <2>3, LoadEndKeeps
  <2>4. ASSUME NEW k \in Keys, Cm!Set(k) PROVE MapInv'
    BY <2>4, SetKeeps
  <2>5. ASSUME NEW k \in Keys, Cm!Delete(k) PROVE MapInv'
    BY <2>5, ForgetKeeps DEF Cm!Delete
  <2>6. CASE Cm!Clear
    BY <2>6, ForgetKeeps DEF Cm!Clear
  <2>7. CASE UNCHANGED Cm!vars
    BY <2>1, <2>7 DEF Cm!vars
  <2> QED
    BY <2>2, <2>3, <2>4, <2>5, <2>6, <2>7 DEF Cm!Next
<1> QED
  BY <1>1, MapStarts, PTL DEF Cm!Spec

\* load() computes a key once at a time, unless a deletion comes between, and what it
\* remembers under a key is of that key and has not delivered yet.
THEOREM SingleFlightHolds == ASSUME Cm!ValuesDistinct PROVE Cm!Spec => []Cm!SingleFlight
<1>1. MapInv => Cm!SingleFlight
  BY DEF MapInv
<1> QED
  BY <1>1, MapInvariance, PTL

\* The bounds, and that whoever awaits a computation awaits one that runs; a stored value
\* was computed by one of the computations or given.
MapAwaited ==
  /\ \A k \in Keys : age[k] <= MaxDeletes /\ store[k] \in {Nothing, Given} \cup Cm!LoadIds
  /\ loadAwaits \in [LoadCallers -> Nat]
  /\ \A c \in LoadCallers : loadAwaits[c] # 0 => loadAwaits[c] \in Cm!LoadIds /\ loads[loadAwaits[c]].state = "running"

LEMMA LoadAwaited ==
  ASSUME MapInv, MapAwaited, NEW c \in LoadCallers, NEW k \in Keys, Cm!Load(c, k)
  PROVE  MapAwaited'
<1>1. MapTypes /\ Len(loads) \in Nat /\ Cm!LoadIds = 1 .. Len(loads)
  BY LoadFields DEF MapInv
<1>2. CASE Cm!Hit(c, k)
  BY <1>2 DEF Cm!Hit, Cm!vars, MapAwaited, Cm!LoadIds
<1>3. CASE Cm!Join(c, k)
  <2>1. loading[k] \in Cm!LoadIds /\ UNCHANGED <<store, loads, age>> /\ Cm!LoadIds' = Cm!LoadIds
    BY <1>1, <1>3 DEF Cm!Join, MapTypes, Cm!LoadIds
  <2>2. \A d \in LoadCallers :
          loadAwaits'[d] = loadAwaits[d] \/ loadAwaits'[d] = 0 \/ (loadAwaits'[d] = loading[k] /\ loads[loading[k]].state = "running")
    BY <1>3 DEF Cm!Join, MapAwaited
  <2>3. loadAwaits' \in [LoadCallers -> Nat]
    BY <1>1, <1>3, <2>1 DEF Cm!Join, MapAwaited
  <2> QED
    BY <2>1, <2>2, <2>3 DEF MapAwaited
<1>4. CASE Cm!Start(c, k)
  <2>1. /\ loads' = Append(loads, [key |-> k, state |-> "running", age |-> age[k]])
        /\ loadAwaits' = [loadAwaits EXCEPT ![c] = Len(loads) + 1] /\ UNCHANGED <<store, age>>
    BY <1>4 DEF Cm!Start
  <2> DEFINE started == [key |-> k, state |-> "running", age |-> age[k]]
  <2>2. started \in Computations /\ started.state = "running"
    BY <1>1 DEF MapTypes, Computations
  <2> HIDE DEF started
  <2>3. /\ loads' \in Seq(Computations) /\ Len(loads') = Len(loads) + 1
        /\ \A l \in 1 .. Len(loads) : loads'[l] = loads[l]
        /\ loads'[Len(loads) + 1] = started
    BY <1>1, <2>1, <2>2, AppendProperties DEF MapTypes, started
  <2>4. Cm!LoadIds' = Cm!LoadIds \cup {Len(loads) + 1} /\ \A l \in Cm!LoadIds : loads'[l] = loads[l]
    BY <1>1, <2>3, LenProperties DEF Cm!LoadIds
  <2>5. \A d \in LoadCallers : loadAwaits'[d] = loadAwaits[d] \/ loadAwaits'[d] = Len(loads) + 1
    BY <2>1 DEF MapAwaited
  <2>6. loadAwaits' \in [LoadCallers -> Nat]
    BY <1>1, <2>1 DEF MapAwaited
  <2> QED
    BY <2>1, <2>2, <2>3, <2>4, <2>5, <2>6 DEF MapAwaited
<1> QED
  BY <1>2, <1>3, <1>4 DEF Cm!Load

LEMMA LoadEndAwaited ==
  ASSUME MapInv, MapAwaited, NEW l \in Cm!LoadIds, Cm!Resolve(l) \/ Cm!Reject(l)
  PROVE  MapAwaited'
<1>1. MapTypes /\ Cm!LoadIds = 1 .. Len(loads) /\ Len(loads) \in Nat
  BY LoadFields DEF MapInv
<1>2. PICK state \in {"resolved", "rejected"} : loads' = [loads EXCEPT ![l].state = state]
  BY DEF Cm!Resolve, Cm!Reject
<1>3. Cm!LoadIds' = Cm!LoadIds /\ \A q \in Cm!LoadIds : q # l => loads'[q] = loads[q]
  BY <1>2 DEF Cm!LoadIds
<1>4. /\ loadAwaits' \in [LoadCallers -> Nat] /\ UNCHANGED age
      /\ \A c \in LoadCallers : loadAwaits'[c] # 0 => loadAwaits'[c] = loadAwaits[c] /\ loadAwaits[c] # l
  BY DEF Cm!Resolve, Cm!Reject, MapAwaited
<1>5. \A k \in Keys : store'[k] = store[k] \/ store'[k] = l
  BY <1>1 DEF Cm!Resolve, Cm!Reject, MapTypes
<1> QED
  BY <1>3, <1>4, <1>5 DEF MapAwaited

\* The types hold for every bound: a computation that a caller awaits is one in flight.
LEMMA MapTypesHold == ASSUME Cm!ValuesDistinct, MaxDeletes \in Nat PROVE Cm!Spec => []Cm!TypeOK
<1>1. Cm!Init => MapAwaited
  BY DEF Cm!Init, MapAwaited
<1>2. MapInv /\ MapAwaited /\ [Cm!Next]_(Cm!vars) => MapAwaited'
  <2> SUFFICES ASSUME MapInv, MapAwaited, [Cm!Next]_(Cm!vars) PROVE MapAwaited'
    OBVIOUS
  <2>1. ASSUME NEW ks \in SUBSET Keys, Cm!Forget(ks), \A k \in ks : age[k] < MaxDeletes PROVE MapAwaited'
    <3>1. UNCHANGED <<loads, loadAwaits>> /\ Cm!LoadIds' = Cm!LoadIds
      BY <2>1 DEF Cm!Forget, Cm!LoadIds
    <3>2. ASSUME NEW k \in Keys
          PROVE  age'[k] <= MaxDeletes /\ store'[k] \in {Nothing, Given} \cup Cm!LoadIds
      <4>1. age[k] \in Nat /\ age[k] <= MaxDeletes /\ store[k] \in {Nothing, Given} \cup Cm!LoadIds
        BY DEF MapInv, MapTypes, MapAwaited
      <4>2. /\ age'[k] = IF k \in ks THEN age[k] + 1 ELSE age[k]
            /\ store'[k] = IF k \in ks THEN Nothing ELSE store[k]
        BY <2>1 DEF Cm!Forget
      <4> QED
        BY <2>1, <4>1, <4>2
    <3> QED
      BY <3>1, <3>2 DEF MapAwaited
  <2>2. ASSUME NEW c \in LoadCallers, NEW k \in Keys, Cm!Load(c, k) PROVE MapAwaited'
    BY <2>2, LoadAwaited
  <2>3. ASSUME NEW l \in Cm!LoadIds, Cm!Resolve(l) \/ Cm!Reject(l) PROVE MapAwaited'
    BY <2>3, LoadEndAwaited
  <2>4. ASSUME NEW k \in Keys, Cm!Set(k) PROVE MapAwaited'
    BY <2>4 DEF Cm!Set, MapInv, MapTypes, MapAwaited, Cm!LoadIds
  <2>5. ASSUME NEW k \in Keys, Cm!Delete(k) PROVE MapAwaited'
    BY <2>1, <2>5 DEF Cm!Delete
  <2>6. CASE Cm!Clear
    BY <2>1, <2>6 DEF Cm!Clear
  <2>7. CASE UNCHANGED Cm!vars
    BY <2>7 DEF Cm!vars, MapAwaited, Cm!LoadIds
  <2> QED
    BY <2>2, <2>3, <2>4, <2>5, <2>6, <2>7 DEF Cm!Next
<1>3. MapInv /\ MapAwaited => Cm!TypeOK
  <2> SUFFICES ASSUME MapInv, MapAwaited PROVE Cm!TypeOK
    OBVIOUS
  <2>1. Cm!LoadIds = 1 .. Len(loads) /\ Len(loads) \in Nat /\ MapTypes
    BY LoadFields DEF MapInv
  <2> DEFINE Bounded == [key : Keys, state : {"running", "resolved", "rejected"}, age : 0..MaxDeletes]
  <2>2. loads \in Seq(Bounded)
    <3>1. \A l \in 1 .. Len(loads) : loads[l] \in Computations /\ loads[l].age <= MaxDeletes
      <4> SUFFICES ASSUME NEW l \in 1 .. Len(loads)
                   PROVE  loads[l] \in Computations /\ loads[l].age <= MaxDeletes
        OBVIOUS
      <4>1. loads[l] \in Computations /\ loads[l].key \in Keys /\ loads[l].age \in Nat
        BY <2>1, LoadFields
      <4>2. loads[l].age <= age[loads[l].key] /\ age[loads[l].key] <= MaxDeletes /\ age[loads[l].key] \in Nat
        BY <2>1, <4>1 DEF MapInv, MapTypes, Covered, MapAwaited
      <4> QED
        BY <4>1, <4>2
    <3>2. \A l \in 1 .. Len(loads) : loads[l] \in Bounded
      BY <3>1 DEF Computations
    <3>3. loads \in [1 .. Len(loads) -> Bounded]
      BY <2>1, <3>2, LenProperties DEF MapTypes
    <3> HIDE DEF Bounded
    <3> QED
      BY <2>1, <3>3, SeqDef
  <2>3. loadAwaits \in [LoadCallers -> {l \in 0..Len(loads) : l = 0 \/ loads[l].state = "running"}]
    BY <2>1 DEF MapAwaited
  <2>4. age \in [Keys -> 0..MaxDeletes] /\ loading \in [Keys -> 0..Len(loads)]
    BY <2>1 DEF MapTypes, MapAwaited
  <2>5. store \in [Keys -> {Nothing, Given} \cup 1..Len(loads)]
    BY <2>1 DEF MapTypes, MapAwaited
  <2> QED
    BY <2>2, <2>3, <2>4, <2>5 DEF Cm!TypeOK
<1> QED
  BY <1>1, <1>2, <1>3, MapInvariance, PTL DEF Cm!Spec

-----------------------------------------------------------------------------
(* The composition: a step is one of a class under test or changes nothing *)
(* of it.                                                                  *)

LEMMA LockSteps == [SuiteNext]_suiteVars => [LockNext]_lockVars
BY DEF SuiteNext, suiteVars, LockStep, SemaphoreStep, BatchStep, MutexStep, OnceStep, MapStep, lockVars

LEMMA BatchSteps == [SuiteNext]_suiteVars => [BatchNext]_allVars
BY DEF SuiteNext, suiteVars, LockStep, SemaphoreStep, BatchStep, MutexStep, OnceStep, MapStep, allVars

LEMMA SemaphoreSteps == [SuiteNext]_suiteVars => [Sm!Next]_semaphore
BY DEF SuiteNext, suiteVars, LockStep, SemaphoreStep, BatchStep, MutexStep, OnceStep, MapStep

LEMMA MutexSteps == [SuiteNext]_suiteVars => [Mx!Next]_(Mx!vars)
BY DEF SuiteNext, suiteVars, LockStep, SemaphoreStep, BatchStep, MutexStep, OnceStep, MapStep, mutexVars, Mx!vars

LEMMA OnceSteps == [SuiteNext]_suiteVars => [On!Next]_(On!vars)
BY DEF SuiteNext, suiteVars, LockStep, SemaphoreStep, BatchStep, MutexStep, OnceStep, MapStep, onceVars, On!vars

LEMMA MapSteps == [SuiteNext]_suiteVars => [Cm!Next]_(Cm!vars)
BY DEF SuiteNext, suiteVars, LockStep, SemaphoreStep, BatchStep, MutexStep, OnceStep, MapStep, mapVars, Cm!vars

\* The semaphore that is tested alone has the steps of the one that runAll() uses.
LEMMA SameSemaphore ==
  ASSUME NEW s, NEW c PROVE Sm!AcquireIn(s, c) = AcquireIn(s, c) /\ Sm!ReleaseIn(s, c) = ReleaseIn(s, c)
BY DEF Sm!AcquireIn, AcquireIn, Sm!ReleaseIn, ReleaseIn

LEMMA SemaphoreAloneKeeps ==
  /\ Sm!Init => SemOK(semaphore)
  /\ SemOK(semaphore) /\ [Sm!Next]_semaphore => SemOK(semaphore)'
<1>1. Sm!Init => SemOK(semaphore)
  BY EmptyOK DEF Sm!Init, Sm!EmptySemaphore, EmptySemaphore
<1>2. ASSUME SemOK(semaphore), NEW c \in Clients, Sm!Acquire(c) \/ Sm!Release(c)
      PROVE  SemOK(semaphore')
  <2>1. CASE Sm!Acquire(c)
    <3>1. c \notin semaphore.holders \cup Range(semaphore.queue) /\ semaphore' = AcquireIn(semaphore, c)
      BY <2>1, SameSemaphore DEF Sm!Acquire, Sm!Range, Range
    <3> QED
      BY <1>2, <3>1, AcquireKeeps DEF Using
  <2>2. CASE Sm!Release(c)
    <3>1. c \in semaphore.holders /\ semaphore' = ReleaseIn(semaphore, c)
      BY <2>2, SameSemaphore DEF Sm!Release
    <3> QED
      BY <1>2, <3>1, ReleaseKeeps
  <2> QED
    BY <1>2, <2>1, <2>2
<1> QED
  BY <1>1, <1>2 DEF Sm!Next

\* The instances of the abstract limiter count as FiniteSets does.
LEMMA SameInLimiters ==
  ASSUME NEW S
  PROVE  /\ Sm!Limiter!Cardinality(S) = Cardinality(S) /\ Sm!Limiter!Range(S) = Range(S)
         /\ Mx!Limiter!Cardinality(S) = Cardinality(S) /\ Mx!Limiter!Range(S) = Range(S)
<1>1. Sm!Limiter!Cardinality(S) = Cardinality(S) /\ Mx!Limiter!Cardinality(S) = Cardinality(S)
  BY DEF Sm!Limiter!Cardinality, Mx!Limiter!Cardinality, Cardinality
<1>2. Sm!Limiter!Range(S) = Range(S) /\ Mx!Limiter!Range(S) = Range(S)
  BY DEF Sm!Limiter!Range, Mx!Limiter!Range, Range
<1> QED
  BY <1>1, <1>2

\* A step of the semaphore is one of a limiter.
LEMMA SemaphoreLimits ==
  SemOK(semaphore) /\ [Sm!Next]_semaphore => [Sm!Limiter!Next]_(Sm!Limiter!vars)
<1> SUFFICES ASSUME SemOK(semaphore), [Sm!Next]_semaphore PROVE [Sm!Limiter!Next]_(Sm!Limiter!vars)
  OBVIOUS
<1>1. ASSUME NEW c \in Clients, Sm!Acquire(c)
      PROVE  Sm!Limiter!Enter(c) \/ Sm!Limiter!Queue(c)
  <2>1. /\ semaphore.current = Cardinality(semaphore.holders) /\ c \notin semaphore.holders \cup Range(semaphore.queue)
        /\ semaphore' = AcquireIn(semaphore, c)
    BY <1>1, SameSemaphore DEF SemOK, Sm!Acquire, Sm!Range, Range
  <2> QED
    BY <2>1, AcquireEffect, SameInLimiters DEF Sm!Limiter!Enter, Sm!Limiter!Queue
<1>2. ASSUME NEW c \in Clients, Sm!Release(c)
      PROVE  Sm!Limiter!Leave(c) \/ Sm!Limiter!HandOver(c)
  <2>0. c \in semaphore.holders /\ semaphore' = ReleaseIn(semaphore, c)
    BY <1>2, SameSemaphore DEF Sm!Release
  <2>1. CASE semaphore.queue = <<>>
    BY <2>0, <2>1, ReleaseEffect DEF Sm!Limiter!Leave
  <2>2. CASE semaphore.queue # <<>>
    <3>1. semaphore' = [current |-> semaphore.current, queue |-> Tail(semaphore.queue),
                  holders |-> (semaphore.holders \ {c}) \cup {Head(semaphore.queue)}]
      BY <2>0, <2>2, ReleaseEffect
    <3>2. /\ semaphore.holders' = (semaphore.holders \ {c}) \cup {Head(semaphore.queue)}
          /\ semaphore.queue' = Tail(semaphore.queue)
      BY <3>1
    <3> QED
      BY <2>0, <2>2, <3>2 DEF Sm!Limiter!HandOver
  <2> QED
    BY <2>1, <2>2
<1>3. CASE UNCHANGED semaphore
  BY <1>3 DEF Sm!Limiter!vars
<1> QED
  BY <1>1, <1>2, <1>3 DEF Sm!Next, Sm!Limiter!Next

\* A step of the mutex is one of a limiter with a single place.
LEMMA MutexLimits ==
  MutexInv /\ [Mx!Next]_(Mx!vars) => [Mx!Limiter!Next]_(Mx!Limiter!vars)
<1> SUFFICES ASSUME MutexInv, [Mx!Next]_(Mx!vars) PROVE [Mx!Limiter!Next]_(Mx!Limiter!vars)
  OBVIOUS
<1>1. ASSUME NEW c \in Clients, Mx!Acquire(c)
      PROVE  Mx!Limiter!Enter(c) \/ Mx!Limiter!Queue(c)
  <2>1. c \notin owners \cup Range(queue)
    BY <1>1 DEF Mx!Acquire, Mx!Range, Range
  <2>2. CASE Mx!Lock(c)
    <3>1. owners = {} /\ queue = <<>>
      BY <2>2 DEF Mx!Lock, MutexInv, Mx!TypeOK
    <3>2. Cardinality(owners) < 1
      BY <3>1, FS_EmptySet
    <3> QED
      BY <2>1, <2>2, <3>1, <3>2, SameInLimiters DEF Mx!Lock, Mx!Limiter!Enter
  <2>3. CASE Mx!Enqueue(c)
    <3>1. PICK o : owners = {o}
      BY <2>3 DEF Mx!Enqueue, MutexInv, Mx!TypeOK
    <3>2. Cardinality(owners) = 1
      BY <3>1, FS_Singleton
    <3> QED
      BY <2>1, <2>3, <3>2, SameInLimiters DEF Mx!Enqueue, Mx!Limiter!Queue
  <2> QED
    BY <1>1, <2>2, <2>3 DEF Mx!Acquire
<1>2. ASSUME NEW c \in Clients, Mx!Release(c)
      PROVE  Mx!Limiter!Leave(c) \/ Mx!Limiter!HandOver(c)
  BY <1>2 DEF Mx!Release, Mx!PassOn, Mx!Unlock, Mx!Limiter!Leave, Mx!Limiter!HandOver
<1>3. CASE UNCHANGED Mx!vars
  BY <1>3 DEF Mx!vars, Mx!Limiter!vars
<1> QED
  BY <1>1, <1>2, <1>3 DEF Mx!Next, Mx!Limiter!Next

\* The inductive invariant of the classes that are proved about here.
SuiteInv == LockInv /\ BatchInv /\ SemOK(semaphore) /\ MutexInv

THEOREM SuiteInvariance == SuiteSpec => []SuiteInv
<1>1. SuiteInit => SuiteInv
  BY LockStarts, BatchStarts, SemaphoreAloneKeeps, MutexStarts DEF SuiteInit, SuiteInv
<1>2. SuiteInv /\ [SuiteNext]_suiteVars => SuiteInv'
  BY LockKeeps, BatchKeeps, SemaphoreAloneKeeps, MutexKeeps,
     LockSteps, BatchSteps, SemaphoreSteps, MutexSteps DEF SuiteInv
<1> QED
  BY <1>1, <1>2, PTL DEF SuiteSpec

\* Each class behaves in the composition as it does alone.
LEMMA OnceAlone == SuiteSpec => On!Spec
BY OnceSteps, PTL DEF SuiteSpec, SuiteInit, SuiteFairness, On!Spec

LEMMA MapAlone == SuiteSpec => Cm!Spec
BY MapSteps, PTL DEF SuiteSpec, SuiteInit, SuiteFairness, Cm!Spec

\* The counters, flags, lines and markers of every class keep their types, and whoever
\* awaits an execution awaits one that runs.
THEOREM TypesHold == SuiteSpec => []SuiteTypeOK
<1>1. SuiteInv => LockTypeOK /\ BatchTypeOK /\ Sm!TypeOK /\ Mx!TypeOK
  BY BatchHolds DEF SuiteInv, LockInv, SemOK, Sm!TypeOK, MutexInv
<1>2. On!Spec => []On!TypeOK
  BY OnceTypesHold, BoundsAssumption
<1>3. Cm!Spec => []Cm!TypeOK
  BY MapTypesHold, BoundsAssumption, ValuesAssumption
<1>4. LockTypeOK /\ BatchTypeOK /\ Sm!TypeOK /\ Mx!TypeOK /\ On!TypeOK /\ Cm!TypeOK => SuiteTypeOK
  BY DEF SuiteTypeOK
<1> QED
  BY <1>1, <1>2, <1>3, <1>4, SuiteInvariance, OnceAlone, MapAlone, PTL

\* The safety part of LimitersAreFair: every step of the semaphore and of the mutex is a
\* step of the abstract fair limiter.  What is given back goes to the client that has
\* waited longest, and a newcomer never finds it free while somebody waits.
THEOREM Refinement == SuiteSpec => Sm!Limiter!SafeSpec /\ Mx!Limiter!SafeSpec
<1>1. Sm!Init => Sm!Limiter!Init
  BY DEF Sm!Init, Sm!EmptySemaphore, Sm!Limiter!Init
<1>2. Mx!Init => Mx!Limiter!Init
  BY DEF Mx!Init, Mx!Limiter!Init
<1>3. SuiteInv /\ [SuiteNext]_suiteVars => [Sm!Limiter!Next]_(Sm!Limiter!vars)
  BY SemaphoreLimits, SemaphoreSteps DEF SuiteInv
<1>4. SuiteInv /\ [SuiteNext]_suiteVars => [Mx!Limiter!Next]_(Mx!Limiter!vars)
  BY MutexLimits, MutexSteps DEF SuiteInv
<1> QED
  BY <1>1, <1>2, <1>3, <1>4, SuiteInvariance, PTL
     DEF SuiteSpec, SuiteInit, Sm!Limiter!SafeSpec, Mx!Limiter!SafeSpec

\* However many activities and workers of runAll() compete, those inside never
\* outnumber the slots.
THEOREM Capacity == SuiteSpec => []CapacityRespected
<1>1. SuiteInv => CapacityRespected
  BY BatchHolds DEF SuiteInv
<1> QED
  BY <1>1, SuiteInvariance, PTL

\* No slot stays free while an activity or a worker waits for one.
THEOREM WorkConserving == SuiteSpec => []NoIdleSlot
<1>1. SuiteInv => NoIdleSlot
  BY BatchHolds DEF SuiteInv
<1> QED
  BY <1>1, SuiteInvariance, PTL

\* However many activities lock and unlock, a writer is always alone.
THEOREM WriterAlone == SuiteSpec => []Exclusion
<1>1. SuiteInv => Exclusion
  BY DEF SuiteInv, LockInv
<1> QED
  BY <1>1, SuiteInvariance, PTL

\* Nobody ever waits for a lock that nobody is going to release.
THEOREM NoStrandedWaiter == SuiteSpec => []NobodyStranded
<1>1. SuiteInv => NobodyStranded
  BY DEF SuiteInv, LockInv
<1> QED
  BY <1>1, SuiteInvariance, PTL

\* No reader is let in while a writer waits, by any step of anybody.
THEOREM WritersFirst == SuiteSpec => NoReaderOvertakesWriter
<1>1. LockInv /\ [LockNext]_lockVars => [writeQueue # <<>> => reading' \subseteq reading]_lockVars
  <2> SUFFICES ASSUME LockInv, LockNext, writeQueue # <<>> PROVE reading' \subseteq reading
    OBVIOUS
  <2>1. PICK c \in Lockers :
          AcquireRead(c) \/ ReleaseRead(c) \/ AcquireWrite(c) \/ ReleaseWrite(c)
    BY DEF LockNext
  <2> QED
    BY <2>1 DEF AcquireRead, ReaderEnters, ReaderWaits, ReleaseRead, AcquireWrite,
                WriterEnters, WriterWaits, ReleaseWrite, NextWriter
<1>2. SuiteInv => LockInv
  BY DEF SuiteInv
<1> QED
  BY <1>1, <1>2, SuiteInvariance, LockSteps, PTL DEF SuiteSpec, NoReaderOvertakesWriter

\* The callers of run() share an execution, those of load() a computation, and the workers
\* of runAll() the functions: each is run once, none is lost when others fail, and the
\* result is reported only when it is complete.
THEOREM SharingHolds == SuiteSpec => []ComputationsShared
<1>1. SuiteInv => BatchComplete
  BY BatchHolds DEF SuiteInv
<1>2. Cm!Spec => []Cm!SingleFlight
  BY SingleFlightHolds, ValuesAssumption
<1>3. On!SharedRun /\ Cm!SingleFlight /\ BatchComplete => ComputationsShared
  BY DEF ComputationsShared
<1> QED
  BY <1>1, <1>2, <1>3, SharedRunHolds, SuiteInvariance, OnceAlone, MapAlone, PTL
=============================================================================
