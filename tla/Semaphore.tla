----------------------------- MODULE Semaphore -----------------------------
(***************************************************************************)
(* The Semaphore class of packages/concurrency.  JavaScript runs one piece *)
(* of synchronous code at a time, so acquire() and release() are each one  *)
(* atomic step on the state of the object.  They are written as functions  *)
(* of that state (AcquireIn, ReleaseIn), because callers chain them without*)
(* an await in between (see SemaphoreRunAll).                              *)
(*                                                                         *)
(* "holders" is a history component: the code only counts the slots that   *)
(* are taken; we also remember whose acquire() promise was resolved.       *)
(***************************************************************************)
EXTENDS Naturals, Sequences, FiniteSets, Functions

CONSTANTS Clients,  \* the asynchronous activities that call run()
          Slots     \* the constructor's argument

\* The constructor throws for max <= 0.
ASSUME SlotsAssumption == Slots \in Nat \ {0}

VARIABLE sem        \* [current, queue, holders]

EmptySemaphore == [current |-> 0, queue |-> <<>>, holders |-> {}]

-----------------------------------------------------------------------------
\* Faulty variants of acquire and release, against which the properties are
\* validated.
AcquireOneTooMany(s, c) ==
  IF s.current <= Slots
    THEN [s EXCEPT !.current = @ + 1, !.holders = @ \cup {c}]
    ELSE [s EXCEPT !.queue = Append(@, c)]

ReleaseWithoutRecount(s, c) ==
  [s EXCEPT !.current = @ - 1,
            !.queue = IF @ = <<>> THEN @ ELSE Tail(@),
            !.holders = (@ \ {c}) \cup (IF s.queue = <<>> THEN {} ELSE {Head(s.queue)})]

-----------------------------------------------------------------------------
\* acquire(): take a slot if there is one, otherwise wait at the end of _queue.
AcquireIn(s, c) ==
  IF s.current < Slots
    THEN [s EXCEPT !.current = @ + 1, !.holders = @ \cup {c}]
    ELSE [s EXCEPT !.queue = Append(@, c)]

\* release(): give the slot back, then resolve the oldest waiter and count it.
ReleaseIn(s, c) ==
  LET freed == [s EXCEPT !.current = IF @ > 0 THEN @ - 1 ELSE @,
                         !.holders = @ \ {c}]
  IN  IF freed.queue = <<>>
        THEN freed
        ELSE [freed EXCEPT !.current = @ + 1,
                           !.queue = Tail(@),
                           !.holders = @ \cup {Head(freed.queue)}]

Init == sem = EmptySemaphore

\* A client outside of the semaphore calls run(), up to its first await.
Acquire(c) ==
  /\ c \notin sem.holders \cup Range(sem.queue)
  /\ sem' = AcquireIn(sem, c)

\* The function of a client that holds a slot has settled: the finally block.
Release(c) ==
  /\ c \in sem.holders
  /\ sem' = ReleaseIn(sem, c)

Next == \E c \in Clients : Acquire(c) \/ Release(c)

\* A function handed to run() settles; its finally block then runs.
Fairness == \A c \in Clients : WF_sem(Release(c))

SafeSpec == Init /\ [][Next]_sem
Spec == SafeSpec /\ Fairness

-----------------------------------------------------------------------------
TypeOK == sem \in [current : 0..Slots, queue : Seq(Clients), holders : SUBSET Clients]

\* However acquire and release are interleaved, the activities whose acquire
\* was resolved and that have not released never outnumber the slots
\* (Semaphore.acquire and .release).
CapacityRespected == Cardinality(sem.holders) <= Slots

\* Nobody waits while a slot is free: release() never forgets a waiter.
NoIdleSlot == sem.queue # <<>> => sem.current = Slots

-----------------------------------------------------------------------------
Limiter == INSTANCE FairLimiter
             WITH K <- Slots, inside <- sem.holders, line <- sem.queue

\* The class implements the abstract limiter, its fairness included: a slot is
\* taken over by the longest waiting activity and by nobody else.
ImplementsFairLimiter == Limiter!Spec
=============================================================================
