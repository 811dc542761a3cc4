------------------------------- MODULE Mutex -------------------------------
(***************************************************************************)
(* The Mutex class of packages/concurrency.  release() does not look at    *)
(* who calls it: it passes the lock on without clearing _locked when       *)
(* somebody waits.  Each acquire() hands out a closure that calls release; *)
(* run() calls it exactly once, in a finally block.                        *)
(* "owners" is a history variable: whose acquire() was resolved.           *)
(***************************************************************************)
EXTENDS Naturals, Sequences, FiniteSets, Functions

CONSTANT Clients    \* the activities that lock

VARIABLES locked,   \* _locked
          queue,    \* _queue
          owners

vars == <<locked, queue, owners>>

Init ==
  /\ locked = FALSE
  /\ queue = <<>>
  /\ owners = {}

-----------------------------------------------------------------------------
\* Faulty variants.
PassOnUnlocked(c) ==
  /\ queue # <<>>
  /\ locked' = FALSE
  /\ queue' = Tail(queue)
  /\ owners' = (owners \ {c}) \cup {Head(queue)}

-----------------------------------------------------------------------------
\* acquire() on a free lock.
Lock(c) ==
  /\ ~locked
  /\ locked' = TRUE
  /\ owners' = owners \cup {c}
  /\ UNCHANGED queue

\* acquire() on a lock that is taken.
Enqueue(c) ==
  /\ locked
  /\ queue' = Append(queue, c)
  /\ UNCHANGED <<locked, owners>>

Acquire(c) == c \notin owners \cup Range(queue) /\ (Lock(c) \/ Enqueue(c))

\* release() with somebody waiting: the lock changes hands, still locked.
PassOn(c) ==
  /\ queue # <<>>
  /\ queue' = Tail(queue)
  /\ owners' = (owners \ {c}) \cup {Head(queue)}
  /\ UNCHANGED locked

\* release() with nobody waiting.
Unlock(c) ==
  /\ queue = <<>>
  /\ locked' = FALSE
  /\ owners' = owners \ {c}
  /\ UNCHANGED queue

Release(c) == c \in owners /\ (PassOn(c) \/ Unlock(c))

Next == \E c \in Clients : Acquire(c) \/ Release(c)

\* run() releases when its function settles, and every function settles.
Fairness == \A c \in Clients : WF_vars(Release(c))

SafeSpec == Init /\ [][Next]_vars
Spec == SafeSpec /\ Fairness

-----------------------------------------------------------------------------
TypeOK ==
  /\ locked \in BOOLEAN
  /\ queue \in Seq(Clients)
  /\ owners \in SUBSET Clients
  /\ locked <=> owners # {}

-----------------------------------------------------------------------------
Limiter == INSTANCE FairLimiter WITH K <- 1, inside <- owners, line <- queue

\* The mutex is the fair limiter with a single slot: the lock goes to whoever
\* has waited longest, and to nobody else.
ImplementsFairLimiter == Limiter!Spec
=============================================================================
