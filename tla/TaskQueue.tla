----------------------------- MODULE TaskQueue -----------------------------
(***************************************************************************)
(* The TaskQueue class of packages/worker: tasks run on the main thread,   *)
(* at most as many at a time as the concurrency, which may be changed      *)
(* while they run.  _process() starts tasks up to the limit in one go: the *)
(* start of a task (_runTask) does not wait for it.                        *)
(*                                                                         *)
(* "phase" is a history variable: where each task is, as its caller sees.  *)
(***************************************************************************)
EXTENDS Naturals, Sequences, FiniteSets, Functions

CONSTANTS Tasks,    \* the tasks, each added at most once at a time
          Limits    \* the values that the concurrency is set to

\* The setter and the constructor are given positive numbers.
LimitsOK == IsFiniteSet(Tasks) /\ Limits \subseteq Nat \ {0} /\ Limits # {}

VARIABLES concurrency,  \* _concurrency
          running,      \* _running
          queue,        \* _queue
          phase

vars == <<concurrency, running, queue, phase>>

Phases == {"outside", "queued", "running", "cleared"}
InPhase(p) == {t \in Tasks : phase[t] = p}

Init ==
  /\ concurrency \in Limits
  /\ running = 0
  /\ queue = <<>>
  /\ phase = [t \in Tasks |-> "outside"]

-----------------------------------------------------------------------------
\* Faulty variants.
ProcessUnlimited(limit, active, line, now) ==
  /\ running' = active + Len(line)
  /\ queue' = <<>>
  /\ phase' = [t \in Tasks |-> IF t \in Range(line) THEN "running" ELSE now[t]]

-----------------------------------------------------------------------------
\* _process(), on the running count, the queue and the phases so far.
Process(limit, active, line, now) ==
  LET room == IF active < limit THEN limit - active ELSE 0
      n == IF room < Len(line) THEN room ELSE Len(line)
      started == {line[i] : i \in 1..n}
  IN  /\ running' = active + n
      /\ queue' = SubSeq(line, n + 1, Len(line))
      /\ phase' = [t \in Tasks |-> IF t \in started THEN "running" ELSE now[t]]

Add(t) ==
  /\ phase[t] \in {"outside", "cleared"}
  /\ Process(concurrency, running, Append(queue, t), [phase EXCEPT ![t] = "queued"])
  /\ UNCHANGED concurrency

\* The task settles, well or badly: _runTask answers its caller, counts it off
\* and starts what may start now.
Finish(t) ==
  /\ phase[t] = "running"
  /\ Process(concurrency, running - 1, queue, [phase EXCEPT ![t] = "outside"])
  /\ UNCHANGED concurrency

\* clear() rejects whatever waits.
Clear ==
  /\ queue # <<>>
  /\ queue' = <<>>
  /\ phase' = [t \in Tasks |-> IF t \in Range(queue) THEN "cleared" ELSE phase[t]]
  /\ UNCHANGED <<concurrency, running>>

\* The setter of concurrency, which may go below what is running.
SetConcurrency(limit) ==
  /\ concurrency' = limit
  /\ Process(limit, running, queue, phase)

Next ==
  \/ \E t \in Tasks : Add(t) \/ Finish(t)
  \/ Clear
  \/ \E limit \in Limits : SetConcurrency(limit)

\* Every task settles once it has started.
Fairness == \A t \in Tasks : WF_vars(Finish(t))

SafeSpec == Init /\ [][Next]_vars
Spec == SafeSpec /\ Fairness

-----------------------------------------------------------------------------
TypeOK ==
  /\ concurrency \in Limits
  /\ running \in 0..Cardinality(Tasks)
  /\ queue \in Seq(Tasks)
  /\ phase \in [Tasks -> Phases]

\* The count agrees with the tasks that run, and the queue with those that wait,
\* whichever of add, completion, clear and the setter came last.
Accounted ==
  /\ running = Cardinality(InPhase("running"))
  /\ Range(queue) = InPhase("queued")
  /\ IsInjective(queue)

\* No task waits while there is room, also right after the limit was raised.
NoIdleRoom == queue # <<>> => running >= concurrency

\* The queue is accounted for, and nothing in it waits without a reason.
QueueAccounted == Accounted /\ NoIdleRoom

\* Whatever the limit was before, starting tasks never goes beyond the limit in
\* force, so that a queue above a lowered limit only shrinks.
StartsWithinLimit ==
  [][(InPhase("running")' \ InPhase("running") # {}) =>
       Cardinality(InPhase("running")') <= concurrency']_vars

\* A task is never started before one that was added earlier.
StartedInOrder ==
  [][\A i, j \in DOMAIN queue :
       i < j /\ phase'[queue[j]] = "running" => phase'[queue[i]] # "queued"]_vars

\* Both, for every way in which _process() is reached.
StartsAsItShould == StartsWithinLimit /\ StartedInOrder

\* A task that waits is started or rejected.
EveryTaskAnswered == \A t \in Tasks : (phase[t] = "queued") ~> (phase[t] # "queued")
=============================================================================
