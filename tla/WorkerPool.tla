----------------------------- MODULE WorkerPool -----------------------------
(***************************************************************************)
(* The WorkerPool class of packages/worker: tasks are posted to worker     *)
(* threads, one at a time each; what a thread sends back, or its failure,  *)
(* arrives as an event on the main thread.  A thread that fails is         *)
(* replaced, also while terminate() waits for the threads to exit.         *)
(*                                                                         *)
(* Threads are numbered in the order in which they are created.  A task    *)
(* whose data cannot be cloned makes postMessage throw after its worker    *)
(* was marked busy: run() then rejects and the worker stays busy; in an    *)
(* event handler the exception goes uncaught and ends the process.         *)
(***************************************************************************)
EXTENDS Naturals, Sequences, FiniteSets, Functions

CONSTANTS Tasks,
          Unclonable,   \* the tasks whose data cannot be posted
          None,         \* no task
          PoolSize,
          MaxThreads    \* bound: how many threads are ever created

\* What the pool and its tasks may be.
PoolOK ==
  /\ Unclonable \subseteq Tasks /\ None \notin Tasks
  /\ PoolSize \in Nat \ {0}
  /\ MaxThreads \in Nat /\ MaxThreads >= PoolSize

VARIABLES workers,     \* _workers: the threads of the pool
          current,     \* the busy threads and their currentTask
          queue,       \* _queue
          terminated,  \* _terminated
          toStop,      \* the threads that terminate() waits for
          thread,      \* what each thread is doing
          posted,      \* the task each thread was last given
          answer,      \* how the promise of each task stands
          crashed      \* an exception went uncaught

vars == <<workers, current, queue, terminated, toStop, thread, posted, answer, crashed>>

Threads == 1..MaxThreads
InPool == Range(workers)
Created == Cardinality({w \in Threads : thread[w] # "none"})
Busy(now) == {w \in Threads : now[w] # None}
IdleAt(pool, now) == {i \in DOMAIN pool : pool[i] \notin Busy(now)}
FirstIdle(pool, now) ==
  pool[CHOOSE i \in IdleAt(pool, now) : \A j \in IdleAt(pool, now) : i <= j]

Init ==
  /\ workers = [i \in 1..PoolSize |-> i]
  /\ current = [w \in Threads |-> None]
  /\ queue = <<>>
  /\ terminated = FALSE
  /\ toStop = {}
  /\ thread = [w \in Threads |-> IF w <= PoolSize THEN "idle" ELSE "none"]
  /\ posted = [w \in Threads |-> None]
  /\ answer = [t \in Tasks |-> "none"]
  /\ crashed = FALSE

-----------------------------------------------------------------------------
\* Faulty variants.
AssignToFirst(t) ==
  /\ answer' = [answer EXCEPT ![t] = "pending"]
  /\ current' = [current EXCEPT ![workers[1]] = t]
  /\ thread' = [thread EXCEPT ![workers[1]] = "working"]
  /\ posted' = [posted EXCEPT ![workers[1]] = IF thread[workers[1]] = "idle" THEN t ELSE @]
  /\ UNCHANGED <<queue, workers, crashed>>

-----------------------------------------------------------------------------
\* A task that is posted to a thread that has just died is lost with it.
AtWork(doing) == IF doing = "idle" THEN "working" ELSE doing

\* _executeTask() for a new task t: the first idle worker is given it ...
Assign(t) ==
  LET w == FirstIdle(workers, current)
  IN  /\ IdleAt(workers, current) # {}
      /\ current' = [current EXCEPT ![w] = t]
      /\ IF t \in Unclonable
           THEN /\ answer' = [answer EXCEPT ![t] = "settled"]
                /\ UNCHANGED <<thread, posted>>
           ELSE /\ answer' = [answer EXCEPT ![t] = "pending"]
                /\ thread' = [thread EXCEPT ![w] = AtWork(@)]
                /\ posted' = [posted EXCEPT ![w] = t]
      /\ UNCHANGED <<queue, workers, crashed>>

\* ... or it waits.
Enqueue(t) ==
  /\ IdleAt(workers, current) = {}
  /\ answer' = [answer EXCEPT ![t] = "pending"]
  /\ queue' = Append(queue, t)
  /\ UNCHANGED <<workers, current, thread, posted, crashed>>

Refuse(t) ==
  /\ answer' = [answer EXCEPT ![t] = "settled"]
  /\ UNCHANGED <<workers, current, queue, thread, posted, crashed>>

Run(t) ==
  /\ answer[t] = "none" /\ ~crashed
  /\ \/ terminated /\ Refuse(t)
     \/ ~terminated /\ (Assign(t) \/ Enqueue(t))
  /\ UNCHANGED <<terminated, toStop>>

\* The thread has run its function; its reply is under way.
Work(w) ==
  /\ thread[w] = "working"
  /\ thread' = [thread EXCEPT ![w] = "replied"]
  /\ UNCHANGED <<workers, current, queue, terminated, toStop, posted, answer, crashed>>

\* The thread dies of an uncaught exception, possibly one that an earlier task
\* has left behind; the error event is under way.
Break(w) ==
  /\ thread[w] \in {"idle", "working"}
  /\ Created + Cardinality({v \in Threads : thread[v] = "failed"}) < MaxThreads
  /\ thread' = [thread EXCEPT ![w] = "failed"]
  /\ UNCHANGED <<workers, current, queue, terminated, toStop, posted, answer, crashed>>

\* _processQueue(): one waiting task at most is given away.
ProcessQueue(pool, freed, now) ==
  /\ workers' = pool
  /\ IF queue = <<>> \/ terminated \/ IdleAt(pool, freed) = {}
       THEN /\ current' = freed
            /\ thread' = now
            /\ UNCHANGED <<queue, posted, crashed>>
       ELSE LET w == FirstIdle(pool, freed)
                t == Head(queue)
            IN  /\ queue' = Tail(queue)
                /\ current' = [freed EXCEPT ![w] = t]
                /\ crashed' = (t \in Unclonable)
                /\ thread' = [now EXCEPT ![w] = IF t \in Unclonable THEN @ ELSE AtWork(@)]
                /\ posted' = [posted EXCEPT ![w] = IF t \in Unclonable THEN @ ELSE t]

\* Both event handlers answer the task that the main thread has on record for
\* the thread; the id that comes with a message is not looked at.
AnswerCurrent(w) ==
  answer' = [t \in Tasks |-> IF t = current[w] THEN "settled" ELSE answer[t]]

OnMessage(w) ==
  /\ thread[w] = "replied" /\ ~crashed
  /\ AnswerCurrent(w)
  /\ ProcessQueue(workers, [current EXCEPT ![w] = None], [thread EXCEPT ![w] = "idle"])
  /\ UNCHANGED <<terminated, toStop>>

\* Faulty variant of OnError: the new worker is added to the pool.
FailedWorkerKept(w) ==
  /\ thread[w] = "failed" /\ ~crashed
  /\ AnswerCurrent(w)
  /\ ProcessQueue(Append(workers, Created + 1), [current EXCEPT ![w] = None],
                  [thread EXCEPT ![w] = "gone", ![Created + 1] = "idle"])
  /\ UNCHANGED <<terminated, toStop>>

\* The error event: the thread is replaced if it belongs to the pool, be the
\* pool terminated or not.
OnError(w) ==
  /\ thread[w] = "failed" /\ ~crashed
  /\ AnswerCurrent(w)
  /\ LET new == Created + 1
         freed == [current EXCEPT ![w] = None]
     IN  \/ /\ w \in InPool
            /\ ProcessQueue([i \in DOMAIN workers |-> IF workers[i] = w THEN new ELSE workers[i]],
                            freed, [thread EXCEPT ![w] = "gone", ![new] = "idle"])
         \/ /\ w \notin InPool
            /\ ProcessQueue(workers, freed, [thread EXCEPT ![w] = "gone"])
  /\ UNCHANGED <<terminated, toStop>>

\* terminate() up to its await: the queue is rejected and the threads that are
\* in the pool now are told to stop.
Terminate ==
  /\ ~terminated /\ ~crashed
  /\ terminated' = TRUE
  /\ toStop' = InPool
  /\ answer' = [t \in Tasks |-> IF t \in Range(queue) THEN "settled" ELSE answer[t]]
  /\ queue' = <<>>
  /\ UNCHANGED <<workers, current, thread, posted, crashed>>

\* A thread that was told to stop exits; what it had sent was delivered before.
Exit(w) ==
  /\ w \in toStop /\ thread[w] \in {"idle", "working"}
  /\ thread' = [thread EXCEPT ![w] = "gone"]
  /\ UNCHANGED <<workers, current, queue, terminated, toStop, posted, answer, crashed>>

\* The rest of terminate().
FinishTerminate ==
  /\ terminated /\ ~crashed /\ workers # <<>>
  /\ \A w \in toStop : thread[w] = "gone"
  /\ workers' = <<>>
  /\ UNCHANGED <<current, queue, terminated, toStop, thread, posted, answer, crashed>>

Next ==
  \/ \E t \in Tasks : Run(t)
  \/ \E w \in Threads : Work(w) \/ Break(w) \/ OnMessage(w) \/ OnError(w) \/ Exit(w)
  \/ Terminate \/ FinishTerminate

\* Threads finish their functions and events are delivered.
Fairness ==
  /\ \A w \in Threads : WF_vars(Work(w)) /\ WF_vars(OnMessage(w) \/ OnError(w)) /\ WF_vars(Exit(w))
  /\ WF_vars(FinishTerminate)

Spec == Init /\ [][Next]_vars /\ Fairness

-----------------------------------------------------------------------------
TypeOK ==
  /\ workers \in Seq(1..Created)
  /\ Len(workers) = PoolSize \/ (terminated /\ workers = <<>>)
  /\ current \in [Threads -> Tasks \cup {None}]
  /\ queue \in Seq(Tasks)
  /\ terminated \in BOOLEAN /\ crashed \in BOOLEAN
  /\ toStop \in SUBSET Threads
  /\ thread \in [Threads -> {"none", "idle", "working", "replied", "failed", "gone"}]
  /\ posted \in [Threads -> Tasks \cup {None}]
  /\ answer \in [Tasks -> {"none", "pending", "settled"}]

\* A reply answers the task it belongs to: although the id of the message is
\* ignored, a thread that works or has replied was given the task on record.
RepliesMatch ==
  \A w \in Threads : thread[w] \in {"working", "replied"} => current[w] = posted[w]

\* No task waits while a worker of the pool is idle, also when a worker has
\* just been replaced.
NoIdleWorker == queue # <<>> => IdleAt(workers, current) = {}

\* A task is in one place: it waits, or one thread has it, never both nor two.
TaskInOnePlace ==
  /\ IsInjective(queue)
  /\ \A v, w \in Busy(current) : current[v] = current[w] => v = w
  /\ \A w \in Busy(current) : current[w] \notin Range(queue)

\* A task that waits or runs has not been answered, unless it could not be
\* posted; and a task that was taken and not answered is in one of the two.
AnsweredWhenOut ==
  \A t \in Tasks \ Unclonable :
    answer[t] = "pending" <=> t \in Range(queue) \/ \E w \in Threads : current[w] = t

\* Tasks, promises and workers agree, across replies, failures, replacement of
\* threads and terminate().
TasksAccounted == NoIdleWorker /\ TaskInOnePlace /\ AnsweredWhenOut

\* A waiting task leaves the queue (for a worker, or rejected by terminate),
\* unless every worker was lost to a task that could not be posted.
WaitingEnds ==
  \A t \in Tasks :
    (t \in Range(queue)) ~>
      (t \notin Range(queue) \/ crashed \/ \A w \in InPool : current[w] \in Unclonable)

\* A task that a thread works on is answered, also when the thread fails; only
\* terminate() leaves it unanswered.
RunningAnswered ==
  \A t \in Tasks :
    (\E w \in Threads : thread[w] = "working" /\ posted[w] = t) ~>
      (answer[t] = "settled" \/ terminated \/ crashed)

\* What terminate() promises: when it is done no thread is left running.
AllThreadsStopped ==
  terminated /\ workers = <<>> => \A w \in Threads : thread[w] \in {"none", "gone"}
=============================================================================
