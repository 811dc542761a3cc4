-------------------------------- MODULE Once --------------------------------
(***************************************************************************)
(* The Once class of packages/concurrency, with concurrent callers of run()*)
(* and with reset(), which may come while the function is running.         *)
(*                                                                         *)
(* An execution of the function is one promise; executions are numbered.   *)
(* _promise is the number of the execution it stands for, 0 for null.      *)
(***************************************************************************)
EXTENDS Naturals, Sequences

CONSTANTS Callers,   \* the activities that call run()
          MaxRuns,   \* bound: how often the function is called
          MaxResets  \* bound: how often reset() is called

VARIABLES done,      \* _done
          promise,   \* _promise
          runs,      \* the executions so far: [epoch, state]
          awaits,    \* the execution each caller awaits, 0 for none
          outcome,   \* how the last call of each caller ended
          epoch      \* history: the number of resets

vars == <<done, promise, runs, awaits, outcome, epoch>>

RunIds == DOMAIN runs
Awaiting(c) == awaits[c] # 0

Init ==
  /\ done = FALSE
  /\ promise = 0
  /\ runs = <<>>
  /\ awaits = [c \in Callers |-> 0]
  /\ outcome = [c \in Callers |-> "none"]
  /\ epoch = 0

-----------------------------------------------------------------------------
\* Faulty variants.
StartWithoutSharing(c) ==
  /\ Len(runs) < MaxRuns
  /\ runs' = Append(runs, [epoch |-> epoch, state |-> "running"])
  /\ promise' = promise
  /\ awaits' = [awaits EXCEPT ![c] = Len(runs) + 1]
  /\ UNCHANGED <<done, outcome, epoch>>

-----------------------------------------------------------------------------
\* run() after the function has completed.
AlreadyDone(c) ==
  /\ done
  /\ outcome' = [outcome EXCEPT ![c] = "returned"]
  /\ UNCHANGED <<done, promise, runs, awaits, epoch>>

\* run() while the function is running, or after it has failed.
JoinRun(c) ==
  /\ ~done /\ promise # 0
  /\ IF runs[promise].state = "rejected"
       THEN outcome' = [outcome EXCEPT ![c] = "threw"] /\ awaits' = awaits
       ELSE awaits' = [awaits EXCEPT ![c] = promise] /\ outcome' = outcome
  /\ UNCHANGED <<done, promise, runs, epoch>>

\* The function is called; what it returns is remembered.
StartRun(c) ==
  /\ Len(runs) < MaxRuns
  /\ runs' = Append(runs, [epoch |-> epoch, state |-> "running"])
  /\ promise' = Len(runs) + 1
  /\ awaits' = [awaits EXCEPT ![c] = Len(runs) + 1]
  /\ UNCHANGED <<done, outcome, epoch>>

\* The function throws before it returns a promise: nothing is remembered.
FunctionThrows(c) ==
  /\ Len(runs) < MaxRuns
  /\ runs' = Append(runs, [epoch |-> epoch, state |-> "threw"])
  /\ outcome' = [outcome EXCEPT ![c] = "threw"]
  /\ UNCHANGED <<done, promise, awaits, epoch>>

Run(c) ==
  /\ ~Awaiting(c)
  /\ \/ AlreadyDone(c)
     \/ JoinRun(c)
     \/ ~done /\ promise = 0 /\ (StartRun(c) \/ FunctionThrows(c))

\* The callers that await execution r continue.
Answer(r, how) ==
  /\ awaits' = [c \in Callers |-> IF awaits[c] = r THEN 0 ELSE awaits[c]]
  /\ outcome' = [c \in Callers |-> IF awaits[c] = r THEN how ELSE outcome[c]]

\* The promise of execution r resolves: _done is set, whatever has happened to
\* the object in the meantime, and the callers that await it return.
RunResolves(r) ==
  /\ runs[r].state = "running"
  /\ runs' = [runs EXCEPT ![r].state = "resolved"]
  /\ done' = TRUE
  /\ Answer(r, "returned")
  /\ UNCHANGED <<promise, epoch>>

\* The promise of execution r rejects: _promise stays as it is.
RunRejects(r) ==
  /\ runs[r].state = "running"
  /\ runs' = [runs EXCEPT ![r].state = "rejected"]
  /\ Answer(r, "threw")
  /\ UNCHANGED <<done, promise, epoch>>

Reset ==
  /\ epoch < MaxResets
  /\ done' = FALSE
  /\ promise' = 0
  /\ epoch' = epoch + 1
  /\ UNCHANGED <<runs, awaits, outcome>>

Next ==
  \/ \E c \in Callers : Run(c)
  \/ \E r \in RunIds : RunResolves(r) \/ RunRejects(r)
  \/ Reset

\* The function settles once it has been called.
Fairness == \A r \in 1..MaxRuns : WF_vars(r \in RunIds /\ (RunResolves(r) \/ RunRejects(r)))

Spec == Init /\ [][Next]_vars /\ Fairness

-----------------------------------------------------------------------------
TypeOK ==
  /\ done \in BOOLEAN
  /\ promise \in 0..Len(runs)
  /\ runs \in Seq([epoch : 0..MaxResets, state : {"running", "resolved", "rejected", "threw"}])
  /\ awaits \in [Callers -> {r \in 0..Len(runs) : r = 0 \/ runs[r].state = "running"}]
  /\ outcome \in [Callers -> {"none", "returned", "threw"}]
  /\ epoch \in 0..MaxResets

\* Between two resets the function is not called again unless it threw before
\* it returned a promise; an asynchronous failure is final.
RunsOnce ==
  \A r, s \in RunIds :
    r # s /\ runs[r].epoch = runs[s].epoch => "threw" \in {runs[r].state, runs[s].state}

\* Nobody returns from run() without some execution having completed, also
\* when a reset comes in between.
ReturnsAfterCompletion ==
  (done \/ \E c \in Callers : outcome[c] = "returned")
    => \E r \in RunIds : runs[r].state = "resolved"

\* What the callers of one run() share: a single execution, and its completion.
SharedRun == RunsOnce /\ ReturnsAfterCompletion

\* A caller that awaits an execution gets its answer, also after a reset.
EveryCallerAnswered == \A c \in Callers : Awaiting(c) ~> ~Awaiting(c)
=============================================================================
