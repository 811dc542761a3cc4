-------------------------- MODULE GracefulShutdown --------------------------
(***************************************************************************)
(* The GracefulShutdown class of packages/core: on a signal, or when it is *)
(* called, shutdown() stops the registered services one after the other,   *)
(* the one registered last first, and races this against a timeout.        *)
(* Failures are announced by the event "error", and emitting that event    *)
(* without a listener throws: inside the loop it skips the services that   *)
(* are left, and after the timeout it keeps process.exit from being        *)
(* reached.  The server of production.ts has no such listener.             *)
(*                                                                         *)
(* "plan" and "called" are history variables.                              *)
(***************************************************************************)
EXTENDS Naturals, Sequences, SequencesExt

CONSTANTS Services, Nobody

VARIABLES handlers,        \* handlers, in the order of registration
          listening,       \* there is a listener for "error"
          isShuttingDown,  \* isShuttingDown
          todo, current,   \* the services left to stop, and the one awaited
          armed,           \* the timeout is pending; it is never cleared
          outcome,         \* how shutdown() ended, "threw" when its promise rejects
          plan, called     \* the services to be stopped, and those stopped so far

vars == <<handlers, listening, isShuttingDown, todo, current, armed, outcome, plan, called>>

Outcomes == {"none", "complete", "exited", "threw"}

Init ==
  /\ handlers = <<>> /\ todo = <<>> /\ plan = <<>> /\ called = <<>>
  /\ listening \in BOOLEAN
  /\ isShuttingDown = FALSE /\ armed = FALSE
  /\ current = Nobody
  /\ outcome = "none"

Alive == outcome # "exited"
Settle(how) == outcome' = IF outcome = "none" THEN how ELSE outcome

-----------------------------------------------------------------------------
\* executeShutdown() goes on to the first of the services left, or resolves.
StopNext(left) ==
  IF left = <<>>
  THEN /\ current' = Nobody
       /\ todo' = <<>>
       /\ Settle("complete")
       /\ UNCHANGED called
  ELSE /\ current' = Head(left)
       /\ todo' = Tail(left)
       /\ called' = Append(called, Head(left))
       /\ UNCHANGED outcome

\* Faulty variants.
FailureCompletes ==
  /\ Alive /\ current # Nobody
  /\ StopNext(<<>>)
  /\ UNCHANGED <<handlers, listening, isShuttingDown, armed, plan>>

-----------------------------------------------------------------------------
\* registerService, removeService and clear; a shutdown that has begun works on
\* its own copy.  Names differ, so that filter() takes out one entry at most.
RegisterService(s) ==
  /\ Alive /\ ~Contains(handlers, s)
  /\ handlers' = Append(handlers, s)
  /\ UNCHANGED <<listening, isShuttingDown, todo, current, armed, outcome, plan, called>>

RemoveService(s) ==
  /\ Alive
  /\ \E i \in DOMAIN handlers : handlers[i] = s /\ handlers' = RemoveAt(handlers, i)
  /\ UNCHANGED <<listening, isShuttingDown, todo, current, armed, outcome, plan, called>>

Clear ==
  /\ Alive /\ handlers # <<>>
  /\ handlers' = <<>>
  /\ UNCHANGED <<listening, isShuttingDown, todo, current, armed, outcome, plan, called>>

\* shutdown(), or one of the signals; a second one does nothing.
Shutdown ==
  /\ ~isShuttingDown
  /\ isShuttingDown' = TRUE
  /\ armed' = TRUE
  /\ plan' = Reverse(handlers)
  /\ StopNext(Reverse(handlers))
  /\ UNCHANGED <<handlers, listening>>

HandlerReturns ==
  /\ Alive /\ current # Nobody
  /\ StopNext(todo)
  /\ UNCHANGED <<handlers, listening, isShuttingDown, armed, plan>>

\* With a listener the loop goes on.  Without, the exception of emit() ends the
\* loop, and that of the second emit() leaves shutdown().
HandlerFails ==
  /\ Alive /\ current # Nobody
  /\ IF listening
     THEN StopNext(todo)
     ELSE /\ current' = Nobody
          /\ todo' = <<>>
          /\ Settle("threw")
          /\ UNCHANGED called
  /\ UNCHANGED <<handlers, listening, isShuttingDown, armed, plan>>

\* Without a listener the loop is left to itself.
Timeout ==
  /\ Alive /\ armed
  /\ armed' = FALSE
  /\ Settle(IF listening THEN "exited" ELSE "threw")
  /\ UNCHANGED <<handlers, listening, isShuttingDown, todo, current, plan, called>>

Next ==
  \/ \E s \in Services : RegisterService(s) \/ RemoveService(s)
  \/ Clear \/ Shutdown \/ HandlerReturns \/ HandlerFails \/ Timeout

\* The timeout fires.  A handler may never settle.
Fairness == WF_vars(Timeout)

Spec == Init /\ [][Next]_vars /\ Fairness

-----------------------------------------------------------------------------
TypeOK ==
  /\ handlers \in Seq(Services) /\ todo \in Seq(Services)
  /\ plan \in Seq(Services) /\ called \in Seq(Services)
  /\ current \in Services \union {Nobody}
  /\ listening \in BOOLEAN /\ isShuttingDown \in BOOLEAN /\ armed \in BOOLEAN
  /\ outcome \in Outcomes

\* A shutdown reports completion only when every service that was registered as
\* it began was stopped, in the opposite order, also when some of them failed;
\* and while the loop runs, the services it has called, and those left, are that
\* plan.  It ends early only when it throws or exits.
CompleteMeansStopped ==
  /\ IsPrefix(called, plan)
  /\ outcome = "complete" => called = plan /\ current = Nobody
  /\ current # Nobody => called \o todo = plan /\ current = Last(called)
  /\ outcome = "threw" => ~listening

\* Whatever the handlers do, the shutdown ends.
ShutdownEnds == isShuttingDown ~> (outcome # "none")
=============================================================================
