---------------------------- MODULE MessageQueue ----------------------------
(***************************************************************************)
(* The MessageQueue class of packages/queue, for one topic.  publish()     *)
(* visits the consumers one after the other, awaiting each handler; a      *)
(* handler that fails schedules, after a delay that doubles every time, a  *)
(* further pass over ALL consumers.  Passes of a message overlap, and they *)
(* share its status and its count of retries.                              *)
(*                                                                         *)
(* Pass 0 of a message is that of publish(), pass k the one that its k-th  *)
(* retry starts.  "audience", "result" and "owed" are history variables.   *)
(***************************************************************************)
EXTENDS Naturals, Sequences, FiniteSets, Functions

CONSTANTS Messages,
          Subscribers,  \* the handlers, each subscribed once at most
          MaxRetries    \* options.maxRetries

RetriesOK == MaxRetries \in Nat /\ IsFiniteSet(Subscribers)

VARIABLES consumers,   \* consumers.get(topic), in the order of subscription
          status, retryCount,  \* fields of each message
          at,          \* at[m][k]: which consumer pass k awaits, 0 when none
          timers,      \* timers[m]: the retries that wait for their delay
          audience,    \* the consumers there were when the message was published
          result,      \* how the last call of each consumer ended
          owed         \* consumers that failed, were granted a retry, and wait for it

vars == <<consumers, status, retryCount, at, timers, audience, result, owed>>

Passes == 0..MaxRetries

Init ==
  /\ consumers = <<>>
  /\ status = [m \in Messages |-> "unpublished"]
  /\ retryCount = [m \in Messages |-> 0]
  /\ at = [m \in Messages |-> [k \in Passes |-> 0]]
  /\ timers = [m \in Messages |-> {}]
  /\ audience = [m \in Messages |-> {}]
  /\ result = [m \in Messages |-> [c \in Subscribers |-> "none"]]
  /\ owed = [m \in Messages |-> {}]

-----------------------------------------------------------------------------
\* The loop of notifyConsumers goes on to consumer i, or ends and leaves the
\* message with the status "otherwise".  "debts" are the consumers owed a call.
Visit(m, k, i, otherwise, debts) ==
  LET more == i <= Len(consumers)
  IN  /\ at' = [at EXCEPT ![m][k] = IF more THEN i ELSE 0]
      /\ status' = [status EXCEPT ![m] = IF more THEN "processing" ELSE otherwise]
      /\ owed' = [owed EXCEPT ![m] = IF more THEN debts \ {consumers[i]} ELSE debts]

\* Faulty variants.
GrantedOnceMore(m) == retryCount[m] <= MaxRetries

\* A failure that is granted a retry counts it and schedules it.
Granted(m) == retryCount[m] < MaxRetries

\* The catch block, after which the loop goes on to consumer "next".
FailedThen(m, k, next) ==
  LET c == consumers[at[m][k]]
  IN  /\ at[m][k] # 0
      /\ result' = [result EXCEPT ![m][c] = "failed"]
      /\ IF Granted(m)
         THEN /\ retryCount' = [retryCount EXCEPT ![m] = @ + 1]
              /\ timers' = [timers EXCEPT ![m] = @ \union {retryCount[m] + 1}]
              /\ Visit(m, k, next, "pending", owed[m] \union {c})
         ELSE /\ UNCHANGED <<retryCount, timers>>
              /\ Visit(m, k, next, "failed", owed[m])
      /\ UNCHANGED <<consumers, audience>>

\* Faulty variant.
FailEndsPass(m, k) == FailedThen(m, k, Len(consumers) + 1)

-----------------------------------------------------------------------------
Subscribe(c) ==
  /\ c \notin Range(consumers)
  /\ consumers' = Append(consumers, c)
  /\ UNCHANGED <<status, retryCount, at, timers, audience, result, owed>>

\* Without a consumer the message stays pending, and nothing looks at it again.
Publish(m) ==
  /\ status[m] = "unpublished"
  /\ audience' = [audience EXCEPT ![m] = Range(consumers)]
  /\ Visit(m, 0, 1, "pending", {})
  /\ UNCHANGED <<consumers, retryCount, timers, result>>

Succeed(m, k) ==
  /\ at[m][k] # 0
  /\ result' = [result EXCEPT ![m][consumers[at[m][k]]] = "done"]
  /\ Visit(m, k, at[m][k] + 1, "completed", owed[m])
  /\ UNCHANGED <<consumers, retryCount, timers, audience>>

\* A handler that fails does not keep the message from the consumers after it.
Fail(m, k) == FailedThen(m, k, at[m][k] + 1)

\* Later retries are scheduled later and wait longer, so timers fire in order.
Redeliver(m) ==
  \E k \in timers[m] :
     /\ \A j \in timers[m] : k <= j
     /\ timers' = [timers EXCEPT ![m] = @ \ {k}]
     /\ Visit(m, k, 1, "pending", owed[m])
     /\ UNCHANGED <<consumers, retryCount, audience, result>>

Next ==
  \/ \E c \in Subscribers : Subscribe(c)
  \/ \E m \in Messages :
        \/ Publish(m)
        \/ Redeliver(m)
        \/ \E k \in Passes : Succeed(m, k) \/ Fail(m, k)

\* Handlers settle, and timers fire.
Fairness ==
  \A m \in Messages : /\ WF_vars(Redeliver(m))
                      /\ \A k \in Passes : WF_vars(Succeed(m, k) \/ Fail(m, k))

Spec == Init /\ [][Next]_vars /\ Fairness

-----------------------------------------------------------------------------
TypeOK ==
  /\ consumers \in Seq(Subscribers)
  /\ status \in [Messages -> {"unpublished", "pending", "processing", "completed", "failed"}]
  /\ retryCount \in [Messages -> Passes]
  /\ at \in [Messages -> [Passes -> 0..Cardinality(Subscribers)]]
  /\ timers \in [Messages -> SUBSET (Passes \ {0})]
  /\ audience \in [Messages -> SUBSET Subscribers]
  /\ result \in [Messages -> [Subscribers -> {"none", "done", "failed"}]]
  /\ owed \in [Messages -> SUBSET Subscribers]

AtRest(m) ==
  /\ status[m] # "unpublished"
  /\ timers[m] = {}
  /\ \A k \in Passes : at[m][k] = 0

\* However its passes overlapped, a message that nothing works on any more was
\* given to everybody who was subscribed when it was published; it is pending
\* only if that was nobody, and a consumer that failed it at last, or the status
\* "failed", means that its retries were used up.  Nothing is said of a message
\* "completed": another consumer may have failed it.
RestingMessages ==
  \A m \in Messages : AtRest(m) =>
     /\ status[m] # "processing"
     /\ status[m] = "pending" => audience[m] = {}
     /\ \A c \in audience[m] : result[m][c] # "none"
     /\ (status[m] = "failed" \/ \E c \in Subscribers : result[m][c] = "failed")
           => retryCount[m] = MaxRetries

\* A consumer whose failure was granted a retry is called again, whatever the
\* other consumers and passes of that message do meanwhile.
Redelivered == \A m \in Messages : \A c \in Subscribers : (c \in owed[m]) ~> (c \notin owed[m])
=============================================================================
