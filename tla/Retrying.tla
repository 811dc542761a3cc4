------------------------------- MODULE Retrying -------------------------------
(***************************************************************************)
(* The loops that repeat a failed operation: RetryPolicy of packages/retry *)
(* ("policy"), retry() of packages/core as the retry middleware uses it    *)
(* ("core"), SmartRetryEngine of packages/resilience ("engine"), and       *)
(* HttpClient.request of packages/http ("client").  The operations of the  *)
(* last two run in one circuit breaker, as clients of one service do:      *)
(* createCircuitBreaker returns the breaker that already has the name.     *)
(* Delays and deadlines are counted in ticks; a timer may come late.       *)
(***************************************************************************)
EXTENDS Naturals

CONSTANTS
  Callers,
  MaxRetries,    \* retries; maxAttempts of a RetryPolicy is one more
  Delay,         \* delay, initialDelayMs
  MaxDelay,      \* maxDelay, maxDelayMs
  Deadline,      \* of a call of the engine
  Threshold, ResetTimeout  \* of the breaker

VARIABLES
  kind,   \* which loop each caller runs
  loops,
  left,   \* the ticks until the caller's deadline
  state, failures, coolDown, calls, openFor, forced  \* the breaker

breakerVars == <<state, failures, coolDown, calls, openFor, forced>>
retryVars == <<kind, loops, left, breakerVars>>

Cb == INSTANCE CircuitBreaker WITH Calls <- Callers, MaxForced <- 0

OptionsOK ==
  /\ Cb!ConfigOK /\ MaxRetries \in Nat /\ Deadline \in Nat
  /\ Delay \in Nat \ {0} /\ MaxDelay \in Nat \ {0} /\ Delay <= MaxDelay

Kinds == {"policy", "core", "engine", "client"}
UsesBreaker(c) == kind[c] \in {"engine", "client"}

\* What goes wrong, by code; an error of the framework ("nofault") has a status.
Error(nofault, code) == [nofault |-> nofault, code |-> code]
NoError == Error(FALSE, "none")
Unnamed == Error(FALSE, "no code")
Open == Error(FALSE, "CIRCUIT_BREAKER_OPEN")
ServerError == Error(TRUE, "SERVER_ERROR")
Unavailable == Error(TRUE, "SERVICE_UNAVAILABLE")

\* The errors of the operation itself.  For the client: aborted or no JSON, or
\* refused by the limiter, which is asked inside the breaker.
OperationErrors(c) ==
  IF kind[c] = "client" THEN {Unnamed, Error(TRUE, "RATE_LIMIT_EXCEEDED")}
  ELSE {Unnamed, Error(FALSE, "ECONNRESET"), Error(TRUE, "DEPENDENCY_ERROR")}

isRetryableError(error) ==
  /\ error.nofault
  /\ error.code \in {"SERVICE_UNAVAILABLE", "GATEWAY_TIMEOUT", "CIRCUIT_BREAKER_OPEN",
                     "TOO_MANY_REQUESTS", "DEPENDENCY_ERROR"}

\* The engine goes by code or status, a policy repeats by default whatever failed.
\* None of the errors that the client can meet passes isRetryableError.
Retryable(c, error) ==
  CASE kind[c] = "policy" -> TRUE
    [] kind[c] = "engine" -> error.code \in {"ECONNRESET", "DEPENDENCY_ERROR"}
    [] OTHER -> isRetryableError(error)

\* The delays each loop may compute: constant, linear or exponential up to the
\* maximum; a policy's jitter stays below the maximum, the engine's, which is half
\* the delay at most, goes on top of it.
Capped(d) == IF d > MaxDelay THEN MaxDelay ELSE d
exponential(attempt) == Capped(Delay * 2 ^ attempt)
PolicyDelays(attempt) == {Delay} \cup exponential(attempt) .. Capped(Delay * 2 ^ attempt + Delay)
EngineDelays == 0 .. MaxDelay + MaxDelay \div 2  \* the random strategy gives all of them
ClientDelays(attempt) == {Delay, Capped(Delay * (attempt + 1)), exponential(attempt)}

Delays(c, attempt) ==
  CASE kind[c] = "policy" -> PolicyDelays(attempt)
    [] kind[c] = "engine" -> EngineDelays
    [] OTHER -> ClientDelays(attempt)

Idle == [stage |-> "idle", attempt |-> 0, wait |-> 0, tries |-> 0, error |-> NoError]

Init ==
  /\ kind \in [Callers -> Kinds]
  /\ loops = [c \in Callers |-> Idle]
  /\ left = [c \in Callers |-> Deadline]
  /\ Cb!Init

To(c, stage, error) == loops' = [loops EXCEPT ![c].stage = stage, ![c].error = error]

\* The client asks its resolver once, before the loop.
Begin(c) ==
  /\ loops[c].stage = "idle"
  /\ \/ To(c, "ready", NoError)
     \/ kind[c] = "client" /\ To(c, "failed", Unavailable)
  /\ UNCHANGED <<kind, left, breakerVars>>

Start(c) ==
  loops' = [loops EXCEPT ![c].stage = "running", ![c].tries = @ + 1]

\* An attempt of a loop that knows of no breaker.
Attempt(c) ==
  /\ loops[c].stage = "ready" /\ ~UsesBreaker(c)
  /\ Start(c)
  /\ UNCHANGED <<kind, left, breakerVars>>

\* The client's attempt is a call of the breaker's execute().
ClientAttempt(c) ==
  /\ loops[c].stage = "ready" /\ kind[c] = "client"
  /\ \/ Cb!Execute(c) /\ Start(c)
     \/ Cb!Refuse(c) /\ To(c, "failed", Open)
  /\ UNCHANGED <<kind, left>>

\* The engine first looks at the deadline, then asks the breaker for its state
\* (which may half-open it).
EngineAttempt(c) ==
  /\ loops[c].stage = "ready" /\ kind[c] = "engine"
  /\ \/ left[c] = 0 /\ To(c, "stopped", loops[c].error) /\ UNCHANGED breakerVars
     \/ left[c] > 0 /\ Cb!Execute(c) /\ Start(c)
     \/ left[c] > 0 /\ Cb!Refuse(c) /\ To(c, "stopped", loops[c].error)
  /\ UNCHANGED <<kind, left>>

\* The breaker hears of the result first.
Report(c, ok) ==
  IF ~UsesBreaker(c) THEN UNCHANGED breakerVars
  ELSE IF ok THEN Cb!Succeed(c) ELSE Cb!Fail(c)

Succeed(c) ==
  /\ loops[c].stage = "running"
  /\ To(c, "succeeded", NoError)
  /\ Report(c, TRUE)
  /\ UNCHANGED <<kind, left>>

\* After an error: give up, or wait.  The engine gives up, too, if the delay would
\* reach the deadline.
RetryOrNot(c, error) ==
  IF loops[c].attempt = MaxRetries \/ ~Retryable(c, error)
  THEN To(c, "failed", error)
  ELSE \E delay \in Delays(c, loops[c].attempt) :
         IF kind[c] = "engine" /\ delay >= left[c]
         THEN To(c, "stopped", error)
         ELSE loops' = [loops EXCEPT ![c].stage = "waiting", ![c].attempt = @ + 1,
                                     ![c].wait = delay, ![c].error = error]

Fail(c, error) ==
  /\ loops[c].stage = "running" /\ error \in OperationErrors(c)
  /\ RetryOrNot(c, error)
  /\ Report(c, FALSE)
  /\ UNCHANGED <<kind, left>>

\* A 5xx answer counts as a success of the breaker.  The client throws it, unless
\* it has no retries at all, in which case it is the result.
AnswerServerError(c) ==
  /\ loops[c].stage = "running" /\ kind[c] = "client"
  /\ IF loops[c].attempt < MaxRetries THEN RetryOrNot(c, ServerError)
     ELSE To(c, "succeeded", NoError)
  /\ Report(c, TRUE)
  /\ UNCHANGED <<kind, left>>

Awake(c) ==
  /\ loops[c].stage = "waiting" /\ loops[c].wait = 0
  /\ To(c, "ready", loops[c].error)
  /\ UNCHANGED <<kind, left, breakerVars>>

\* The breaker of the name may have been opened or closed by hand, or by others.
ByHand ==
  /\ Cb!ForceClosed \/ Cb!GetState
  /\ UNCHANGED <<kind, loops, left>>

Down(n) == IF n = 0 THEN 0 ELSE n - 1
Tick ==
  /\ \E c \in Callers : left[c] > 0 \/ loops[c].wait > 0 \/ (state = "open" /\ coolDown > 0)
  /\ loops' = [c \in Callers |-> [loops[c] EXCEPT !.wait = Down(@)]]
  /\ left' = [c \in Callers |-> IF loops[c].stage = "idle" THEN left[c] ELSE Down(left[c])]
  /\ IF state = "open" /\ openFor < ResetTimeout THEN Cb!Tick ELSE UNCHANGED breakerVars
  /\ UNCHANGED kind

Next ==
  \/ \E c \in Callers :
       \/ Begin(c) \/ Attempt(c) \/ ClientAttempt(c) \/ EngineAttempt(c)
       \/ Succeed(c) \/ AnswerServerError(c) \/ Awake(c)
       \/ \E error \in OperationErrors(c) : Fail(c, error)
  \/ ByHand \/ Tick

Spec == Init /\ [][Next]_retryVars
-----------------------------------------------------------------------------
TypeOK ==
  /\ kind \in [Callers -> Kinds] /\ left \in [Callers -> 0 .. Deadline] /\ Cb!TypeOK
  /\ \A c \in Callers :
       /\ loops[c].stage \in {"idle", "ready", "running", "waiting", "succeeded", "failed", "stopped"}
       /\ loops[c].attempt \in 0 .. MaxRetries

\* A loop neither gives up early nor goes on too long: when it reports failure it
\* has made all its attempts, or had an error that it does not repeat; the engine
\* alone may stop, for a deadline or an open breaker.
GivesUpForAReason ==
  \A c \in Callers :
    /\ loops[c].tries <= MaxRetries + 1
    /\ loops[c].stage = "failed" /\ Retryable(c, loops[c].error) =>
         loops[c].tries = MaxRetries + 1 \/ loops[c].error = Unavailable
    /\ loops[c].stage = "stopped" =>
         /\ kind[c] = "engine"
         /\ loops[c].tries <= MaxRetries

\* While the engine waits its deadline is further away than the end of the delay,
\* whatever delays the strategy chose, unless its timer comes late; an operation
\* that starts has time left; and nobody's operation starts in an open breaker.
WaitsBeforeDeadline ==
  \A c \in Callers :
    kind[c] = "engine" /\ loops[c].stage = "waiting" /\ loops[c].wait > 0 =>
      loops[c].wait < left[c]

StartsInTime ==
  [][\A c \in Callers :
       loops'[c].tries > loops[c].tries /\ UsesBreaker(c) =>
         /\ kind[c] = "engine" => left[c] > 0
         /\ state' # "open"]_retryVars
=============================================================================
