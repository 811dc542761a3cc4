------------------------------ MODULE Lifetimes ------------------------------
(***************************************************************************)
(* What lives until it is shut down, one kind of it in each behaviour:     *)
(* the server of MetricsExporter or MetricsService (packages/metrics), the *)
(* provider of TracingService (packages/tracing), the client of RedisCache *)
(* (packages/cache) or MongoStore (packages/store), the pools of           *)
(* ConnectionPoolManager (packages/rpc), under one name; GrpcServer        *)
(* (packages/rpc); the services of ServiceMesh (packages/governance), which*)
(* live as long as they are heard of; and the metrics of a circuit breaker *)
(* (packages/breaker).                                                     *)
(*                                                                         *)
(* The first ones make something and remember the last one only.  What a   *)
(* call makes is named by the call.                                        *)
(*                                                                         *)
(* "overlapped", "wasShut", "untold", "replaced", "said" and "missed" are  *)
(* history variables.                                                      *)
(***************************************************************************)
EXTENDS Naturals

CONSTANTS Starts,       \* calls of start(), initialize(), connect() or getOrCreate()
          Calls,        \* functions that are traced, or calls of a gRPC server
          Meshed,       \* services of a mesh
          MaxSilence,   \* bound: the heartbeats that may fail to come before a service is found down
          Metrics,      \* names of metrics
          Nothing

OptionsOK == Starts \subseteq Nat /\ Nothing \notin Starts /\ MaxSilence \in Nat

Kinds == {"exporter", "metrics", "tracing", "client", "pools", "grpc", "mesh", "breaker"}

VARIABLES kind,
          starts,       \* where each call is; one of the pools may also be remove() or closeAll()
          alive,        \* what lives: servers that listen, providers, clients, open pools
          current,      \* server, provider, client or pool; Nothing if there is none
          ready,        \* isRunning, initialized or connected
          stopping,     \* how many stop(), shutdown() or close() calls wait
          crashed,      \* an error event that nobody listened to ended the process
          metrics,      \* metrics of MetricsService: whose registry each is in
          spans,        \* the calls with an open span, or in a gRPC server, and whose it is
          overlapped,   \* a start was pending when another began, or at a stop, or failed late
          wasShut,      \* shutdown() was called
          breaker,      \* state of the breaker of the one name, "none" if none is registered
          gauge,        \* its state as the metric has it, "unset" before the first event
          collecting,   \* collectors has the breaker
          told,         \* its changes of state are listened to
          heard,        \* its successes and failures are listened to
          untold,       \* it changed its state with nobody listening
          replaced,     \* it is not the first of its name
          status,       \* of the services of the mesh, "none" if it is not registered
          silence,      \* heartbeats that have not come
          said,         \* the status that it was given last
          missed        \* it was found silent since

lifetimeVars == <<kind, starts, alive, current, ready, stopping, crashed, metrics, spans, overlapped,
                  wasShut, breaker, gauge, collecting, told, heard, untold, replaced,
                  status, silence, said, missed>>
serviceVars == <<starts, alive, current, ready, stopping, crashed, metrics, spans, overlapped, wasShut>>
breakerVars == <<breaker, gauge, collecting, told, heard, untold, replaced>>
meshVars == <<status, silence, said, missed>>

Init ==
  /\ kind \in Kinds
  /\ starts = [c \in Starts |-> "idle"] /\ alive = {} /\ current = Nothing /\ ready = FALSE
  /\ stopping = 0 /\ crashed = FALSE /\ metrics = [m \in Metrics |-> Nothing]
  /\ spans = [c \in Calls |-> Nothing] /\ overlapped = FALSE /\ wasShut = FALSE
  /\ breaker = "none" /\ gauge = "unset" /\ collecting = FALSE
  /\ told = FALSE /\ heard = FALSE /\ untold = FALSE /\ replaced = FALSE
  /\ status = [m \in Meshed |-> "none"] /\ silence = [m \in Meshed |-> 0]
  /\ said = status /\ missed = {}

\* The next call: they are named in their order.
New(c) == starts[c] = "idle" /\ \A b \in Starts : b < c => starts[b] # "idle"
Pending == {c \in Starts : starts[c] \notin {"idle", "done", "failed"}}
-----------------------------------------------------------------------------
(* MetricsExporter *)

\* A server that is not yet bound does not make the exporter a running one.
start(c) ==
  /\ kind = "exporter" /\ New(c) /\ ~ready
  /\ starts' = [starts EXCEPT ![c] = "binding"] /\ current' = c
  /\ overlapped' = (overlapped \/ Pending # {} \/ stopping > 0)
  /\ UNCHANGED <<alive, ready, stopping, crashed, metrics, spans, wasShut>>

Bound(c) ==
  /\ kind = "exporter" /\ starts[c] = "binding" /\ alive = {}
  /\ starts' = [starts EXCEPT ![c] = "done"] /\ alive' = {c} /\ ready' = TRUE
  /\ UNCHANGED <<current, stopping, crashed, metrics, spans, overlapped, wasShut>>

\* The port is taken, by a server of this exporter or by a stranger; emit("error")
\* throws if nobody listens.
BindFails(c) ==
  /\ kind = "exporter" /\ starts[c] = "binding" /\ starts' = [starts EXCEPT ![c] = "failed"]
  /\ crashed' \in BOOLEAN
  /\ UNCHANGED <<alive, current, ready, stopping, metrics, spans, overlapped, wasShut>>

\* close() takes the port back at once, and calls back when the last answer is sent;
\* every caller then.
stop ==
  /\ kind = "exporter" /\ ready /\ current # Nothing /\ stopping' = 1
  /\ alive' = alive \ {current} /\ overlapped' = (overlapped \/ Pending # {})
  /\ UNCHANGED <<starts, current, ready, crashed, metrics, spans, wasShut>>

Stopped ==
  /\ kind = "exporter" /\ stopping > 0 /\ stopping' = 0 /\ ready' = FALSE /\ current' = Nothing
  /\ UNCHANGED <<starts, alive, crashed, metrics, spans, overlapped, wasShut>>
-----------------------------------------------------------------------------
(* MetricsService and TracingService *)

initialize(c) ==
  /\ kind \in {"metrics", "tracing"} /\ New(c) /\ ~ready
  /\ starts' = [starts EXCEPT ![c] = "importing"]
  /\ overlapped' = (overlapped \/ Pending # {} \/ stopping > 0)
  /\ UNCHANGED <<alive, current, ready, stopping, crashed, metrics, spans, wasShut>>

\* Nobody listens to the errors of the metrics' server.
initializePrometheus(c) ==
  /\ kind = "metrics" /\ starts[c] = "importing" /\ current' = c
  /\ IF alive = {} THEN alive' = {c} /\ UNCHANGED crashed ELSE crashed' = TRUE /\ UNCHANGED alive
  /\ starts' = [starts EXCEPT ![c] = "made"]
  /\ UNCHANGED <<ready, stopping, metrics, spans, overlapped, wasShut>>

\* The provider is there before its exporter is imported.
MakeProvider(c) ==
  /\ kind = "tracing" /\ starts[c] = "importing" /\ current' = c /\ alive' = alive \cup {c}
  /\ starts' = [starts EXCEPT ![c] = "made"]
  /\ UNCHANGED <<ready, stopping, crashed, metrics, spans, overlapped, wasShut>>

Initialized(c) ==
  /\ starts[c] = "made" /\ kind # "client"
  /\ starts' = [starts EXCEPT ![c] = "done"] /\ ready' = TRUE
  /\ UNCHANGED <<alive, current, stopping, crashed, metrics, spans, overlapped, wasShut>>

\* An import fails, of the exporter too; what was made stays.
InitializeFails(c) ==
  /\ kind # "client"
  /\ starts[c] = "importing" \/ (kind = "tracing" /\ starts[c] = "made")
  /\ starts' = [starts EXCEPT ![c] = "failed"]
  /\ overlapped' = (overlapped \/ starts[c] = "made")
  /\ UNCHANGED <<alive, current, ready, stopping, crashed, metrics, spans, wasShut>>

\* The server is closed, not forgotten; the next initialize() makes another registry.
ShutdownMetrics ==
  /\ kind = "metrics" /\ alive' = alive \ {current} /\ ready' = FALSE /\ wasShut' = TRUE
  /\ overlapped' = (overlapped \/ Pending # {})
  /\ UNCHANGED <<starts, current, stopping, crashed, metrics, spans>>

\* A provider is flushed before the service counts as one that is not initialized; if
\* that fails, it still counts as one that is.
ShutdownTracing ==
  /\ kind = "tracing" /\ current # Nothing /\ alive' = alive \ {current}
  /\ stopping < 2 /\ stopping' = stopping + 1
  /\ overlapped' = (overlapped \/ Pending # {} \/ stopping > 0)
  /\ UNCHANGED <<starts, current, ready, crashed, metrics, spans, wasShut>>

TracingStopped(flushed) ==
  /\ kind = "tracing" /\ stopping > 0 /\ stopping' = stopping - 1 /\ ready' = (ready /\ ~flushed)
  /\ UNCHANGED <<starts, alive, current, crashed, metrics, spans, overlapped, wasShut>>

\* And a gauge, histogram or summary.  Their classes come from prom-client, once that is
\* imported; a registry has each name once, the map of the service keeps the last.
createCounter(m) ==
  /\ kind = "metrics" /\ current # Nothing /\ metrics[m] # current
  /\ metrics' = [metrics EXCEPT ![m] = current]
  /\ UNCHANGED <<starts, alive, current, ready, stopping, crashed, spans, overlapped, wasShut>>

\* withSpan(), the middleware and the decorator: without a tracer the function is not
\* called at all; a span ends when it has settled, with the status it settled with.
startSpan(c) ==
  /\ kind = "tracing" /\ current # Nothing /\ spans[c] = Nothing
  /\ spans' = [spans EXCEPT ![c] = current]
  /\ UNCHANGED <<starts, alive, current, ready, stopping, crashed, metrics, overlapped, wasShut>>

EndSpan(c) ==
  /\ spans[c] # Nothing /\ spans' = [spans EXCEPT ![c] = Nothing]
  /\ UNCHANGED <<starts, alive, current, ready, stopping, crashed, metrics, overlapped, wasShut>>
-----------------------------------------------------------------------------
(* Clients: RedisCache and MongoStore *)

\* Nothing keeps a second connect() from leaving the client of the first one behind.
connect(c) ==
  /\ kind = "client" /\ New(c) /\ starts' = [starts EXCEPT ![c] = "importing"]
  /\ overlapped' = (overlapped \/ Pending # {} \/ stopping > 0 \/ alive # {})
  /\ UNCHANGED <<alive, current, ready, stopping, crashed, metrics, spans, wasShut>>

MakeClient(c) ==
  /\ kind = "client" /\ starts[c] = "importing" /\ current' = c /\ alive' = alive \cup {c}
  /\ starts' = [starts EXCEPT ![c] = "made"]
  /\ UNCHANGED <<ready, stopping, crashed, metrics, spans, overlapped, wasShut>>

\* Or the ping fails, or the import; a client that does not answer yet stays, and
\* goes on trying.
Connected(c, answers) ==
  /\ kind = "client" /\ starts[c] \in {"importing", "made"} /\ (answers => starts[c] = "made")
  /\ starts' = [starts EXCEPT ![c] = IF answers THEN "done" ELSE "failed"]
  /\ ready' = (ready \/ answers) /\ overlapped' = (overlapped \/ (~answers /\ starts[c] = "made"))
  /\ UNCHANGED <<alive, current, stopping, crashed, metrics, spans, wasShut>>

\* "connect" and "error" of any client: all set the one flag.
ClientEvent(up) ==
  /\ kind = "client" /\ alive # {} /\ ready' = up
  /\ UNCHANGED <<starts, alive, current, stopping, crashed, metrics, spans, overlapped, wasShut>>

\* The client is not forgotten, so that it can be closed again, which fails.
close ==
  /\ kind = "client" /\ current # Nothing /\ stopping < 2 /\ stopping' = stopping + 1
  /\ overlapped' = (overlapped \/ Pending # {} \/ stopping > 0)
  /\ UNCHANGED <<starts, alive, current, ready, crashed, metrics, spans, wasShut>>

Closed(quits) ==
  /\ kind = "client" /\ stopping > 0 /\ stopping' = stopping - 1 /\ (quits => current \in alive)
  /\ alive' = (IF quits THEN alive \ {current} ELSE alive) /\ ready' = (ready /\ ~quits)
  /\ UNCHANGED <<starts, current, crashed, metrics, spans, overlapped, wasShut>>
-----------------------------------------------------------------------------
(* ConnectionPoolManager *)

\* Here, names are used again when nothing has them.
Free(c) == c \notin alive \cup Pending \cup {current}

getOrCreate(c) ==
  /\ kind = "pools" /\ Free(c) /\ current = Nothing
  /\ starts' = [starts EXCEPT ![c] = "done"] /\ current' = c /\ alive' = alive \cup {c}
  /\ UNCHANGED <<ready, stopping, crashed, metrics, spans, overlapped, wasShut>>

\* remove() and closeAll() close the pool, which is still there until they go on.
remove(c, how) ==
  /\ kind = "pools" /\ Free(c) /\ current # Nothing
  /\ starts' = [starts EXCEPT ![c] = how] /\ alive' = alive \ {current}
  /\ overlapped' = (overlapped \/ Pending # {})
  /\ UNCHANGED <<current, ready, stopping, crashed, metrics, spans, wasShut>>

\* By the name, whatever has it by now.
Removed(c) ==
  /\ starts[c] = "removing" /\ starts' = [starts EXCEPT ![c] = "done"] /\ current' = Nothing
  /\ UNCHANGED <<alive, ready, stopping, crashed, metrics, spans, overlapped, wasShut>>

\* The loop also comes to a pool that was added meanwhile, and closes it too.
closeAll(c) ==
  /\ starts[c] = "closingAll"
  /\ IF current \in alive
     THEN alive' = alive \ {current} /\ UNCHANGED <<starts, current>>
     ELSE starts' = [starts EXCEPT ![c] = "done"] /\ current' = Nothing /\ UNCHANGED alive
  /\ UNCHANGED <<ready, stopping, crashed, metrics, spans, overlapped, wasShut>>
-----------------------------------------------------------------------------
(* GrpcServer *)

StartServer(c) ==
  /\ kind = "grpc" /\ New(c) /\ starts' = [starts EXCEPT ![c] = "binding"]
  /\ UNCHANGED <<alive, current, ready, stopping, crashed, metrics, spans, overlapped, wasShut>>

\* Unless it is, or the port is taken, which the callback of bindAsync() tells apart.
ServerBound(c, binds) ==
  /\ kind = "grpc" /\ starts[c] = "binding" /\ (binds => alive = {})
  /\ starts' = [starts EXCEPT ![c] = IF binds THEN "done" ELSE "failed"]
  /\ IF binds THEN alive' = {c} /\ current' = c ELSE UNCHANGED <<alive, current>>
  /\ UNCHANGED <<ready, stopping, crashed, metrics, spans, overlapped, wasShut>>

\* A call that comes while the server accepts them, and its end.
CallArrives(call) ==
  /\ kind = "grpc" /\ alive # {} /\ spans[call] = Nothing
  /\ spans' = [spans EXCEPT ![call] = current]
  /\ UNCHANGED <<starts, alive, current, ready, stopping, crashed, metrics, overlapped, wasShut>>

NoCalls == [call \in Calls |-> Nothing]

\* stop(): tryShutdown() accepts nothing more from now on; the force timer starts.
StopServer(c) ==
  /\ kind = "grpc" /\ New(c) /\ starts' = [starts EXCEPT ![c] = "draining"] /\ alive' = {}
  /\ UNCHANGED <<current, ready, stopping, crashed, metrics, spans, overlapped, wasShut>>

\* The last call has ended, and the timer is cleared; or the timer fires and kills what
\* there is, and the callback that comes then has nothing left to do.
ServerStopped(c, forced) ==
  /\ starts[c] = "draining" /\ (forced \/ spans = NoCalls)
  /\ starts' = [starts EXCEPT ![c] = "done"] /\ spans' = NoCalls
  /\ alive' = IF forced THEN {} ELSE alive
  /\ UNCHANGED <<current, ready, stopping, crashed, metrics, overlapped, wasShut>>
-----------------------------------------------------------------------------
(* ServiceMesh *)

Given(m, now) ==
  /\ status' = [status EXCEPT ![m] = now] /\ said' = [said EXCEPT ![m] = now]
  /\ silence' = [silence EXCEPT ![m] = 0] /\ missed' = missed \ {m}

registerService(m, now) == kind = "mesh" /\ Given(m, now)

deregisterService(m) == kind = "mesh" /\ status[m] # "none" /\ Given(m, "none")

updateServiceStatus(m, now) == status[m] # "none" /\ Given(m, now)

\* Which leaves the status as it is.
heartbeat(m) ==
  /\ status[m] # "none" /\ silence' = [silence EXCEPT ![m] = 0]
  /\ UNCHANGED <<status, said, missed>>

NoHeartbeat(m) ==
  /\ status[m] # "none" /\ silence[m] <= MaxSilence
  /\ silence' = [silence EXCEPT ![m] = @ + 1] /\ UNCHANGED <<status, said, missed>>

\* Only a check finds a service silent, and only a new status undoes that.
checkServiceHealth(m) ==
  /\ status[m] # "none" /\ silence[m] > MaxSilence
  /\ status' = [status EXCEPT ![m] = "DOWN"] /\ missed' = missed \cup {m}
  /\ UNCHANGED <<silence, said>>

Healthy(m) == status[m] = "UP"
-----------------------------------------------------------------------------
(* Circuit breaker metrics *)

\* A gauge that is listened to shows the state that the event leaves.
Shown == gauge' = breaker' /\ untold' = FALSE

\* success and failure, behind the change of state that they may bring.  Their listeners
\* stay for ever; they ask for the statistics, which may half-open the breaker.
Settles ==
  /\ breaker # "none" /\ breaker' \in
       CASE breaker = "half_open" -> {"closed", "open"}
         [] breaker = "closed" -> {"closed", "open"}
         [] breaker = "open" -> IF heard THEN {"open", "half_open"} ELSE {"open"}
  /\ IF heard THEN Shown ELSE UNCHANGED <<gauge, untold>>
  /\ UNCHANGED <<collecting, told, heard, replaced>>

\* stateChange, which getState() and those that force the breaker also bring about; the
\* one listener of three that is removed again.
StateChanges ==
  /\ breaker # "none"
  /\ breaker' \in {"open", "closed"} \cup (IF breaker = "open" THEN {"half_open"} ELSE {})
  /\ IF told THEN Shown ELSE UNCHANGED gauge /\ untold' = (untold \/ breaker' # breaker)
  /\ UNCHANGED <<collecting, told, heard, replaced>>

\* Its event is one that the metrics do not listen to.
ResetBreaker ==
  /\ breaker \in {"open", "half_open"} /\ breaker' = "closed" /\ untold' = TRUE
  /\ UNCHANGED <<gauge, collecting, told, heard, replaced>>

\* One that was removed from the registry goes on, and so do its listeners.
OldSettles ==
  /\ replaced /\ gauge' \in {"closed", "open", "half_open"}
  /\ UNCHANGED <<breaker, collecting, told, heard, untold, replaced>>

\* Nothing is shown before the first event; and a name that has its collector gets no
\* other, whichever breaker has the name.
Collect == IF collecting THEN UNCHANGED <<collecting, told, heard>>
           ELSE collecting' = TRUE /\ told' = TRUE /\ heard' = TRUE

\* createBreaker() of the module, with and without metrics: the registry's breaker of
\* that name, if there is one.
createBreaker(collected) ==
  /\ kind = "breaker" /\ breaker' = (IF breaker = "none" THEN "closed" ELSE breaker)
  /\ IF collected THEN Collect ELSE UNCHANGED <<collecting, told, heard>>
  /\ UNCHANGED <<gauge, untold, replaced>>

unregisterBreaker ==
  /\ collecting /\ collecting' = FALSE /\ told' = FALSE
  /\ UNCHANGED <<breaker, gauge, heard, untold, replaced>>

RemoveBreaker ==
  /\ breaker # "none" /\ breaker' = "none"
  /\ told' = FALSE /\ heard' = FALSE /\ replaced' = TRUE
  /\ UNCHANGED <<gauge, collecting, untold>>

ServiceStep ==
  \/ \E c \in Starts : \/ start(c) \/ Bound(c) \/ BindFails(c)
                       \/ initialize(c) \/ initializePrometheus(c) \/ MakeProvider(c)
                       \/ Initialized(c) \/ InitializeFails(c)
                       \/ connect(c) \/ MakeClient(c) \/ \E answers \in BOOLEAN : Connected(c, answers)
                       \/ getOrCreate(c) \/ \E how \in {"removing", "closingAll"} : remove(c, how)
                       \/ Removed(c) \/ closeAll(c)
                       \/ StartServer(c) \/ StopServer(c)
                       \/ \E how \in BOOLEAN : ServerBound(c, how) \/ ServerStopped(c, how)
  \/ stop \/ Stopped \/ ShutdownMetrics \/ ShutdownTracing \/ close
  \/ \E well \in BOOLEAN : TracingStopped(well) \/ ClientEvent(well) \/ Closed(well)
  \/ \E m \in Metrics : createCounter(m)
  \/ \E c \in Calls : startSpan(c) \/ CallArrives(c) \/ EndSpan(c)

BreakerStep ==
  \/ Settles \/ StateChanges \/ ResetBreaker \/ OldSettles \/ unregisterBreaker \/ RemoveBreaker
  \/ \E collected \in BOOLEAN : createBreaker(collected)

MeshStep ==
  \E m \in Meshed :
    \/ deregisterService(m) \/ heartbeat(m) \/ NoHeartbeat(m) \/ checkServiceHealth(m)
    \/ \E now \in {"UP", "DOWN", "MAINTENANCE"} : registerService(m, now) \/ updateServiceStatus(m, now)

Next ==
  \/ ~crashed /\ ServiceStep /\ UNCHANGED <<kind, breakerVars, meshVars>>
  \/ BreakerStep /\ UNCHANGED <<kind, serviceVars, meshVars>>
  \/ MeshStep /\ UNCHANGED <<kind, serviceVars, breakerVars>>

Spec == Init /\ [][Next]_lifetimeVars
-----------------------------------------------------------------------------
Made == Starts \cup {Nothing}

TypeOK ==
  /\ kind \in Kinds
  /\ starts \in [Starts -> {"idle", "binding", "importing", "made", "removing", "closingAll",
                            "draining", "done", "failed"}]
  /\ alive \subseteq Starts /\ current \in Made /\ ready \in BOOLEAN
  /\ stopping \in 0 .. 2 /\ crashed \in BOOLEAN
  /\ metrics \in [Metrics -> Made] /\ spans \in [Calls -> Made]
  /\ overlapped \in BOOLEAN /\ wasShut \in BOOLEAN
  /\ breaker \in {"none", "closed", "open", "half_open"}
  /\ gauge \in {"closed", "open", "half_open", "unset"} /\ collecting \in BOOLEAN
  /\ told \in BOOLEAN /\ heard \in BOOLEAN /\ untold \in BOOLEAN /\ replaced \in BOOLEAN
  /\ {status, said} \subseteq [Meshed -> {"none", "UP", "DOWN", "MAINTENANCE"}]
  /\ silence \in [Meshed -> 0 .. MaxSilence + 1] /\ missed \subseteq Meshed

\* Calls that do not overlap each other or a stop, or connect what is connected, and that
\* fail before anything is made if they fail, leave nothing running that is lost: what
\* lives is the current one, and nothing lives in what was stopped.  A pool that can be
\* asked for is open, unless it is being removed.
NothingLeaks ==
  /\ ~overlapped =>
       /\ alive \subseteq {current}
       /\ ready /\ stopping = 0 => current # Nothing
       /\ ready /\ kind = "client" /\ stopping = 0 => alive = {current}
       /\ ~ready /\ stopping = 0 /\ Pending = {} /\ kind \notin {"client", "pools", "grpc"} => alive = {}
  /\ kind = "pools" /\ current \notin alive \cup {Nothing} => Pending # {}

\* When the last stop() of a gRPC server has answered, by itself or by force, no call goes
\* on that a server which is still there did not take.
StoppedIsQuiet ==
  kind = "grpc" /\ spans # NoCalls => alive # {} \/ \E c \in Starts : starts[c] = "draining"

\* A service that the mesh offers as healthy was said to be up, and was not found silent
\* since, even if it is heard of again; and one that was under maintenance is so until
\* told otherwise, or found silent.
MeshAsTold ==
  \A m \in Meshed :
    /\ Healthy(m) => said[m] = "UP" /\ m \notin missed
    /\ status[m] = IF m \in missed THEN "DOWN" ELSE said[m]

\* A metric that is counted is in the registry that is served, until the service is shut
\* down and made anew.  That of a breaker shows its state, until reset() hides it, or it
\* is not the first of its name.
MetricsShown ==
  /\ ~wasShut /\ ~overlapped => \A m \in Metrics : metrics[m] \in {Nothing, current}
  /\ collecting /\ ~untold /\ ~replaced => gauge \in {"unset", breaker}
=============================================================================
