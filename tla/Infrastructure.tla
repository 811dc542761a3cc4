--------------------------- MODULE Infrastructure ---------------------------
(***************************************************************************)
(* The classes that a service is put together with, checked together: the  *)
(* message queue of packages/queue, the loggers, transports and buffering  *)
(* log writers of packages/log, and the graceful shutdown and the service  *)
(* container of packages/core.  They share nothing, so one of them is      *)
(* under test in each behaviour ("subject").                               *)
(***************************************************************************)
EXTENDS Naturals, FifoLemmas

CONSTANTS Messages, Subscribers, MaxRetries,                     \* message queue
          BufferSize, MaxEntries, Unserializable,                \* log writers
          Services, Nobody,                                      \* shutdown
          Callers, Keys, Needs, Nothing, MaxMade, MaxClears,     \* container
          Transports, MaxLogged, MaxKept, MaxSwaps,              \* loggers
          MaxLines, Big, MaxSize, FileCounts, BatchSize          \* log transports

VARIABLES subject,
          consumers, status, retryCount, at, timers, audience, result, owed,
          kind, buffer, inflight, stuck, closed, closing, ticking, accepted, written, late,
          handlers, listening, isShuttingDown, todo, current, armed, outcome, plan, called,
          providers, factories, singletons, resolving, stack, needs, made, clears,
          structured, transports, writers, shut, level, own, children, logged, tasks, kept, swaps,
          aggregated, astray, queried,
          transportKind, maxFiles, entered, lines, open, flushing, logFiles, exists, currentSize, jobs,
          posts, posted, rotations, born, deleted, early, disturbed

Mq == INSTANCE MessageQueue
Lw == INSTANCE LogWriter
Gs == INSTANCE GracefulShutdown
Sc == INSTANCE ServiceContainer
Lg == INSTANCE Logger WITH MaxEntries <- MaxLogged, MaxChanges <- MaxSwaps, changes <- swaps,
        given <- aggregated
Lt == INSTANCE LogTransports WITH MaxEntries <- MaxLines, kind <- transportKind, accepted <- entered,
        buffer <- lines, ticking <- flushing, files <- logFiles, hasty <- early

ASSUME RetriesAssumption == Mq!RetriesOK
ASSUME SizesAssumption == Lw!SizesOK
ASSUME NeedsAssumption == Sc!NeedsOK
ASSUME LoggersAssumption == Lg!OptionsOK
ASSUME TransportsAssumption == Lt!OptionsOK

messageVars == <<consumers, status, retryCount, at, timers, audience, result, owed>>
logVars == <<kind, buffer, inflight, stuck, closed, closing, ticking, accepted, written, late>>
shutdownVars ==
  <<handlers, listening, isShuttingDown, todo, current, armed, outcome, plan, called>>
containerVars == <<providers, factories, singletons, resolving, stack, needs, made, clears>>
loggerVars == <<structured, transports, writers, shut, level, own, children, logged, tasks, kept, swaps,
                aggregated, astray, queried>>
transportVars == <<transportKind, maxFiles, entered, lines, open, flushing, logFiles, exists, currentSize,
                   jobs, posts, posted, rotations, born, deleted, early, disturbed>>
vars ==
  <<subject, messageVars, logVars, shutdownVars, containerVars, loggerVars, transportVars>>

\* The options of the classes that are not under test do not matter.
Init ==
  /\ subject \in {"MessageQueue", "LogWriter", "GracefulShutdown", "ServiceContainer", "Logger",
                  "LogTransports"}
  /\ subject # "Logger" => structured = TRUE /\ transports = <<>>
  /\ subject # "LogTransports" => transportKind = "file"
  /\ Mq!Init /\ Lw!Init /\ Gs!Init /\ Sc!Init /\ Lg!Init /\ Lt!Init
  /\ subject # "LogWriter" => kind = "interval"
  /\ subject # "GracefulShutdown" => listening
  /\ subject # "ServiceContainer" => needs = CHOOSE f \in Needs : TRUE

MessageQueueStep ==
  /\ subject = "MessageQueue" /\ Mq!Next
  /\ UNCHANGED <<subject, logVars, shutdownVars, containerVars, loggerVars, transportVars>>

LogWriterStep ==
  /\ subject = "LogWriter" /\ Lw!Next
  /\ UNCHANGED <<subject, messageVars, shutdownVars, containerVars, loggerVars, transportVars>>

GracefulShutdownStep ==
  /\ subject = "GracefulShutdown" /\ Gs!Next
  /\ UNCHANGED <<subject, messageVars, logVars, containerVars, loggerVars, transportVars>>

ServiceContainerStep ==
  /\ subject = "ServiceContainer" /\ Sc!Next
  /\ UNCHANGED <<subject, messageVars, logVars, shutdownVars, loggerVars, transportVars>>

LoggerStep ==
  /\ subject = "Logger" /\ Lg!Next
  /\ UNCHANGED <<subject, messageVars, logVars, shutdownVars, containerVars, transportVars>>

TransportStep ==
  /\ subject = "LogTransports" /\ Lt!Next
  /\ UNCHANGED <<subject, messageVars, logVars, shutdownVars, containerVars, loggerVars>>

Next ==
  \/ MessageQueueStep \/ LogWriterStep \/ GracefulShutdownStep \/ ServiceContainerStep
  \/ LoggerStep \/ TransportStep

\* No fair action is enabled in an object that nobody has used, so the fairness
\* of each class only bears on the one under test.
Fairness == Mq!Fairness /\ Lw!Fairness /\ Gs!Fairness /\ Sc!Fairness

Spec == Init /\ [][Next]_vars /\ Fairness

-----------------------------------------------------------------------------
TypeOK ==
  /\ Mq!TypeOK /\ Lw!TypeOK /\ Gs!TypeOK /\ Sc!TypeOK /\ Lg!TypeOK /\ Lt!TypeOK

\* MessageQueue: a message at rest was given to everybody it was meant for.
\* LogWriter: what was accepted is kept, in order, also across a close().
NothingLost == Mq!RestingMessages /\ Lw!LogKept

\* GracefulShutdown: completion means that everything was stopped, in order.
\* ServiceContainer: a key refused as circular has a factory running.
ReportsAreTrue == Gs!CompleteMeansStopped /\ Sc!ResolvingIsRunning

\* Logger: an entry is handed to each of the transports once, and aggregators keep the
\* last ones.  LogTransports: what is accepted is kept, in files in the order of their
\* entries that outlive as many rotations as they should.
LogsKept ==
  Lg!HandedOnce /\ Lg!AggregatedInTurn /\ Lt!EntriesKept /\ Lt!RotationInOrder

\* ServiceContainer: "Circular dependency detected" is said of circles only.
RefusedIsCircular == Sc!RefusedIsCircular

\* ServiceContainer: a singleton is replaced by registration, or by a factory
\* that is older than it.
ReplacedByTheOldOnly == Sc!ReplacedByTheOldOnly

\* Retries are made, entries are written, a shutdown ends and gets are answered,
\* with the exceptions the code makes (LogWriter.EntriesWritten).
WorkCompletes == Mq!Redelivered /\ Lw!EntriesWritten /\ Gs!ShutdownEnds /\ Sc!GetsAnswered
-----------------------------------------------------------------------------
(* Instances for TLC: the factory of one service gets the other one, and   *)
(* either that needs nothing or they need each other.                      *)

CONSTANTS k1, k2

MCKeys == {k1, k2}
MCNeeds == {f \in [MCKeys -> {k1, k2, Nothing}] : f[k1] = k2 /\ f[k2] # k2}

\* No circle at all.
MCChain == {[k \in MCKeys |-> IF k = k1 THEN k2 ELSE Nothing]}
-----------------------------------------------------------------------------
(* The message queue of packages/queue.                                    *)

\* Some pass has yet to come to consumer c.
Ahead(m, c) ==
  \E k \in Mq!Passes :
    at[m][k] # 0 /\ \E i \in 1 .. Len(consumers) : at[m][k] <= i /\ consumers[i] = c

QueueTypes ==
  /\ consumers \in Seq(Subscribers) /\ IsInjective(consumers)
  /\ status \in [Messages -> {"unpublished", "pending", "processing", "completed", "failed"}]
  /\ retryCount \in [Messages -> Mq!Passes]
  /\ at \in [Messages -> [Mq!Passes -> 0 .. Len(consumers)]]
  /\ timers \in [Messages -> SUBSET (Mq!Passes \ {0})]
  /\ audience \in [Messages -> SUBSET Range(consumers)]
  /\ result \in [Messages -> [Subscribers -> {"none", "done", "failed"}]]
  /\ owed \in [Messages -> SUBSET Subscribers]

\* Whoever was not given the message, or failed it with a retry granted, has a pass
\* or a timer that will come; and the status says no less than what is going on.
MessageFits(m) ==
  /\ \A c \in Subscribers : result[m][c] # "none" => c \in Range(consumers)
  /\ \A c \in audience[m] : result[m][c] = "none" => Ahead(m, c)
  /\ \A c \in Subscribers : result[m][c] = "failed" =>
       retryCount[m] = MaxRetries \/ timers[m] # {} \/ Ahead(m, c)
  /\ status[m] = "processing" => \E k \in Mq!Passes : at[m][k] # 0
  /\ status[m] = "pending" => audience[m] = {} \/ timers[m] # {}
  /\ status[m] = "failed" => retryCount[m] = MaxRetries

QueueInv == QueueTypes /\ \A m \in Messages : MessageFits(m)

LEMMA QueueConstants ==
  /\ MaxRetries \in Nat /\ IsFiniteSet(Subscribers) /\ Cardinality(Subscribers) \in Nat
  /\ Mq!Cardinality(Subscribers) = Cardinality(Subscribers)
<1>1. /\ MaxRetries \in Nat /\ IsFiniteSet(Subscribers)
      /\ Mq!Cardinality(Subscribers) = Cardinality(Subscribers)
  BY RetriesAssumption DEF Mq!RetriesOK, Mq!IsFiniteSet, IsFiniteSet, Mq!Cardinality, Cardinality
<1> QED
  BY <1>1, FS_CardinalityType

LEMMA ConsumerRange ==
  ASSUME NEW q \in Seq(Subscribers)
  PROVE  /\ Mq!Range(q) = Range(q) /\ Range(q) \subseteq Subscribers
         /\ Len(q) \in Nat /\ DOMAIN q = 1 .. Len(q)
         /\ \A i \in 1 .. Len(q) : q[i] \in Subscribers /\ q[i] \in Range(q)
         /\ \A c \in Range(q) : \E i \in 1 .. Len(q) : q[i] = c
         /\ Len(q) = 0 => Range(q) = {}
<1>1. /\ Len(q) \in Nat /\ DOMAIN q = 1 .. Len(q) /\ \A i \in 1 .. Len(q) : q[i] \in Subscribers
  BY LenProperties, ElementOfSeq
<1> QED
  BY <1>1 DEF Mq!Range, Range

\* A pass goes on to consumer i, or ends.
LEMMA VisitFacts ==
  ASSUME QueueTypes, NEW m \in Messages, NEW k \in Mq!Passes, NEW i \in 1 .. (Len(consumers) + 1),
         NEW otherwise \in {"pending", "completed", "failed"}, NEW debts \in SUBSET Subscribers,
         Mq!Visit(m, k, i, otherwise, debts), consumers' = consumers
  PROVE  /\ at' \in [Messages -> [Mq!Passes -> 0 .. Len(consumers')]]
         /\ status' \in [Messages -> {"unpublished", "pending", "processing", "completed", "failed"}]
         /\ owed' \in [Messages -> SUBSET Subscribers]
         /\ \A n \in Messages : n # m => at'[n] = at[n] /\ status'[n] = status[n]
         /\ \A j \in Mq!Passes : j # k => at'[m][j] = at[m][j]
         /\ \/ i <= Len(consumers) /\ at'[m][k] = i /\ i # 0 /\ status'[m] = "processing"
            \/ i = Len(consumers) + 1 /\ at'[m][k] = 0 /\ status'[m] = otherwise
<1>1. Len(consumers) \in Nat /\ \A j \in 1 .. Len(consumers) : consumers[j] \in Subscribers
  BY ConsumerRange DEF QueueTypes
<1>2. i \in Nat /\ (i <= Len(consumers) \/ i = Len(consumers) + 1) /\ i # 0
  BY <1>1
<1>3. CASE i <= Len(consumers)
  <2>1. /\ at' = [at EXCEPT ![m][k] = i]
        /\ status' = [status EXCEPT ![m] = "processing"]
        /\ owed' = [owed EXCEPT ![m] = debts \ {consumers[i]}]
    BY <1>3 DEF Mq!Visit
  <2>2. i \in 0 .. Len(consumers)
    BY <1>1, <1>2, <1>3
  <2> QED
    BY <1>2, <1>3, <2>1, <2>2 DEF QueueTypes
<1>4. CASE ~(i <= Len(consumers))
  <2>1. /\ at' = [at EXCEPT ![m][k] = 0]
        /\ status' = [status EXCEPT ![m] = otherwise]
        /\ owed' = [owed EXCEPT ![m] = debts]
    BY <1>4 DEF Mq!Visit
  <2>2. 0 \in 0 .. Len(consumers) /\ i = Len(consumers) + 1
    BY <1>1, <1>2, <1>4
  <2> QED
    BY <2>1, <2>2 DEF QueueTypes
<1> QED
  BY <1>3, <1>4

\* Nobody is passed over who stands at i or after it, or whom another pass visits.
LEMMA StillAhead ==
  ASSUME QueueTypes, NEW m \in Messages, NEW k \in Mq!Passes, NEW i \in 1 .. (Len(consumers) + 1),
         consumers' = consumers,
         \A j \in Mq!Passes : j # k => at'[m][j] = at[m][j],
         \/ i <= Len(consumers) /\ at'[m][k] = i
         \/ i = Len(consumers) + 1 /\ at'[m][k] = 0
  PROVE  /\ \A p \in 1 .. Len(consumers) : i <= p => Ahead(m, consumers[p])'
         /\ \A c : Ahead(m, c) /\ (\A p \in 1 .. Len(consumers) : p < i /\ at[m][k] # 0 /\ at[m][k] <= p => consumers[p] # c)
               => Ahead(m, c)'
<1>1. Len(consumers) \in Nat
  BY ConsumerRange DEF QueueTypes
<1>2. ASSUME NEW p \in 1 .. Len(consumers), i <= p PROVE Ahead(m, consumers[p])'
  <2>1. i <= Len(consumers) /\ at'[m][k] = i /\ i # 0
    BY <1>1, <1>2
  <2> QED
    BY <1>2, <2>1 DEF Ahead
<1>3. ASSUME NEW c, Ahead(m, c),
             \A p \in 1 .. Len(consumers) : p < i /\ at[m][k] # 0 /\ at[m][k] <= p => consumers[p] # c
      PROVE  Ahead(m, c)'
  <2>1. PICK j \in Mq!Passes, p \in 1 .. Len(consumers) :
               at[m][j] # 0 /\ at[m][j] <= p /\ consumers[p] = c
    BY <1>3 DEF Ahead
  <2>2. CASE j # k
    BY <2>1, <2>2 DEF Ahead
  <2>3. CASE j = k
    <3>1. i <= p
      BY <1>1, <1>3, <2>1, <2>3
    <3> QED
      BY <1>2, <2>1, <3>1
  <2> QED
    BY <2>2, <2>3
<1> QED
  BY <1>2, <1>3

\* What happens to one message does not concern the others.
LEMMA OtherMessages ==
  ASSUME NEW n \in Messages, MessageFits(n), consumers' = consumers,
         at'[n] = at[n], status'[n] = status[n], retryCount'[n] = retryCount[n],
         timers'[n] = timers[n], audience'[n] = audience[n], result'[n] = result[n]
  PROVE  MessageFits(n)'
BY DEF MessageFits, Ahead

LEMMA QueueInit == Mq!Init => QueueInv
<1> SUFFICES ASSUME Mq!Init PROVE QueueInv
  OBVIOUS
<1>1. /\ consumers = <<>> /\ consumers \in Seq(Subscribers) /\ Len(consumers) = 0
      /\ IsInjective(consumers)
  BY EmptySeq DEF Mq!Init, IsInjective
<1>2. 0 \in Mq!Passes /\ 0 \in 0 .. 0
  BY QueueConstants DEF Mq!Passes
<1>3. QueueTypes
  BY <1>1, <1>2 DEF Mq!Init, QueueTypes
<1>4. \A m \in Messages : MessageFits(m)
  BY DEF Mq!Init, MessageFits
<1> QED
  BY <1>3, <1>4 DEF QueueInv

LEMMA SubscribeKeeps ==
  ASSUME QueueInv, NEW c \in Subscribers, Mq!Subscribe(c) PROVE QueueInv'
<1>1. /\ consumers \in Seq(Subscribers) /\ IsInjective(consumers) /\ c \notin Range(consumers)
      /\ consumers' = Append(consumers, c)
      /\ UNCHANGED <<status, retryCount, at, timers, audience, result, owed>>
  BY ConsumerRange DEF QueueInv, QueueTypes, Mq!Subscribe
<1>2. /\ consumers' \in Seq(Subscribers) /\ IsInjective(consumers')
      /\ Range(consumers') = Range(consumers) \union {c}
      /\ Len(consumers') = Len(consumers) + 1
      /\ \A i \in 1 .. Len(consumers) : consumers'[i] = consumers[i]
  BY <1>1, InjectiveAppend, RangeAppend, AppendProperties
<1>3. Len(consumers) \in Nat
  BY <1>1, LenProperties
<1>4. /\ \A i \in 1 .. Len(consumers) : i \in 1 .. Len(consumers')
      /\ 0 .. Len(consumers) \subseteq 0 .. Len(consumers')
  BY <1>2, <1>3
<1>5. QueueTypes'
  <2>1. at' \in [Messages -> [Mq!Passes -> 0 .. Len(consumers')]]
    <3>1. [Mq!Passes -> 0 .. Len(consumers)] \subseteq [Mq!Passes -> 0 .. Len(consumers')]
      BY <1>4
    <3> QED
      BY <1>1, <3>1 DEF QueueInv, QueueTypes
  <2>2. audience' \in [Messages -> SUBSET Range(consumers')]
    BY <1>1, <1>2 DEF QueueInv, QueueTypes
  <2> QED
    BY <1>1, <1>2, <2>1, <2>2 DEF QueueInv, QueueTypes
<1>6. \A m, d : Ahead(m, d) => Ahead(m, d)'
  BY <1>1, <1>2, <1>4 DEF Ahead
<1>7. \A m \in Messages : MessageFits(m)'
  BY <1>1, <1>2, <1>6 DEF QueueInv, MessageFits
<1> QED
  BY <1>5, <1>7 DEF QueueInv

LEMMA PublishKeeps ==
  ASSUME QueueInv, NEW m \in Messages, Mq!Publish(m) PROVE QueueInv'
<1>1. /\ audience' = [audience EXCEPT ![m] = Range(consumers)]
      /\ Mq!Visit(m, 0, 1, "pending", {})
      /\ UNCHANGED <<consumers, retryCount, timers, result>>
  BY ConsumerRange DEF Mq!Publish, QueueInv, QueueTypes
<1>2. 0 \in Mq!Passes /\ 1 \in 1 .. (Len(consumers) + 1) /\ Len(consumers) \in Nat
  BY QueueConstants, ConsumerRange DEF Mq!Passes, QueueInv, QueueTypes
<1>3. /\ at' \in [Messages -> [Mq!Passes -> 0 .. Len(consumers')]]
      /\ status' \in [Messages -> {"unpublished", "pending", "processing", "completed", "failed"}]
      /\ owed' \in [Messages -> SUBSET Subscribers]
      /\ \A n \in Messages : n # m => at'[n] = at[n] /\ status'[n] = status[n]
      /\ \A j \in Mq!Passes : j # 0 => at'[m][j] = at[m][j]
      /\ \/ 1 <= Len(consumers) /\ at'[m][0] = 1 /\ 1 # 0 /\ status'[m] = "processing"
         \/ 1 = Len(consumers) + 1 /\ at'[m][0] = 0 /\ status'[m] = "pending"
  BY <1>1, <1>2, VisitFacts DEF QueueInv
<1>4. QueueTypes'
  BY <1>1, <1>3 DEF QueueInv, QueueTypes
<1>5. /\ \A p \in 1 .. Len(consumers) : 1 <= p => Ahead(m, consumers[p])'
      /\ \A c : Ahead(m, c) => Ahead(m, c)'
  BY <1>1, <1>2, <1>3, StillAhead DEF QueueInv
<1>6. MessageFits(m)'
  <2>1. \A c \in Range(consumers) : Ahead(m, c)'
    <3> SUFFICES ASSUME NEW c \in Range(consumers) PROVE Ahead(m, c)'
      OBVIOUS
    <3>1. PICK p \in 1 .. Len(consumers) : consumers[p] = c
      BY ConsumerRange DEF QueueInv, QueueTypes
    <3>2. Ahead(m, consumers[p])'
      BY <1>2, <1>5
    <3> QED
      BY <1>1, <3>1, <3>2 DEF Ahead
  <2>2. audience'[m] = Range(consumers) /\ result'[m] = result[m]
        /\ retryCount'[m] = retryCount[m] /\ timers'[m] = timers[m]
    BY <1>1 DEF QueueInv, QueueTypes
  <2>3. Len(consumers) = 0 => Range(consumers) = {}
    BY ConsumerRange DEF QueueInv, QueueTypes
  <2>4. status'[m] = "pending" => audience'[m] = {}
    BY <1>2, <1>3, <2>2, <2>3
  <2>5. status'[m] = "processing" => \E k \in Mq!Passes : at'[m][k] # 0
    BY <1>2, <1>3
  <2>6. status'[m] # "failed"
    BY <1>3
  <2> QED
    BY <1>1, <1>5, <2>1, <2>2, <2>4, <2>5, <2>6 DEF QueueInv, MessageFits
<1>7. \A n \in Messages : n # m => MessageFits(n)'
  BY <1>1, <1>3, OtherMessages DEF QueueInv, QueueTypes
<1> QED
  BY <1>4, <1>6, <1>7 DEF QueueInv

LEMMA RedeliverKeeps ==
  ASSUME QueueInv, NEW m \in Messages, Mq!Redeliver(m) PROVE QueueInv'
<1>1. PICK k \in timers[m] :
             /\ timers' = [timers EXCEPT ![m] = @ \ {k}]
             /\ Mq!Visit(m, k, 1, "pending", owed[m])
             /\ UNCHANGED <<consumers, retryCount, audience, result>>
  BY DEF Mq!Redeliver
<1>2. /\ k \in Mq!Passes /\ 1 \in 1 .. (Len(consumers) + 1) /\ Len(consumers) \in Nat
      /\ owed[m] \in SUBSET Subscribers
  BY ConsumerRange DEF QueueInv, QueueTypes
<1>3. /\ at' \in [Messages -> [Mq!Passes -> 0 .. Len(consumers')]]
      /\ status' \in [Messages -> {"unpublished", "pending", "processing", "completed", "failed"}]
      /\ owed' \in [Messages -> SUBSET Subscribers]
      /\ \A n \in Messages : n # m => at'[n] = at[n] /\ status'[n] = status[n]
      /\ \A j \in Mq!Passes : j # k => at'[m][j] = at[m][j]
      /\ \/ 1 <= Len(consumers) /\ at'[m][k] = 1 /\ 1 # 0 /\ status'[m] = "processing"
         \/ 1 = Len(consumers) + 1 /\ at'[m][k] = 0 /\ status'[m] = "pending"
  BY <1>1, <1>2, VisitFacts DEF QueueInv
<1>4. QueueTypes'
  BY <1>1, <1>3 DEF QueueInv, QueueTypes
<1>5. \A p \in 1 .. Len(consumers) : 1 <= p => Ahead(m, consumers[p])'
  BY <1>1, <1>2, <1>3, StillAhead DEF QueueInv
<1>6. MessageFits(m)'
  <2>1. \A c \in Range(consumers) : Ahead(m, c)'
    <3> SUFFICES ASSUME NEW c \in Range(consumers) PROVE Ahead(m, c)'
      OBVIOUS
    <3>1. PICK p \in 1 .. Len(consumers) : consumers[p] = c
      BY ConsumerRange DEF QueueInv, QueueTypes
    <3>2. Ahead(m, consumers[p])'
      BY <1>2, <1>5
    <3> QED
      BY <1>1, <3>1, <3>2 DEF Ahead
  <2>2. audience[m] \subseteq Range(consumers)
    BY DEF QueueInv, QueueTypes
  <2>3. Len(consumers) = 0 => Range(consumers) = {}
    BY ConsumerRange DEF QueueInv, QueueTypes
  <2>4. status'[m] = "pending" => audience'[m] = {}
    BY <1>1, <1>2, <1>3, <2>2, <2>3
  <2>5. status'[m] = "processing" => \E j \in Mq!Passes : at'[m][j] # 0
    BY <1>2, <1>3
  <2>6. status'[m] # "failed"
    BY <1>3
  <2> QED
    BY <1>1, <2>1, <2>2, <2>4, <2>5, <2>6 DEF QueueInv, MessageFits
<1>7. \A n \in Messages : n # m => MessageFits(n)'
  BY <1>1, <1>3, OtherMessages DEF QueueInv, QueueTypes
<1> QED
  BY <1>4, <1>6, <1>7 DEF QueueInv

\* A handler settles and the pass goes on: only what is said of the consumer that it
\* visited is new.
LEMMA SettleKeeps ==
  ASSUME QueueInv, NEW m \in Messages, NEW k \in Mq!Passes, at[m][k] # 0,
         NEW how \in {"done", "failed"}, NEW otherwise \in {"pending", "completed", "failed"},
         NEW debts \in SUBSET Subscribers,
         result' = [result EXCEPT ![m][consumers[at[m][k]]] = how],
         Mq!Visit(m, k, at[m][k] + 1, otherwise, debts),
         UNCHANGED <<consumers, audience>>,
         retryCount' \in [Messages -> Mq!Passes], timers' \in [Messages -> SUBSET (Mq!Passes \ {0})],
         \A n \in Messages : n # m => retryCount'[n] = retryCount[n] /\ timers'[n] = timers[n],
         retryCount[m] = MaxRetries => retryCount'[m] = MaxRetries,
         timers[m] # {} => timers'[m] # {},
         how = "failed" => retryCount'[m] = MaxRetries \/ timers'[m] # {},
         otherwise = "pending" => timers'[m] # {},
         otherwise = "failed" => retryCount'[m] = MaxRetries
  PROVE  QueueInv'
<1> DEFINE p == at[m][k]
           visited == consumers[p]
<1>1. /\ Len(consumers) \in Nat /\ p \in 1 .. Len(consumers) /\ p + 1 \in 1 .. (Len(consumers) + 1)
      /\ visited \in Subscribers /\ visited \in Range(consumers)
  <2>1. Len(consumers) \in Nat /\ p \in 0 .. Len(consumers) /\ p # 0
    BY ConsumerRange DEF QueueInv, QueueTypes
  <2>2. p \in 1 .. Len(consumers) /\ p + 1 \in 1 .. (Len(consumers) + 1)
    BY <2>1
  <2> QED
    BY <2>1, <2>2, ConsumerRange DEF QueueInv, QueueTypes
<1>2. /\ at' \in [Messages -> [Mq!Passes -> 0 .. Len(consumers')]]
      /\ status' \in [Messages -> {"unpublished", "pending", "processing", "completed", "failed"}]
      /\ owed' \in [Messages -> SUBSET Subscribers]
      /\ \A n \in Messages : n # m => at'[n] = at[n] /\ status'[n] = status[n]
      /\ \A j \in Mq!Passes : j # k => at'[m][j] = at[m][j]
      /\ \/ p + 1 <= Len(consumers) /\ at'[m][k] = p + 1 /\ p + 1 # 0 /\ status'[m] = "processing"
         \/ p + 1 = Len(consumers) + 1 /\ at'[m][k] = 0 /\ status'[m] = otherwise
  BY <1>1, VisitFacts DEF QueueInv
<1>3. /\ result' \in [Messages -> [Subscribers -> {"none", "done", "failed"}]]
      /\ \A n \in Messages : n # m => result'[n] = result[n]
      /\ \A c \in Subscribers : c # visited => result'[m][c] = result[m][c]
      /\ result'[m][visited] = how
  BY <1>1 DEF QueueInv, QueueTypes
<1>4. QueueTypes'
  BY <1>2, <1>3 DEF QueueInv, QueueTypes
<1>5. \A c : c # visited /\ Ahead(m, c) => Ahead(m, c)'
  <2>1. ASSUME NEW c, c # visited, NEW q \in 1 .. Len(consumers), q < p + 1, p <= q
        PROVE  consumers[q] # c
    <3>1. q = p
      BY <1>1, <2>1
    <3> QED
      BY <2>1, <3>1
  <2> HIDE DEF visited
  <2>2. \A c : Ahead(m, c) /\ (\A q \in 1 .. Len(consumers) : q < p + 1 /\ at[m][k] # 0 /\ at[m][k] <= q => consumers[q] # c)
               => Ahead(m, c)'
    BY <1>1, <1>2, StillAhead DEF QueueInv
  <2> QED
    BY <2>1, <2>2
<1> HIDE DEF visited, p
<1>6. MessageFits(m)'
  <2>1. MessageFits(m) /\ audience[m] \subseteq Subscribers
    BY ConsumerRange DEF QueueInv, QueueTypes
  <2>2. status'[m] = "processing" => \E j \in Mq!Passes : at'[m][j] # 0
    BY <1>2
  <2>3. status'[m] = "pending" => timers'[m] # {}
    BY <1>2
  <2>4. status'[m] = "failed" => retryCount'[m] = MaxRetries
    BY <1>2
  <2>5. \A c \in Subscribers : result'[m][c] # "none" => c \in Range(consumers)
    BY <1>1, <1>3, <2>1 DEF MessageFits
  <2>6. \A c \in audience[m] : result'[m][c] = "none" => Ahead(m, c)'
    BY <1>3, <1>5, <2>1 DEF MessageFits
  <2>7. \A c \in Subscribers : result'[m][c] = "failed" =>
          retryCount'[m] = MaxRetries \/ timers'[m] # {} \/ Ahead(m, c)'
    BY <1>3, <1>5, <2>1 DEF MessageFits
  <2> QED
    BY <2>2, <2>3, <2>4, <2>5, <2>6, <2>7 DEF MessageFits
<1>7. \A n \in Messages : n # m => MessageFits(n)'
  BY <1>2, <1>3, OtherMessages DEF QueueInv
<1> QED
  BY <1>4, <1>6, <1>7 DEF QueueInv

LEMMA QueueNext == QueueInv /\ [Mq!Next]_(Mq!vars) => QueueInv'
<1> SUFFICES ASSUME QueueInv, [Mq!Next]_(Mq!vars) PROVE QueueInv'
  OBVIOUS
<1>1. ASSUME NEW m \in Messages, NEW k \in Mq!Passes, Mq!Succeed(m, k) PROVE QueueInv'
  <2>1. retryCount' = retryCount /\ timers' = timers /\ owed[m] \in SUBSET Subscribers
    BY <1>1 DEF Mq!Succeed, QueueInv, QueueTypes
  <2> QED
    BY <1>1, <2>1, SettleKeeps DEF Mq!Succeed, QueueInv, QueueTypes
<1>2. ASSUME NEW m \in Messages, NEW k \in Mq!Passes, Mq!Fail(m, k) PROVE QueueInv'
  <2> DEFINE c == consumers[at[m][k]]
  <2>1. /\ at[m][k] # 0 /\ result' = [result EXCEPT ![m][c] = "failed"]
        /\ UNCHANGED <<consumers, audience>>
    BY <1>2 DEF Mq!Fail, Mq!FailedThen
  <2>2. /\ MaxRetries \in Nat /\ retryCount[m] \in 0 .. MaxRetries /\ c \in Subscribers
        /\ owed[m] \union {c} \in SUBSET Subscribers /\ owed[m] \in SUBSET Subscribers
    <3>1. Len(consumers) \in Nat /\ at[m][k] \in 0 .. Len(consumers)
      BY ConsumerRange DEF QueueInv, QueueTypes
    <3>2. at[m][k] \in 1 .. Len(consumers)
      BY <2>1, <3>1
    <3>3. c \in Subscribers
      BY <3>2, ConsumerRange DEF QueueInv, QueueTypes
    <3> QED
      BY <3>3, QueueConstants DEF QueueInv, QueueTypes, Mq!Passes
  <2>3. CASE Mq!Granted(m)
    <3>1. /\ retryCount' = [retryCount EXCEPT ![m] = @ + 1]
          /\ timers' = [timers EXCEPT ![m] = @ \union {retryCount[m] + 1}]
          /\ Mq!Visit(m, k, at[m][k] + 1, "pending", owed[m] \union {c})
      BY <1>2, <2>3 DEF Mq!Fail, Mq!FailedThen
    <3>2. retryCount[m] + 1 \in Mq!Passes \ {0} /\ retryCount[m] # MaxRetries
      BY <2>2, <2>3 DEF Mq!Granted, Mq!Passes
    <3>3. /\ retryCount' \in [Messages -> Mq!Passes] /\ timers' \in [Messages -> SUBSET (Mq!Passes \ {0})]
          /\ \A n \in Messages : n # m => retryCount'[n] = retryCount[n] /\ timers'[n] = timers[n]
          /\ timers'[m] # {}
      BY <3>1, <3>2 DEF QueueInv, QueueTypes
    <3> QED
      BY <2>1, <2>2, <3>1, <3>2, <3>3, SettleKeeps
  <2>4. CASE ~Mq!Granted(m)
    <3>1. /\ UNCHANGED <<retryCount, timers>>
          /\ Mq!Visit(m, k, at[m][k] + 1, "failed", owed[m])
      BY <1>2, <2>4 DEF Mq!Fail, Mq!FailedThen
    <3>2. retryCount[m] = MaxRetries
      BY <2>2, <2>4 DEF Mq!Granted
    <3> QED
      BY <2>1, <2>2, <3>1, <3>2, SettleKeeps DEF QueueInv, QueueTypes
  <2> QED
    BY <2>3, <2>4
<1>3. CASE UNCHANGED Mq!vars
  <2>1. UNCHANGED <<consumers, status, retryCount, at, timers, audience, result, owed>>
    BY <1>3 DEF Mq!vars
  <2>2. QueueTypes'
    BY <2>1 DEF QueueInv, QueueTypes
  <2>3. \A m \in Messages : MessageFits(m)'
    BY <2>1, OtherMessages DEF QueueInv
  <2> QED
    BY <2>2, <2>3 DEF QueueInv
<1> QED
  BY <1>1, <1>2, <1>3, SubscribeKeeps, PublishKeeps, RedeliverKeeps DEF Mq!Next

LEMMA QueueHolds == QueueInv => Mq!TypeOK /\ Mq!RestingMessages
<1> SUFFICES ASSUME QueueInv PROVE Mq!TypeOK /\ Mq!RestingMessages
  OBVIOUS
<1>1. Mq!TypeOK
  <2>1. Len(consumers) <= Cardinality(Subscribers)
    <3>1. IsFiniteSet(Subscribers) /\ Range(consumers) \subseteq Subscribers /\ Cardinality(Range(consumers)) = Len(consumers)
      BY LineCardinality, QueueConstants DEF QueueInv, QueueTypes
    <3> QED
      BY <3>1, FS_Subset
  <2>2. Len(consumers) \in Nat /\ Range(consumers) \subseteq Subscribers
    BY ConsumerRange DEF QueueInv, QueueTypes
  <2>3. 0 .. Len(consumers) \subseteq 0 .. Mq!Cardinality(Subscribers)
    BY <2>1, <2>2, QueueConstants
  <2>4. at \in [Messages -> [Mq!Passes -> 0 .. Mq!Cardinality(Subscribers)]]
    <3>1. [Mq!Passes -> 0 .. Len(consumers)] \subseteq [Mq!Passes -> 0 .. Mq!Cardinality(Subscribers)]
      BY <2>3
    <3> QED
      BY <3>1 DEF QueueInv, QueueTypes
  <2>5. audience \in [Messages -> SUBSET Subscribers]
    BY <2>2 DEF QueueInv, QueueTypes
  <2> QED
    BY <2>4, <2>5 DEF QueueInv, QueueTypes, Mq!TypeOK
<1>2. ASSUME NEW m \in Messages, Mq!AtRest(m)
      PROVE  /\ status[m] # "processing"
             /\ status[m] = "pending" => audience[m] = {}
             /\ \A c \in audience[m] : result[m][c] # "none"
             /\ (status[m] = "failed" \/ \E c \in Subscribers : result[m][c] = "failed")
                   => retryCount[m] = MaxRetries
  <2>1. timers[m] = {} /\ \A k \in Mq!Passes : at[m][k] = 0
    BY <1>2 DEF Mq!AtRest
  <2>2. \A c : ~Ahead(m, c)
    BY <2>1 DEF Ahead
  <2> QED
    BY <2>1, <2>2 DEF QueueInv, MessageFits
<1> QED
  BY <1>1, <1>2 DEF Mq!RestingMessages

-----------------------------------------------------------------------------
(* The log writers of packages/log.                                        *)

Entries == 1 .. MaxEntries

\* The interval is only ever stopped by a close(), which takes the buffer with it
\* unless a flush is in flight; only the HTTP writer gets stuck.
WriterInv ==
  /\ buffer \in Seq(Entries) /\ inflight \in Seq(Entries) /\ written \in Seq(Entries)
  /\ accepted \in 0 .. MaxEntries
  /\ written \o inflight \o buffer = [i \in 1 .. accepted |-> i]
  /\ closing => inflight # <<>> /\ buffer = <<>>

WriterFlags ==
  /\ kind \in {"interval", "http"}
  /\ stuck \in BOOLEAN /\ closed \in BOOLEAN /\ closing \in BOOLEAN
  /\ ticking \in BOOLEAN /\ late \in BOOLEAN
  /\ closing => closed
  /\ kind = "interval" => ~stuck /\ (ticking \/ closed)
  /\ Lw!ClosedEmpty

LEMMA WriterConstants == BufferSize \in Nat \ {0} /\ MaxEntries \in Nat
BY SizesAssumption DEF Lw!SizesOK

\* A flush, begun or not, keeps the entries in their order.
LEMMA FlushKeeps ==
  ASSUME NEW entries \in Seq(Entries), inflight \in Seq(Entries), written \in Seq(Entries),
         Lw!StartFlush(entries)
  PROVE  /\ buffer' \in Seq(Entries) /\ inflight' \in Seq(Entries)
         /\ written \o inflight' \o buffer' = written \o inflight \o entries
<1>1. CASE Lw!Starts(entries)
  <2>1. inflight = <<>> /\ inflight' = entries /\ buffer' = <<>>
    BY <1>1 DEF Lw!StartFlush, Lw!Starts, Lw!CanFlush
  <2>2. written \o entries \in Seq(Entries)
    BY ConcatProperties
  <2>3. written \o entries \o <<>> = written \o entries /\ written \o <<>> = written
    BY <2>2, ConcatEmptySeq
  <2> QED
    BY <2>1, <2>3, EmptySeq
<1>2. CASE ~Lw!Starts(entries)
  BY <1>2 DEF Lw!StartFlush
<1> QED
  BY <1>1, <1>2

LEMMA WriterInit == Lw!Init => WriterInv /\ WriterFlags
<1> SUFFICES ASSUME Lw!Init PROVE WriterInv /\ WriterFlags
  OBVIOUS
<1>1. WriterInv
  <2>1. written \o inflight \o buffer = <<>>
    BY ConcatEmptySeq, EmptySeq DEF Lw!Init
  <2>2. [i \in 1 .. accepted |-> i] = <<>>
    BY DEF Lw!Init
  <2> QED
    BY <2>1, <2>2, EmptySeq, WriterConstants DEF Lw!Init, WriterInv
<1>2. WriterFlags
  BY DEF Lw!Init, WriterFlags, Lw!ClosedEmpty
<1> QED
  BY <1>1, <1>2

LEMMA WriterNext == WriterInv /\ WriterFlags /\ [Lw!Next]_(Lw!vars) => WriterInv' /\ WriterFlags'
<1> SUFFICES ASSUME WriterInv, WriterFlags, [Lw!Next]_(Lw!vars) PROVE WriterInv' /\ WriterFlags'
  OBVIOUS
<1>1. /\ buffer \in Seq(Entries) /\ inflight \in Seq(Entries) /\ written \in Seq(Entries)
      /\ accepted \in 0 .. MaxEntries /\ MaxEntries \in Nat
      /\ written \o inflight \o buffer = [i \in 1 .. accepted |-> i]
  BY WriterConstants DEF WriterInv
<1>2. CASE Lw!Write
  <2> DEFINE entries == Append(buffer, accepted + 1)
  <2>1. entries \in Seq(Entries) /\ entries # <<>> /\ accepted + 1 \in Entries
        /\ accepted' = accepted + 1 /\ accepted' \in 0 .. MaxEntries
    <3>1. accepted + 1 \in Entries /\ accepted' = accepted + 1 /\ accepted' \in 0 .. MaxEntries
      BY <1>1, <1>2 DEF Lw!Write, Entries
    <3> QED
      BY <1>1, <3>1, AppendProperties
  <2>2. written \o inflight \o entries = [i \in 1 .. accepted' |-> i]
    <3> DEFINE all == written \o inflight \o buffer
    <3>1. entries = buffer \o <<accepted + 1>> /\ <<accepted + 1>> \in Seq(Entries)
      BY <1>1, <2>1, AppendIsConcat
    <3>2. written \o inflight \in Seq(Entries) /\ all \in Seq(Entries)
      BY <1>1, ConcatProperties
    <3> HIDE DEF entries
    <3>3. written \o inflight \o entries = Append(all, accepted + 1)
      <4>1. Append(all, accepted + 1) = all \o <<accepted + 1>>
        BY <2>1, <3>2, AppendIsConcat
      <4>2. (written \o inflight \o buffer) \o <<accepted + 1>>
              = (written \o inflight) \o (buffer \o <<accepted + 1>>)
        <5>1. /\ written \o inflight \in Seq(Entries) /\ buffer \in Seq(Entries)
              /\ <<accepted + 1>> \in Seq(Entries)
          BY <1>1, <3>1, <3>2
        <5> QED
          BY ONLY <5>1, ConcatAssociative, SMTT(30)
      <4> QED
        BY <3>1, <4>1, <4>2
    <3>4. Len(all) = accepted /\ \A i \in 1 .. accepted : all[i] = i
      BY <1>1, <3>2, LenProperties
    <3> HIDE DEF all
    <3>5. /\ Append(all, accepted + 1) \in Seq(Entries)
          /\ Len(Append(all, accepted + 1)) = accepted + 1
          /\ \A i \in 1 .. accepted : Append(all, accepted + 1)[i] = i
          /\ Append(all, accepted + 1)[accepted + 1] = accepted + 1
      <4>1. /\ Append(all, accepted + 1) \in Seq(Entries)
            /\ Len(Append(all, accepted + 1)) = Len(all) + 1
            /\ \A i \in 1 .. Len(all) : Append(all, accepted + 1)[i] = all[i]
            /\ Append(all, accepted + 1)[Len(all) + 1] = accepted + 1
        BY <2>1, <3>2, AppendProperties
      <4> QED
        BY <3>4, <4>1
    <3>6. \A i \in 1 .. accepted + 1 : Append(all, accepted + 1)[i] = i
      BY <1>1, <3>5
    <3>7. Append(all, accepted + 1) = [i \in 1 .. accepted + 1 |-> i]
      BY <3>5, <3>6, LenProperties
    <3> QED
      BY <2>1, <3>3, <3>7
  <2>3. written' = written /\ ~closed /\ ~closing
    BY <1>2 DEF Lw!Write, WriterFlags
  <2> HIDE DEF entries
  <2>4. CASE Len(entries) >= BufferSize
    <3>1. Lw!StartFlush(entries)
      BY <1>2, <2>4 DEF Lw!Write, entries
    <3>2. WriterInv'
      BY <1>1, <1>2, <2>1, <2>2, <2>3, <3>1, FlushKeeps DEF WriterInv, Lw!Write
    <3>3. WriterFlags'
      BY <1>2, <2>3, <3>1 DEF WriterFlags, Lw!Write, Lw!StartFlush, Lw!Throws, Lw!ClosedEmpty
    <3> QED
      BY <3>2, <3>3
  <2>5. CASE ~(Len(entries) >= BufferSize)
    <3>1. buffer' = entries /\ UNCHANGED <<inflight, stuck>>
      BY <1>2, <2>5 DEF Lw!Write, entries
    <3>2. WriterInv'
      BY <1>1, <1>2, <2>1, <2>2, <2>3, <3>1 DEF WriterInv, Lw!Write
    <3>3. WriterFlags'
      BY <1>2, <2>3, <3>1 DEF WriterFlags, Lw!Write, Lw!ClosedEmpty
    <3> QED
      BY <3>2, <3>3
  <2> QED
    BY <2>4, <2>5
<1>3. ASSUME Lw!Tick \/ Lw!Flush PROVE WriterInv' /\ WriterFlags'
  <2>1. /\ Lw!CanFlush(buffer) /\ Lw!StartFlush(buffer)
        /\ UNCHANGED <<kind, closed, closing, ticking, accepted, written, late>>
    BY <1>3 DEF Lw!Tick, Lw!Flush
  <2>2. ~closing
    BY <2>1 DEF WriterInv, Lw!CanFlush
  <2>3. WriterInv'
    BY <1>1, <2>1, <2>2, FlushKeeps DEF WriterInv
  <2>4. WriterFlags'
    BY <2>1, <2>2 DEF WriterFlags, Lw!StartFlush, Lw!CanFlush, Lw!Throws, Lw!ClosedEmpty
  <2> QED
    BY <2>3, <2>4
<1>4. CASE Lw!WriteSucceeds
  <2>1. WriterInv'
    <3>1. written \o inflight \in Seq(Entries)
      BY <1>1, ConcatProperties
    <3>2. written \o inflight \o <<>> = written \o inflight
      BY <3>1, ConcatEmptySeq
    <3> QED
      BY <1>1, <1>4, <3>1, <3>2, EmptySeq DEF WriterInv, Lw!WriteSucceeds
  <2>2. WriterFlags'
    BY <1>4 DEF WriterInv, WriterFlags, Lw!WriteSucceeds, Lw!ClosedEmpty
  <2> QED
    BY <2>1, <2>2
<1>5. CASE Lw!WriteFails
  <2>1. WriterInv'
    <3>1. inflight \o buffer \in Seq(Entries)
      BY <1>1, ConcatProperties
    <3>2. written \o <<>> \o (inflight \o buffer) = written \o inflight \o buffer
      <4>1. written \o <<>> = written
        BY <1>1, ConcatEmptySeq
      <4>2. (written \o inflight) \o buffer = written \o (inflight \o buffer)
        <5>1. buffer \in Seq(Entries) /\ inflight \in Seq(Entries) /\ written \in Seq(Entries)
          BY <1>1
        <5> QED
          BY ONLY <5>1, ConcatAssociative
      <4> QED
        BY <4>1, <4>2
    <3> QED
      BY <1>1, <1>5, <3>1, <3>2, EmptySeq DEF WriterInv, Lw!WriteFails
  <2>2. WriterFlags'
    BY <1>5 DEF WriterFlags, Lw!WriteFails, Lw!ClosedEmpty
  <2> QED
    BY <2>1, <2>2
<1>6. CASE Lw!Close
  <2>1. Lw!StartFlush(buffer)
    BY <1>6 DEF Lw!Close
  <2>2. WriterInv'
    <3>1. closing' => inflight' # <<>> /\ buffer' = <<>>
      BY <1>6 DEF WriterInv, WriterFlags, Lw!Close, Lw!StartFlush, Lw!Starts, Lw!CanFlush
    <3> QED
      BY <1>1, <1>6, <2>1, <3>1, FlushKeeps DEF WriterInv, Lw!Close
  <2>3. WriterFlags'
    BY <1>6 DEF WriterFlags, Lw!Close, Lw!StartFlush, Lw!Starts, Lw!CanFlush, Lw!Throws, Lw!ClosedEmpty
  <2> QED
    BY <2>2, <2>3
<1>7. CASE UNCHANGED Lw!vars
  BY <1>7 DEF WriterInv, WriterFlags, Lw!vars, Lw!ClosedEmpty
<1> QED
  BY <1>2, <1>3, <1>4, <1>5, <1>6, <1>7 DEF Lw!Next

LEMMA WriterHolds == WriterInv /\ WriterFlags => Lw!TypeOK /\ Lw!LogKept
BY DEF WriterInv, WriterFlags, Entries, Lw!TypeOK, Lw!LogKept, Lw!InOrder

-----------------------------------------------------------------------------
(* The graceful shutdown of packages/core.                                 *)

\* Before it begins there is no plan; a loop that was left to itself keeps to it.
ShutdownInv ==
  /\ handlers \in Seq(Services) /\ todo \in Seq(Services)
  /\ plan \in Seq(Services) /\ called \in Seq(Services)
  /\ current \in Services \union {Nobody}
  /\ outcome \in Gs!Outcomes
  /\ ~isShuttingDown =>
       /\ todo = <<>> /\ plan = <<>> /\ called = <<>>
       /\ current = Nobody /\ outcome = "none"
  /\ Gs!CompleteMeansStopped

ShutdownFlags ==
  /\ listening \in BOOLEAN /\ isShuttingDown \in BOOLEAN /\ armed \in BOOLEAN
  /\ armed => isShuttingDown

\* What comes first in a line is a prefix of it, and what comes last is its last.
LEMMA FirstPart ==
  ASSUME NEW S, NEW s \in Seq(S), NEW t \in Seq(S) PROVE Gs!IsPrefix(s, s \o t)
<1>1. /\ s \o t \in Seq(S) /\ Len(s \o t) = Len(s) + Len(t) /\ Len(s) \in Nat /\ Len(t) \in Nat
  BY ConcatProperties, LenProperties
<1>2. CASE Len(s) = 0
  <2>1. SubSeq(s, 1, Len(s)) = <<>> /\ SubSeq(s \o t, 1, Len(s)) = <<>>
    BY <1>2, SubSeqEmpty
  <2> QED
    BY <1>1, <1>2, <2>1 DEF Gs!IsPrefix
<1>3. CASE Len(s) # 0
  <2>1. 1 \in 1 .. Len(s) /\ Len(s) \in 1 .. Len(s)
    BY <1>1, <1>3
  <2>2. SubSeq(s \o t, 1, Len(s)) = SubSeq(s, 1, Len(s))
    BY <2>1, SubSeqOfConcat1
  <2> QED
    BY <1>1, <2>2 DEF Gs!IsPrefix
<1> QED
  BY <1>2, <1>3

LEMMA LastAppended ==
  ASSUME NEW S, NEW s \in Seq(S), NEW e \in S PROVE Gs!Last(Append(s, e)) = e
BY AppendProperties DEF Gs!Last

LEMMA HeadFirst ==
  ASSUME NEW S, NEW s \in Seq(S), s # <<>>
  PROVE  /\ Head(s) \in S /\ Tail(s) \in Seq(S)
         /\ \A r \in Seq(S) : Append(r, Head(s)) \o Tail(s) = r \o s
<1>1. Head(s) \in S /\ Tail(s) \in Seq(S)
  BY HeadTailProperties
<1>2. Len(s) \in Nat \ {0} /\ 1 \in 1 .. Len(s) /\ Len(s) \in 1 .. Len(s)
  BY EmptySeq
<1>3. s = <<Head(s)>> \o Tail(s)
  <2>1. SubSeq(s, 1, Len(s)) = <<s[1]>> \o SubSeq(s, 1 + 1, Len(s))
    BY <1>2, SubSeqRecursiveFirst
  <2>2. SubSeq(s, 1, Len(s)) = s /\ Tail(s) = SubSeq(s, 2, Len(s)) /\ Head(s) = s[1]
    BY SubSeqFull, TailIsSubSeq
  <2> QED
    BY <2>1, <2>2
<1>4. ASSUME NEW r \in Seq(S) PROVE Append(r, Head(s)) \o Tail(s) = r \o s
  <2>1. Append(r, Head(s)) = r \o <<Head(s)>> /\ <<Head(s)>> \in Seq(S)
    BY <1>1, AppendIsConcat
  <2>2. (r \o <<Head(s)>>) \o Tail(s) = r \o (<<Head(s)>> \o Tail(s))
    BY ONLY r \in Seq(S), <<Head(s)>> \in Seq(S), Tail(s) \in Seq(S), <1>1, <2>1, ConcatAssociative
  <2> QED
    BY <1>3, <2>1, <2>2
<1> QED
  BY <1>1, <1>4

\* executeShutdown() goes on with what is left of the plan.
LEMMA StopKeeps ==
  ASSUME NEW left \in Seq(Services), Gs!StopNext(left),
         plan' \in Seq(Services), called \in Seq(Services), called \o left = plan',
         outcome # "complete", outcome \in Gs!Outcomes, outcome = "threw" => ~listening
  PROVE  /\ todo' \in Seq(Services) /\ called' \in Seq(Services)
         /\ current' \in Services \union {Nobody}
         /\ outcome' \in Gs!Outcomes
         /\ Gs!IsPrefix(called', plan')
         /\ outcome' = "complete" => called' = plan' /\ current' = Nobody
         /\ current' # Nobody => called' \o todo' = plan' /\ current' = Gs!Last(called')
         /\ outcome' = "threw" => ~listening
<1>1. CASE left = <<>>
  <2>1. current' = Nobody /\ todo' = <<>> /\ called' = called
    BY <1>1 DEF Gs!StopNext
  <2>2. called \o <<>> = called
    BY ConcatEmptySeq
  <2>3. outcome' \in {outcome, "complete"} /\ outcome' \in Gs!Outcomes
    BY <1>1 DEF Gs!StopNext, Gs!Settle, Gs!Outcomes
  <2>4. called' = plan'
    BY <1>1, <2>1, <2>2
  <2>5. Gs!IsPrefix(called', plan')
    BY <1>1, <2>1, FirstPart
  <2> QED
    BY <2>1, <2>3, <2>4, <2>5, EmptySeq
<1>2. CASE left # <<>>
  <2>1. current' = Head(left) /\ todo' = Tail(left) /\ called' = Append(called, Head(left))
        /\ outcome' = outcome
    BY <1>2 DEF Gs!StopNext
  <2>2. /\ Head(left) \in Services /\ Tail(left) \in Seq(Services)
        /\ Append(called, Head(left)) \o Tail(left) = called \o left
    BY <1>2, HeadFirst
  <2>3. called' \in Seq(Services) /\ Gs!Last(called') = Head(left)
    BY <2>1, <2>2, AppendProperties, LastAppended
  <2>4. Gs!IsPrefix(called', plan')
    BY <2>1, <2>2, <2>3, FirstPart
  <2> QED
    BY <2>1, <2>2, <2>3, <2>4
<1> QED
  BY <1>1, <1>2

LEMMA ShutdownInit == Gs!Init => ShutdownInv /\ ShutdownFlags
<1> SUFFICES ASSUME Gs!Init PROVE ShutdownInv /\ ShutdownFlags
  OBVIOUS
<1>1. Gs!IsPrefix(<<>>, <<>>)
  BY EmptySeq DEF Gs!IsPrefix
<1> QED
  BY <1>1, EmptySeq DEF Gs!Init, ShutdownInv, ShutdownFlags, Gs!Outcomes, Gs!CompleteMeansStopped

LEMMA ShutdownFlagSteps == ShutdownFlags /\ [Gs!Next]_(Gs!vars) => ShutdownFlags'
<1> SUFFICES ASSUME ShutdownFlags, [Gs!Next]_(Gs!vars) PROVE ShutdownFlags'
  OBVIOUS
<1>1. \/ UNCHANGED <<listening, isShuttingDown, armed>>
      \/ listening' = listening /\ isShuttingDown' = TRUE /\ armed' = TRUE
      \/ UNCHANGED <<listening, isShuttingDown>> /\ armed' = FALSE
  <2>1. ASSUME NEW s \in Services, Gs!RegisterService(s) \/ Gs!RemoveService(s)
        PROVE  UNCHANGED <<listening, isShuttingDown, armed>>
    BY <2>1 DEF Gs!RegisterService, Gs!RemoveService
  <2>2. ASSUME Gs!Clear \/ Gs!HandlerReturns \/ Gs!HandlerFails \/ UNCHANGED Gs!vars
        PROVE  UNCHANGED <<listening, isShuttingDown, armed>>
    BY <2>2 DEF Gs!Clear, Gs!HandlerReturns, Gs!HandlerFails, Gs!vars
  <2> QED
    BY <2>1, <2>2 DEF Gs!Next, Gs!Shutdown, Gs!Timeout
<1>2. CASE UNCHANGED <<listening, isShuttingDown, armed>>
  BY <1>2 DEF ShutdownFlags
<1>3. CASE listening' = listening /\ isShuttingDown' = TRUE /\ armed' = TRUE
  BY <1>3, Zenon DEF ShutdownFlags
<1>4. CASE UNCHANGED <<listening, isShuttingDown>> /\ armed' = FALSE
  BY <1>4 DEF ShutdownFlags
<1> QED
  BY <1>1, <1>2, <1>3, <1>4

\* Only the list of handlers changes.
LEMMA HandlersChange ==
  ASSUME ShutdownInv, handlers' \in Seq(Services),
         UNCHANGED <<listening, isShuttingDown, todo, current, outcome, plan, called>>
  PROVE  ShutdownInv'
BY DEF ShutdownInv, Gs!CompleteMeansStopped

LEMMA ShutdownNext == ShutdownInv /\ ShutdownFlags /\ [Gs!Next]_(Gs!vars) => ShutdownInv'
<1> SUFFICES ASSUME ShutdownInv, ShutdownFlags, [Gs!Next]_(Gs!vars) PROVE ShutdownInv'
  OBVIOUS
<1>1. /\ handlers \in Seq(Services) /\ todo \in Seq(Services)
      /\ plan \in Seq(Services) /\ called \in Seq(Services)
      /\ outcome \in Gs!Outcomes
      /\ outcome = "complete" => called = plan /\ current = Nobody
      /\ current # Nobody => called \o todo = plan /\ current = Gs!Last(called)
      /\ outcome = "threw" => ~listening
  BY DEF ShutdownInv, Gs!CompleteMeansStopped
<1>2. ASSUME NEW s \in Services, Gs!RegisterService(s) PROVE ShutdownInv'
  <2>1. handlers' \in Seq(Services)
    BY <1>1, <1>2, AppendProperties DEF Gs!RegisterService
  <2> QED
    BY <1>2, <2>1, HandlersChange DEF Gs!RegisterService
<1>3. ASSUME NEW s \in Services, Gs!RemoveService(s) PROVE ShutdownInv'
  <2>1. PICK i \in DOMAIN handlers : handlers' = Gs!RemoveAt(handlers, i)
    BY <1>3 DEF Gs!RemoveService
  <2>2. i \in 1 .. Len(handlers) /\ Len(handlers) \in Nat
    BY <1>1, <2>1, LenProperties
  <2>3. \A j \in 1 .. Len(handlers) : handlers[j] \in Services
    BY <1>1, ElementOfSeq
  <2>4. /\ SubSeq(handlers, 1, i - 1) \in Seq(Services)
        /\ SubSeq(handlers, i + 1, Len(handlers)) \in Seq(Services)
    <3>1. /\ \A j \in 1 .. i - 1 : handlers[j] \in Services
          /\ \A j \in i + 1 .. Len(handlers) : handlers[j] \in Services
      BY <2>2, <2>3
    <3>2. i - 1 \in Int /\ i + 1 \in Int /\ Len(handlers) \in Int /\ 1 \in Int
      BY <2>2
    <3> QED
      BY <3>1, <3>2, SubSeqProperties
  <2>5. handlers' \in Seq(Services)
    BY <2>1, <2>4, ConcatProperties DEF Gs!RemoveAt
  <2> QED
    BY <1>3, <2>5, HandlersChange DEF Gs!RemoveService
<1>4. CASE Gs!Clear
  BY <1>4, HandlersChange, EmptySeq DEF Gs!Clear
<1>5. CASE Gs!Shutdown
  <2> DEFINE reversed == Gs!Reverse(handlers)
  <2>1. reversed \in Seq(Services)
    <3>1. Len(handlers) \in Nat /\ \A i \in 1 .. Len(handlers) : handlers[i] \in Services
      BY <1>1, LenProperties, ElementOfSeq
    <3>2. \A i \in 1 .. Len(handlers) : (Len(handlers) - i) + 1 \in 1 .. Len(handlers)
      BY <3>1
    <3>3. \A i \in 1 .. Len(handlers) : handlers[(Len(handlers) - i) + 1] \in Services
      BY <3>1, <3>2
    <3> QED
      BY <3>1, <3>3, IsASeq DEF Gs!Reverse
  <2>2. called = <<>> /\ outcome = "none" /\ <<>> \o reversed = reversed
    BY <1>5, <2>1, ConcatEmptySeq DEF Gs!Shutdown, ShutdownInv
  <2> HIDE DEF reversed
  <2>3. plan' = reversed /\ Gs!StopNext(reversed) /\ isShuttingDown' /\ UNCHANGED <<handlers, listening>>
    BY <1>5 DEF Gs!Shutdown, reversed
  <2>4. called \o reversed = plan'
    BY <2>2, <2>3
  <2> QED
    BY <1>1, <2>1, <2>2, <2>3, <2>4, StopKeeps DEF ShutdownInv, Gs!CompleteMeansStopped
<1>6. ASSUME current # Nobody, Gs!StopNext(todo),
             UNCHANGED <<handlers, listening, isShuttingDown, armed, plan>>
      PROVE  ShutdownInv'
  <2>1. isShuttingDown /\ outcome # "complete" /\ called \o todo = plan
    BY <1>1, <1>6 DEF ShutdownInv
  <2> QED
    BY <1>1, <1>6, <2>1, StopKeeps DEF ShutdownInv, Gs!CompleteMeansStopped
<1>7. CASE Gs!HandlerReturns
  BY <1>6, <1>7 DEF Gs!HandlerReturns
<1>8. CASE Gs!HandlerFails
  <2>1. CASE listening
    BY <1>6, <1>8, <2>1 DEF Gs!HandlerFails
  <2>2. CASE ~listening
    <3>1. /\ current # Nobody /\ current' = Nobody /\ todo' = <<>>
          /\ UNCHANGED <<called, handlers, listening, isShuttingDown, armed, plan>>
      BY <1>8, <2>2 DEF Gs!HandlerFails
    <3>2. outcome' \in {outcome, "threw"} /\ isShuttingDown /\ outcome # "complete"
      BY <1>1, <1>8, <2>2, <3>1 DEF Gs!HandlerFails, Gs!Settle, ShutdownInv
    <3> QED
      BY <1>1, <2>2, <3>1, <3>2, EmptySeq DEF ShutdownInv, Gs!CompleteMeansStopped, Gs!Outcomes
  <2> QED
    BY <2>1, <2>2
<1>9. CASE Gs!Timeout
  <2>1. UNCHANGED <<handlers, listening, isShuttingDown, todo, current, plan, called>>
    BY <1>9 DEF Gs!Timeout
  <2>2. outcome' = outcome \/ (outcome = "none" /\ outcome' = IF listening THEN "exited" ELSE "threw")
    BY <1>9 DEF Gs!Timeout, Gs!Settle
  <2>3. isShuttingDown
    BY <1>9 DEF Gs!Timeout, ShutdownFlags
  <2> QED
    BY <2>1, <2>2, <2>3 DEF ShutdownInv, Gs!CompleteMeansStopped, Gs!Outcomes
<1>10. CASE UNCHANGED Gs!vars
  BY <1>10 DEF Gs!vars, ShutdownInv, Gs!CompleteMeansStopped
<1> QED
  BY <1>2, <1>3, <1>4, <1>5, <1>7, <1>8, <1>9, <1>10 DEF Gs!Next

LEMMA ShutdownHolds == ShutdownInv /\ ShutdownFlags => Gs!TypeOK /\ Gs!CompleteMeansStopped
BY DEF ShutdownInv, ShutdownFlags, Gs!TypeOK

-----------------------------------------------------------------------------
(* The service container of packages/core.                                 *)

\* A factory that waits needs something.
Waits(f) == f.ready \/ needs[f.key] # Nothing

\* A factory was called before the value and the instance of its key were there:
\* it is only called while there are none.
Older(f, single, given, n) ==
  /\ f.began <= n
  /\ single[f.key] # 0 => f.began < single[f.key]
  /\ given[f.key] # 0 => f.began < given[f.key]

OnceIn(frames) == \A a, b \in 1 .. Len(frames) : frames[a].key = frames[b].key => a = b

ContainerTypes ==
  /\ providers \in [Keys -> 0 .. MaxMade] /\ singletons \in [Keys -> 0 .. MaxMade]
  /\ factories \in SUBSET Keys /\ resolving \in SUBSET Keys
  /\ stack \in [Callers -> Seq(Sc!Frames)]
  /\ needs \in Needs
  /\ made \in 0 .. MaxMade /\ clears \in 0 .. MaxClears

FramesFit ==
  \A c \in Callers : \A i \in 1 .. Len(stack[c]) :
    Waits(stack[c][i]) /\ Older(stack[c][i], singletons, providers, made)

RunningFits ==
  /\ \A k \in resolving : \E c \in Callers : k \in Sc!KeysOf(stack[c])
  /\ clears = 0 =>
       /\ \A c \in Callers : Sc!KeysOf(stack[c]) \subseteq resolving /\ OnceIn(stack[c])
       /\ \A c, d \in Callers : c # d => Sc!KeysOf(stack[c]) \cap Sc!KeysOf(stack[d]) = {}

ContainerInv == ContainerTypes /\ FramesFit /\ RunningFits

LEMMA ContainerConstants ==
  Needs \subseteq [Keys -> Keys \union {Nothing}] /\ MaxMade \in Nat /\ MaxClears \in Nat
BY NeedsAssumption DEF Sc!NeedsOK

LEMMA StackFacts ==
  ASSUME NEW frames \in Seq(Sc!Frames)
  PROVE  /\ Len(frames) \in Nat /\ DOMAIN frames = 1 .. Len(frames)
         /\ \A i \in 1 .. Len(frames) : frames[i] \in Sc!Frames
         /\ Sc!KeysOf(frames) = {frames[i].key : i \in 1 .. Len(frames)}
         /\ Sc!KeysOf(frames) \subseteq Keys
<1>1. /\ Len(frames) \in Nat /\ DOMAIN frames = 1 .. Len(frames)
      /\ \A i \in 1 .. Len(frames) : frames[i] \in Sc!Frames
  BY LenProperties, ElementOfSeq
<1>2. \A i \in 1 .. Len(frames) : frames[i].key \in Keys
  BY <1>1 DEF Sc!Frames
<1> QED
  BY <1>1, <1>2 DEF Sc!KeysOf

\* An answer changes nothing but that the innermost factory has what it needs.
LEMMA AnsweredStack ==
  ASSUME NEW frames \in Seq(Sc!Frames), NEW new, new = Sc!Answered(frames)
  PROVE  /\ new \in Seq(Sc!Frames) /\ Len(new) = Len(frames)
         /\ \A i \in 1 .. Len(frames) :
              /\ new[i].key = frames[i].key /\ new[i].began = frames[i].began
              /\ new[i].ready = TRUE \/ new[i].ready = frames[i].ready
         /\ Sc!KeysOf(new) = Sc!KeysOf(frames)
         /\ OnceIn(frames) => OnceIn(new)
<1>1. CASE frames = <<>>
  BY <1>1 DEF Sc!Answered
<1>2. CASE frames # <<>>
  <2> DEFINE n == Len(frames)
             f == [frames[n] EXCEPT !.ready = TRUE]
  <2>1. n \in Nat \ {0} /\ n \in 1 .. n
    BY <1>2, EmptySeq
  <2>2. frames[n] \in Sc!Frames
    BY <2>1, StackFacts
  <2>3. /\ f \in Sc!Frames /\ f.key = frames[n].key /\ f.began = frames[n].began
        /\ f.ready = TRUE
    BY <2>2 DEF Sc!Frames
  <2>4. new = [frames EXCEPT ![n] = f]
    BY <1>2 DEF Sc!Answered
  <2> HIDE DEF f
  <2>5. /\ new \in Seq(Sc!Frames) /\ Len(new) = n
        /\ \A i \in 1 .. n : new[i] = IF i = n THEN f ELSE frames[i]
    BY <2>1, <2>3, <2>4, ExceptSeq
  <2>6. \A i \in 1 .. n :
          /\ new[i].key = frames[i].key /\ new[i].began = frames[i].began
          /\ new[i].ready = TRUE \/ new[i].ready = frames[i].ready
    <3> SUFFICES ASSUME NEW i \in 1 .. n
                 PROVE  /\ new[i].key = frames[i].key /\ new[i].began = frames[i].began
                        /\ new[i].ready = TRUE \/ new[i].ready = frames[i].ready
      OBVIOUS
    <3>1. CASE i = n
      <4>1. new[i] = f
        BY <2>5, <3>1
      <4> QED
        BY <2>3, <3>1, <4>1
    <3>2. CASE i # n
      <4>1. new[i] = frames[i]
        BY <2>5, <3>2
      <4> QED
        BY <4>1
    <3> QED
      BY <3>1, <3>2
  <2>7. Sc!KeysOf(new) = Sc!KeysOf(frames)
    <3>1. Sc!KeysOf(new) = {new[i].key : i \in 1 .. n}
      BY <2>5, StackFacts
    <3>2. Sc!KeysOf(frames) = {frames[i].key : i \in 1 .. n}
      BY StackFacts
    <3> QED
      BY <2>6, <3>1, <3>2
  <2>8. OnceIn(frames) => OnceIn(new)
    BY <2>5, <2>6 DEF OnceIn
  <2> QED
    BY <2>5, <2>6, <2>7, <2>8
<1> QED
  BY <1>1, <1>2

\* The innermost factory has returned.
LEMMA FrontStack ==
  ASSUME NEW frames \in Seq(Sc!Frames), frames # <<>>, NEW new, new = Sc!Front(frames)
  PROVE  /\ Len(frames) \in 1 .. Len(frames) /\ Sc!Last(frames) = frames[Len(frames)]
         /\ Sc!Last(frames) \in Sc!Frames /\ Sc!Last(frames).key \in Sc!KeysOf(frames)
         /\ new \in Seq(Sc!Frames) /\ Len(new) = Len(frames) - 1
         /\ \A i \in 1 .. Len(new) : i \in 1 .. Len(frames) /\ new[i] = frames[i]
         /\ Sc!KeysOf(frames) = Sc!KeysOf(new) \union {Sc!Last(frames).key}
         /\ OnceIn(frames) => OnceIn(new) /\ Sc!Last(frames).key \notin Sc!KeysOf(new)
<1> DEFINE n == Len(frames)
<1>1. n \in Nat \ {0} /\ n \in 1 .. n
  BY EmptySeq
<1>2. \A i \in 1 .. n : frames[i] \in Sc!Frames
  BY StackFacts
<1>3. Sc!Last(frames) = frames[n] /\ Sc!Last(frames) \in Sc!Frames
  BY <1>1, <1>2 DEF Sc!Last
<1>4. new \in Seq(Sc!Frames) /\ Len(new) = n - 1 /\ \A i \in 1 .. n - 1 : new[i] = frames[i]
  <2>1. \A i \in 1 .. n - 1 : frames[i] \in Sc!Frames
    BY <1>1, <1>2
  <2>2. /\ new \in Seq(Sc!Frames)
        /\ Len(new) = IF 1 <= n - 1 THEN (n - 1) - 1 + 1 ELSE 0
        /\ \A i \in 1 .. (n - 1) - 1 + 1 : new[i] = frames[1 + i - 1]
    BY <1>1, <2>1, SubSeqProperties DEF Sc!Front
  <2>3. Len(new) = n - 1
    <3>1. Len(new) = IF 1 <= n - 1 THEN (n - 1) - 1 + 1 ELSE 0
      BY <2>2
    <3> HIDE DEF n
    <3> QED
      BY <1>1, <3>1
  <2>4. \A i \in 1 .. n - 1 : i \in 1 .. (n - 1) - 1 + 1 /\ 1 + i - 1 = i
    BY <1>1
  <2> QED
    BY <2>2, <2>3, <2>4
<1>5. \A i \in 1 .. n - 1 : i \in 1 .. n /\ i # n
  BY <1>1
<1>6. \A i \in 1 .. n : i = n \/ i \in 1 .. n - 1
  BY <1>1
<1>7. /\ Sc!KeysOf(frames) = {frames[i].key : i \in 1 .. n}
      /\ Sc!KeysOf(new) = {new[i].key : i \in 1 .. n - 1}
  BY <1>4, StackFacts
<1> HIDE DEF n
<1>8. Sc!KeysOf(frames) = Sc!KeysOf(new) \union {frames[n].key}
  BY <1>1, <1>4, <1>5, <1>6, <1>7
<1>9. ASSUME OnceIn(frames) PROVE OnceIn(new) /\ frames[n].key \notin Sc!KeysOf(new)
  <2>1. \A a, b \in 1 .. n : frames[a].key = frames[b].key => a = b
    BY <1>9 DEF OnceIn, n
  <2>2. \A a, b \in 1 .. n - 1 : new[a].key = new[b].key => a = b
    BY <1>4, <1>5, <2>1
  <2>3. \A a \in 1 .. n - 1 : new[a].key # frames[n].key
    BY <1>1, <1>4, <1>5, <2>1
  <2> QED
    BY <1>4, <1>7, <2>2, <2>3 DEF OnceIn
<1>10. \A i \in 1 .. Len(new) : i \in 1 .. Len(frames) /\ new[i] = frames[i]
  BY <1>4, <1>5 DEF n
<1> QED
  BY <1>1, <1>3, <1>4, <1>8, <1>9, <1>10 DEF n

\* A factory is called.
LEMMA PushedStack ==
  ASSUME NEW frames \in Seq(Sc!Frames), NEW f \in Sc!Frames, NEW new, new = Append(frames, f)
  PROVE  /\ new \in Seq(Sc!Frames) /\ Len(new) = Len(frames) + 1
         /\ \A i \in 1 .. Len(new) : (i \in 1 .. Len(frames) /\ new[i] = frames[i]) \/ new[i] = f
         /\ Sc!KeysOf(new) = Sc!KeysOf(frames) \union {f.key}
         /\ OnceIn(frames) /\ f.key \notin Sc!KeysOf(frames) => OnceIn(new)
<1> DEFINE n == Len(frames)
<1>1. n \in Nat
  BY StackFacts
<1>2. /\ new \in Seq(Sc!Frames) /\ Len(new) = n + 1 /\ new[n + 1] = f
      /\ \A i \in 1 .. n : new[i] = frames[i]
  BY AppendProperties
<1>3. /\ Sc!KeysOf(frames) = {frames[i].key : i \in 1 .. n}
      /\ Sc!KeysOf(new) = {new[i].key : i \in 1 .. n + 1}
  BY <1>2, StackFacts
<1>4. /\ \A i \in 1 .. n + 1 : i = n + 1 \/ i \in 1 .. n
      /\ \A i \in 1 .. n : i \in 1 .. n + 1 /\ i # n + 1
      /\ n + 1 \in 1 .. n + 1
  BY <1>1
<1> HIDE DEF n
<1>5. Sc!KeysOf(new) = Sc!KeysOf(frames) \union {f.key}
  BY <1>2, <1>3, <1>4
<1>6. ASSUME OnceIn(frames), f.key \notin Sc!KeysOf(frames) PROVE OnceIn(new)
  <2>1. \A a, b \in 1 .. n : frames[a].key = frames[b].key => a = b
    BY <1>6 DEF OnceIn, n
  <2>2. \A a \in 1 .. n : frames[a].key # f.key
    BY <1>3, <1>6
  <2>3. \A a, b \in 1 .. n + 1 : new[a].key = new[b].key => a = b
    BY <1>2, <1>4, <2>1, <2>2
  <2> QED
    BY <1>2, <2>3 DEF OnceIn
<1> QED
  BY <1>2, <1>4, <1>5, <1>6 DEF n

LEMMA ContainerInit == Sc!Init => ContainerInv
<1> SUFFICES ASSUME Sc!Init PROVE ContainerInv
  OBVIOUS
<1>1. ContainerTypes
  BY EmptySeq, ContainerConstants DEF Sc!Init, ContainerTypes
<1>2. \A c \in Callers : Len(stack[c]) = 0 /\ Sc!KeysOf(stack[c]) = {}
  <2>1. Len(<<>>) = 0 /\ Sc!KeysOf(<<>>) = {}
    BY EmptySeq DEF Sc!KeysOf
  <2> QED
    BY <2>1 DEF Sc!Init
<1>3. FramesFit
  BY <1>2 DEF FramesFit
<1>4. RunningFits
  BY <1>2 DEF Sc!Init, RunningFits, OnceIn
<1> QED
  BY <1>1, <1>3, <1>4 DEF ContainerInv

\* New values and instances are younger than every factory that runs.
LEMMA OlderStill ==
  ASSUME NEW f \in Sc!Frames, NEW single \in [Keys -> 0 .. MaxMade], NEW given \in [Keys -> 0 .. MaxMade],
         NEW n \in Nat, Older(f, single, given, n),
         NEW single2 \in [Keys -> 0 .. MaxMade], NEW given2 \in [Keys -> 0 .. MaxMade],
         NEW n2 \in Nat, n <= n2,
         \A k \in Keys : given2[k] \in {0, given[k]} \/ given2[k] > n,
         \A k \in Keys : single2[k] \in {0, single[k], given[k]} \/ single2[k] > n
  PROVE  Older(f, single2, given2, n2)
<1>1. f.key \in Keys /\ f.began \in Nat
  BY ContainerConstants DEF Sc!Frames
<1>2. f.began <= n2
  BY <1>1 DEF Older
<1>3. single[f.key] \in Nat /\ given[f.key] \in Nat /\ single2[f.key] \in Nat /\ given2[f.key] \in Nat
  BY <1>1, ContainerConstants
<1> QED
  BY <1>1, <1>2, <1>3 DEF Older

\* The stacks are as before, or what is left of them.
LEMMA FramesStill ==
  ASSUME ContainerTypes, FramesFit, ContainerTypes', needs' = needs, made <= made',
         \A k \in Keys : providers'[k] \in {0, providers[k]} \/ providers'[k] > made,
         \A k \in Keys : singletons'[k] \in {0, singletons[k], providers[k]} \/ singletons'[k] > made,
         \A c \in Callers : \A i \in 1 .. Len(stack'[c]) :
           /\ i \in 1 .. Len(stack[c])
           /\ stack'[c][i].key = stack[c][i].key /\ stack'[c][i].began = stack[c][i].began
           /\ stack'[c][i].ready = TRUE \/ stack'[c][i].ready = stack[c][i].ready
  PROVE  FramesFit'
<1> SUFFICES ASSUME NEW c \in Callers, NEW i \in 1 .. Len(stack'[c])
             PROVE  (Waits(stack[c][i]) /\ Older(stack[c][i], singletons, providers, made))'
  BY DEF FramesFit
<1>1. /\ i \in 1 .. Len(stack[c])
      /\ stack'[c][i].key = stack[c][i].key /\ stack'[c][i].began = stack[c][i].began
      /\ stack'[c][i].ready = TRUE \/ stack'[c][i].ready = stack[c][i].ready
  OBVIOUS
<1>2. stack[c][i] \in Sc!Frames
  BY <1>1, StackFacts DEF ContainerTypes
<1>3. Waits(stack[c][i]) /\ Older(stack[c][i], singletons, providers, made)
  BY <1>1 DEF FramesFit
<1>4. Waits(stack[c][i])'
  BY <1>1, <1>3 DEF Waits
<1>5. Older(stack[c][i], singletons', providers', made')
  <2>1. made \in Nat /\ made' \in Nat
    BY ContainerConstants DEF ContainerTypes
  <2> QED
    BY <1>2, <1>3, <2>1, OlderStill DEF ContainerTypes
<1>6. Older(stack[c][i], singletons, providers, made)'
  BY <1>1, <1>5 DEF Older
<1> QED
  BY <1>4, <1>6

\* An error runs through all the factories of a stack.
LEMMA UnwindKeeps ==
  ASSUME ContainerInv, NEW c \in Callers, Sc!Unwind(c),
         UNCHANGED <<providers, factories, needs, made, clears>>
  PROVE  ContainerInv'
<1>1. /\ resolving' = resolving \ Sc!KeysOf(stack[c]) /\ singletons' = singletons
      /\ stack' = [stack EXCEPT ![c] = <<>>]
  BY DEF Sc!Unwind
<1>2. ContainerTypes'
  BY <1>1, EmptySeq DEF ContainerInv, ContainerTypes
<1>3. \A d \in Callers : stack'[d] = IF d = c THEN <<>> ELSE stack[d]
  BY <1>1 DEF ContainerInv, ContainerTypes
<1>4. Len(stack'[c]) = 0 /\ Sc!KeysOf(stack'[c]) = {} /\ OnceIn(stack'[c])
  <2>1. Len(<<>>) = 0 /\ DOMAIN <<>> = {}
    BY EmptySeq
  <2> QED
    BY <1>3, <2>1 DEF Sc!KeysOf, OnceIn
<1>5. FramesFit'
  <2>1. made <= made'
    BY ContainerConstants DEF ContainerInv, ContainerTypes
  <2>2. ASSUME NEW d \in Callers, NEW i \in 1 .. Len(stack'[d])
        PROVE  /\ i \in 1 .. Len(stack[d])
               /\ stack'[d][i].key = stack[d][i].key /\ stack'[d][i].began = stack[d][i].began
               /\ stack'[d][i].ready = TRUE \/ stack'[d][i].ready = stack[d][i].ready
    <3>1. d # c
      BY <1>4, <2>2
    <3> QED
      BY <1>3, <2>2, <3>1
  <2> QED
    BY <1>1, <1>2, <2>1, <2>2, FramesStill DEF ContainerInv
<1>6. RunningFits'
  <2>1. \A d \in Callers : d # c => stack'[d] = stack[d]
    BY <1>3
  <2> QED
    BY <1>1, <1>4, <2>1 DEF ContainerInv, RunningFits
<1> QED
  BY <1>2, <1>5, <1>6 DEF ContainerInv

\* A get() is answered with what there is.
LEMMA AnswerKeeps ==
  ASSUME ContainerInv, NEW c \in Callers, stack' = [stack EXCEPT ![c] = Sc!Answered(@)],
         UNCHANGED <<providers, factories, resolving, needs, made, clears>>,
         NEW k \in Keys,
         singletons' = singletons \/ singletons' = [singletons EXCEPT ![k] = providers[k]]
  PROVE  ContainerInv'
<1>1. stack[c] \in Seq(Sc!Frames) /\ stack'[c] = Sc!Answered(stack[c])
  BY DEF ContainerInv, ContainerTypes
<1>2. /\ stack'[c] \in Seq(Sc!Frames) /\ Len(stack'[c]) = Len(stack[c])
      /\ \A i \in 1 .. Len(stack[c]) :
           /\ stack'[c][i].key = stack[c][i].key /\ stack'[c][i].began = stack[c][i].began
           /\ stack'[c][i].ready = TRUE \/ stack'[c][i].ready = stack[c][i].ready
      /\ Sc!KeysOf(stack'[c]) = Sc!KeysOf(stack[c])
      /\ OnceIn(stack[c]) => OnceIn(stack'[c])
  BY <1>1, AnsweredStack
<1>3. \A d \in Callers : d # c => stack'[d] = stack[d]
  BY DEF ContainerInv, ContainerTypes
<1>4. singletons' \in [Keys -> 0 .. MaxMade] /\ \A l \in Keys : singletons'[l] \in {0, singletons[l], providers[l]}
  BY DEF ContainerInv, ContainerTypes
<1>5. ContainerTypes'
  <2>1. stack' \in [Callers -> Seq(Sc!Frames)]
    BY <1>2 DEF ContainerInv, ContainerTypes
  <2> QED
    BY <1>4, <2>1 DEF ContainerInv, ContainerTypes
<1>6. FramesFit'
  <2>1. made <= made'
    BY ContainerConstants DEF ContainerInv, ContainerTypes
  <2>2. ASSUME NEW d \in Callers, NEW i \in 1 .. Len(stack'[d])
        PROVE  /\ i \in 1 .. Len(stack[d])
               /\ stack'[d][i].key = stack[d][i].key /\ stack'[d][i].began = stack[d][i].began
               /\ stack'[d][i].ready = TRUE \/ stack'[d][i].ready = stack[d][i].ready
    BY <1>2, <1>3, <2>2
  <2> QED
    BY <1>4, <1>5, <2>1, <2>2, FramesStill DEF ContainerInv
<1>7. RunningFits'
  <2>1. \A d \in Callers : Sc!KeysOf(stack'[d]) = Sc!KeysOf(stack[d]) /\ (OnceIn(stack[d]) => OnceIn(stack'[d]))
    BY <1>2, <1>3
  <2> QED
    BY <2>1 DEF ContainerInv, RunningFits
<1> QED
  BY <1>5, <1>6, <1>7 DEF ContainerInv

\* A get() calls the factory of a key that has no value and no instance yet.
LEMMA CallKeeps ==
  ASSUME ContainerInv, NEW c \in Callers, NEW k \in Keys, k \notin resolving,
         singletons[k] = 0, providers[k] = 0,
         resolving' = resolving \union {k},
         stack' = [stack EXCEPT ![c] =
                     Append(@, [key |-> k, began |-> made, ready |-> needs[k] = Nothing])],
         UNCHANGED <<singletons, providers, factories, needs, made, clears>>
  PROVE  ContainerInv'
<1> DEFINE f == [key |-> k, began |-> made, ready |-> needs[k] = Nothing]
<1>1. /\ f \in Sc!Frames /\ f.key = k /\ Waits(f) /\ Older(f, singletons, providers, made)
  <2>1. made \in 0 .. MaxMade /\ made <= made
    BY ContainerConstants DEF ContainerInv, ContainerTypes
  <2>2. f \in Sc!Frames
    BY <2>1, Zenon DEF Sc!Frames
  <2>3. f.ready <=> needs[k] = Nothing
    OBVIOUS
  <2> QED
    BY <2>1, <2>2, <2>3 DEF Waits, Older
<1>2. stack[c] \in Seq(Sc!Frames) /\ stack'[c] = Append(stack[c], f)
  BY DEF ContainerInv, ContainerTypes
<1> HIDE DEF f
<1>3. /\ stack'[c] \in Seq(Sc!Frames) /\ Len(stack'[c]) = Len(stack[c]) + 1
      /\ \A i \in 1 .. Len(stack'[c]) :
           (i \in 1 .. Len(stack[c]) /\ stack'[c][i] = stack[c][i]) \/ stack'[c][i] = f
      /\ Sc!KeysOf(stack'[c]) = Sc!KeysOf(stack[c]) \union {k}
      /\ OnceIn(stack[c]) /\ k \notin Sc!KeysOf(stack[c]) => OnceIn(stack'[c])
  <2>1. f \in Sc!Frames /\ f.key = k /\ stack[c] \in Seq(Sc!Frames) /\ stack'[c] = Append(stack[c], f)
    BY <1>1, <1>2
  <2>2. /\ stack'[c] \in Seq(Sc!Frames) /\ Len(stack'[c]) = Len(stack[c]) + 1
        /\ \A i \in 1 .. Len(stack'[c]) :
             (i \in 1 .. Len(stack[c]) /\ stack'[c][i] = stack[c][i]) \/ stack'[c][i] = f
        /\ Sc!KeysOf(stack'[c]) = Sc!KeysOf(stack[c]) \union {f.key}
        /\ OnceIn(stack[c]) /\ f.key \notin Sc!KeysOf(stack[c]) => OnceIn(stack'[c])
    BY ONLY <2>1, PushedStack
  <2> QED
    BY <2>1, <2>2
<1>4. \A d \in Callers : d # c => stack'[d] = stack[d]
  BY DEF ContainerInv, ContainerTypes
<1>5. ContainerTypes'
  <2>1. stack' \in [Callers -> Seq(Sc!Frames)]
    BY <1>2, <1>3 DEF ContainerInv, ContainerTypes
  <2> QED
    BY <2>1 DEF ContainerInv, ContainerTypes
<1>6. FramesFit'
  <2> SUFFICES ASSUME NEW d \in Callers, NEW i \in 1 .. Len(stack'[d])
               PROVE  (Waits(stack[d][i]) /\ Older(stack[d][i], singletons, providers, made))'
    BY DEF FramesFit
  <2>1. (i \in 1 .. Len(stack[d]) /\ stack'[d][i] = stack[d][i]) \/ stack'[d][i] = f
    BY <1>3, <1>4
  <2>2. \/ Waits(stack[d][i]) /\ Older(stack[d][i], singletons, providers, made) /\ stack'[d][i] = stack[d][i]
        \/ stack'[d][i] = f
    BY <2>1 DEF ContainerInv, FramesFit
  <2>3. needs' = needs /\ singletons' = singletons /\ providers' = providers /\ made' = made
    OBVIOUS
  <2> QED
    BY <1>1, <2>2, <2>3 DEF Waits, Older
<1>7. RunningFits'
  <2>1. ASSUME NEW l \in resolving' PROVE \E d \in Callers : l \in Sc!KeysOf(stack'[d])
    BY <1>3, <1>4, <2>1 DEF ContainerInv, RunningFits
  <2>2. ASSUME clears = 0
        PROVE  /\ \A d \in Callers : Sc!KeysOf(stack'[d]) \subseteq resolving' /\ OnceIn(stack'[d])
               /\ \A d, e \in Callers : d # e => Sc!KeysOf(stack'[d]) \cap Sc!KeysOf(stack'[e]) = {}
    <3>1. \A d \in Callers : k \notin Sc!KeysOf(stack[d]) /\ Sc!KeysOf(stack[d]) \subseteq resolving /\ OnceIn(stack[d])
      BY <2>2 DEF ContainerInv, RunningFits
    <3>2. \A d, e \in Callers : d # e => Sc!KeysOf(stack[d]) \cap Sc!KeysOf(stack[e]) = {}
      BY <2>2 DEF ContainerInv, RunningFits
    <3>3. \A d \in Callers : d # c => Sc!KeysOf(stack'[d]) = Sc!KeysOf(stack[d]) /\ OnceIn(stack'[d])
      BY <1>4, <3>1
    <3>4. /\ Sc!KeysOf(stack'[c]) = Sc!KeysOf(stack[c]) \union {k} /\ OnceIn(stack'[c])
          /\ resolving' = resolving \union {k}
      BY <1>3, <3>1
    <3>5. ASSUME NEW d \in Callers, d # c PROVE Sc!KeysOf(stack'[d]) \cap Sc!KeysOf(stack'[c]) = {}
      <4>1. Sc!KeysOf(stack'[d]) = Sc!KeysOf(stack[d]) /\ k \notin Sc!KeysOf(stack[d])
        BY <3>1, <3>3, <3>5
      <4>2. Sc!KeysOf(stack[d]) \cap Sc!KeysOf(stack[c]) = {}
        BY <3>2, <3>5
      <4> QED
        BY <3>4, <4>1, <4>2
    <3>6. ASSUME NEW d \in Callers, NEW e \in Callers, d # e
          PROVE  Sc!KeysOf(stack'[d]) \cap Sc!KeysOf(stack'[e]) = {}
      BY <3>2, <3>3, <3>5, <3>6
    <3>7. ASSUME NEW d \in Callers PROVE Sc!KeysOf(stack'[d]) \subseteq resolving' /\ OnceIn(stack'[d])
      BY <3>1, <3>3, <3>4, <3>7
    <3> QED
      BY <3>6, <3>7
  <2> QED
    BY <2>1, <2>2 DEF RunningFits
<1> QED
  BY <1>5, <1>6, <1>7 DEF ContainerInv

LEMMA ResolveKeeps ==
  ASSUME ContainerInv, NEW c \in Callers, NEW k \in Keys, Sc!Resolve(c, k),
         UNCHANGED <<providers, factories, needs, made, clears>>
  PROVE  ContainerInv'
<1>1. CASE Sc!Unwind(c)
  BY <1>1, UnwindKeeps
<1>2. CASE /\ resolving' = resolving /\ stack' = [stack EXCEPT ![c] = Sc!Answered(@)]
           /\ singletons' = singletons \/ singletons' = [singletons EXCEPT ![k] = providers[k]]
  BY <1>2, AnswerKeeps
<1>3. CASE /\ singletons[k] = 0 /\ providers[k] = 0 /\ k \notin resolving
           /\ resolving' = resolving \union {k}
           /\ stack' = [stack EXCEPT ![c] =
                          Append(@, [key |-> k, began |-> made, ready |-> needs[k] = Nothing])]
           /\ UNCHANGED singletons
  BY <1>3, CallKeeps
<1> QED
  BY <1>1, <1>2, <1>3 DEF Sc!Resolve

\* What is registered, or deleted, changes nothing of the factories that run.
LEMMA RegisterKeeps ==
  ASSUME ContainerInv, ContainerTypes', UNCHANGED <<stack, needs>>, made <= made',
         \A k \in Keys : providers'[k] \in {0, providers[k]} \/ providers'[k] > made,
         \A k \in Keys : singletons'[k] \in {0, singletons[k], providers[k]} \/ singletons'[k] > made,
         RunningFits'
  PROVE  ContainerInv'
<1>1. FramesFit'
  BY FramesStill DEF ContainerInv
<1> QED
  BY <1>1 DEF ContainerInv

LEMMA FactoryReturnKeeps ==
  ASSUME ContainerInv, NEW c \in Callers, Sc!FactoryReturns(c)
  PROVE  ContainerInv'
<1> DEFINE k == Sc!Last(stack[c]).key
           front == Sc!Front(stack[c])
<1>1. /\ stack[c] # <<>> /\ stack[c] \in Seq(Sc!Frames) /\ made < MaxMade /\ made' = made + 1
      /\ singletons' = [singletons EXCEPT ![k] = made + 1] /\ resolving' = resolving \ {k}
      /\ stack' = [stack EXCEPT ![c] = Sc!Answered(front)]
      /\ UNCHANGED <<providers, factories, needs, clears>>
  BY DEF Sc!FactoryReturns, ContainerInv, ContainerTypes
<1>2. /\ k \in Sc!KeysOf(stack[c]) /\ front \in Seq(Sc!Frames)
      /\ \A i \in 1 .. Len(front) : i \in 1 .. Len(stack[c]) /\ front[i] = stack[c][i]
      /\ Sc!KeysOf(stack[c]) = Sc!KeysOf(front) \union {k}
      /\ OnceIn(stack[c]) => OnceIn(front) /\ k \notin Sc!KeysOf(front)
  BY <1>1, FrontStack
<1> HIDE DEF k, front
<1>3. /\ stack'[c] = Sc!Answered(front) /\ \A d \in Callers : d # c => stack'[d] = stack[d]
      /\ stack' \in [Callers -> Seq(Sc!Frames) \union {stack'[c]}]
  BY <1>1 DEF ContainerInv, ContainerTypes
<1>4. /\ stack'[c] \in Seq(Sc!Frames) /\ Len(stack'[c]) = Len(front)
      /\ \A i \in 1 .. Len(front) :
           /\ stack'[c][i].key = front[i].key /\ stack'[c][i].began = front[i].began
           /\ stack'[c][i].ready = TRUE \/ stack'[c][i].ready = front[i].ready
      /\ Sc!KeysOf(stack'[c]) = Sc!KeysOf(front)
      /\ OnceIn(front) => OnceIn(stack'[c])
  BY <1>2, <1>3, AnsweredStack
<1>5. k \in Keys
  BY <1>1, <1>2, StackFacts
<1>6. made \in Nat /\ MaxMade \in Nat /\ made' \in 0 .. MaxMade /\ made' \in Nat /\ made <= made' /\ made + 1 > made
  BY <1>1, ContainerConstants DEF ContainerInv, ContainerTypes
<1>7. /\ singletons' \in [Keys -> 0 .. MaxMade]
      /\ \A l \in Keys : singletons'[l] \in {0, singletons[l], providers[l]} \/ singletons'[l] > made
  BY <1>1, <1>5, <1>6 DEF ContainerInv, ContainerTypes
<1>8. ContainerTypes'
  <2>1. stack' \in [Callers -> Seq(Sc!Frames)]
    BY <1>3, <1>4
  <2> QED
    BY <1>1, <1>6, <1>7, <2>1 DEF ContainerInv, ContainerTypes
<1>9. FramesFit'
  <2>1. ASSUME NEW d \in Callers, NEW i \in 1 .. Len(stack'[d])
        PROVE  /\ i \in 1 .. Len(stack[d])
               /\ stack'[d][i].key = stack[d][i].key /\ stack'[d][i].began = stack[d][i].began
               /\ stack'[d][i].ready = TRUE \/ stack'[d][i].ready = stack[d][i].ready
    <3>1. CASE d = c
      BY <1>2, <1>4, <2>1, <3>1
    <3>2. CASE d # c
      BY <1>3, <2>1, <3>2
    <3> QED
      BY <3>1, <3>2
  <2> QED
    BY <1>1, <1>6, <1>7, <1>8, <2>1, FramesStill DEF ContainerInv
<1>10. RunningFits'
  <2>1. ASSUME NEW l \in resolving' PROVE \E d \in Callers : l \in Sc!KeysOf(stack'[d])
    <3>1. l # k /\ \E d \in Callers : l \in Sc!KeysOf(stack[d])
      BY <1>1, <2>1 DEF ContainerInv, RunningFits
    <3> QED
      BY <1>2, <1>3, <1>4, <3>1
  <2>2. ASSUME clears = 0
        PROVE  /\ \A d \in Callers : Sc!KeysOf(stack'[d]) \subseteq resolving' /\ OnceIn(stack'[d])
               /\ \A d, e \in Callers : d # e => Sc!KeysOf(stack'[d]) \cap Sc!KeysOf(stack'[e]) = {}
    <3>1. \A d \in Callers : Sc!KeysOf(stack[d]) \subseteq resolving /\ OnceIn(stack[d])
      BY <2>2 DEF ContainerInv, RunningFits
    <3>2. \A d, e \in Callers : d # e => Sc!KeysOf(stack[d]) \cap Sc!KeysOf(stack[e]) = {}
      BY <2>2 DEF ContainerInv, RunningFits
    <3>3. \A d \in Callers : d # c => Sc!KeysOf(stack'[d]) = Sc!KeysOf(stack[d]) /\ OnceIn(stack'[d])
      BY <1>3, <3>1
    <3>4. /\ Sc!KeysOf(stack'[c]) = Sc!KeysOf(stack[c]) \ {k} /\ OnceIn(stack'[c])
          /\ \A d \in Callers : d # c => k \notin Sc!KeysOf(stack[d])
      BY <1>2, <1>4, <3>1, <3>2
    <3> QED
      BY <1>1, <3>1, <3>2, <3>3, <3>4
  <2> QED
    BY <1>1, <2>1, <2>2 DEF RunningFits
<1> QED
  BY <1>8, <1>9, <1>10 DEF ContainerInv

LEMMA ContainerNext == ContainerInv /\ [Sc!Next]_(Sc!vars) => ContainerInv'
<1> SUFFICES ASSUME ContainerInv, [Sc!Next]_(Sc!vars) PROVE ContainerInv'
  OBVIOUS
<1>1. /\ made \in Nat /\ MaxMade \in Nat /\ made \in 0 .. MaxMade /\ made <= made
      /\ clears \in 0 .. MaxClears /\ MaxClears \in Nat
  BY ContainerConstants DEF ContainerInv, ContainerTypes
<1>2. ASSUME NEW k \in Keys, Sc!RegisterFactory(k) PROVE ContainerInv'
  <2>1. ContainerTypes'
    BY <1>2 DEF ContainerInv, ContainerTypes, Sc!RegisterFactory
  <2>2. RunningFits'
    BY <1>2 DEF ContainerInv, RunningFits, Sc!RegisterFactory
  <2> QED
    BY <1>1, <1>2, <2>1, <2>2, RegisterKeeps DEF Sc!RegisterFactory
<1>3. ASSUME NEW k \in Keys, Sc!RegisterValue(k) \/ Sc!RegisterInstance(k) PROVE ContainerInv'
  <2>1. /\ made' = made + 1 /\ made' \in 0 .. MaxMade /\ made <= made' /\ made + 1 > made
        /\ UNCHANGED <<factories, resolving, stack, needs, clears>>
        /\ providers' = [providers EXCEPT ![k] = made + 1]
        /\ singletons' = singletons \/ singletons' = [singletons EXCEPT ![k] = made + 1]
    BY <1>1, <1>3 DEF Sc!RegisterValue, Sc!RegisterInstance
  <2>2. /\ providers' \in [Keys -> 0 .. MaxMade] /\ singletons' \in [Keys -> 0 .. MaxMade]
        /\ \A l \in Keys : providers'[l] \in {0, providers[l]} \/ providers'[l] > made
        /\ \A l \in Keys : singletons'[l] \in {0, singletons[l], providers[l]} \/ singletons'[l] > made
    BY <2>1 DEF ContainerInv, ContainerTypes
  <2>3. ContainerTypes'
    BY <2>1, <2>2 DEF ContainerInv, ContainerTypes
  <2>4. RunningFits'
    BY <2>1 DEF ContainerInv, RunningFits
  <2> QED
    BY <2>1, <2>2, <2>3, <2>4, RegisterKeeps
<1>4. ASSUME NEW k \in Keys, Sc!Delete(k) PROVE ContainerInv'
  <2>1. /\ UNCHANGED <<resolving, stack, needs, made, clears>>
        /\ providers' = [providers EXCEPT ![k] = 0]
        /\ singletons' = [singletons EXCEPT ![k] = 0]
        /\ factories' = factories \ {k}
    BY <1>4 DEF Sc!Delete
  <2>2. /\ providers' \in [Keys -> 0 .. MaxMade] /\ singletons' \in [Keys -> 0 .. MaxMade]
        /\ \A l \in Keys : providers'[l] \in {0, providers[l]}
        /\ \A l \in Keys : singletons'[l] \in {0, singletons[l], providers[l]}
    BY <1>1, <2>1 DEF ContainerInv, ContainerTypes
  <2>3. ContainerTypes'
    BY <2>1, <2>2 DEF ContainerInv, ContainerTypes
  <2>4. RunningFits'
    BY <2>1 DEF ContainerInv, RunningFits
  <2> QED
    BY <1>1, <2>1, <2>2, <2>3, <2>4, RegisterKeeps
<1>5. CASE Sc!Clear
  <2>1. /\ UNCHANGED <<stack, needs, made>> /\ clears' = clears + 1 /\ clears < MaxClears
        /\ providers' = [l \in Keys |-> 0] /\ singletons' = [l \in Keys |-> 0]
        /\ factories' = {} /\ resolving' = {}
    BY <1>5 DEF Sc!Clear
  <2>2. clears' \in 0 .. MaxClears /\ clears' # 0
    BY <1>1, <2>1
  <2>3. ContainerTypes'
    BY <1>1, <2>1, <2>2 DEF ContainerInv, ContainerTypes
  <2>4. RunningFits'
    BY <2>1, <2>2 DEF RunningFits
  <2> QED
    BY <1>1, <2>1, <2>3, <2>4, RegisterKeeps
<1>6. ASSUME NEW c \in Callers, NEW k \in Keys, Sc!Get(c, k) PROVE ContainerInv'
  BY <1>6, ResolveKeeps DEF Sc!Get
<1>7. ASSUME NEW c \in Callers, Sc!Ask(c) PROVE ContainerInv'
  <2> DEFINE f == Sc!Last(stack[c])
  <2>1. /\ stack[c] # <<>> /\ ~f.ready /\ Sc!Resolve(c, needs[f.key])
        /\ UNCHANGED <<providers, factories, needs, made, clears>>
    BY <1>7 DEF Sc!Ask
  <2>2. stack[c] \in Seq(Sc!Frames)
    BY DEF ContainerInv, ContainerTypes
  <2>3. Len(stack[c]) \in 1 .. Len(stack[c]) /\ f = stack[c][Len(stack[c])] /\ f \in Sc!Frames
    BY <2>1, <2>2, FrontStack
  <2>4. f.key \in Keys /\ Waits(f)
    BY <2>3 DEF ContainerInv, FramesFit, Sc!Frames
  <2>5. needs[f.key] \in Keys
    BY <2>1, <2>4, ContainerConstants DEF ContainerInv, ContainerTypes, Waits
  <2> QED
    BY <2>1, <2>5, ResolveKeeps
<1>8. ASSUME NEW c \in Callers, Sc!FactoryReturns(c) PROVE ContainerInv'
  BY <1>8, FactoryReturnKeeps
<1>9. ASSUME NEW c \in Callers, Sc!FactoryFails(c) PROVE ContainerInv'
  BY <1>9, UnwindKeeps DEF Sc!FactoryFails
<1>10. CASE UNCHANGED Sc!vars
  BY <1>10 DEF Sc!vars, ContainerInv, ContainerTypes, FramesFit, Waits, RunningFits
<1> QED
  BY <1>2, <1>3, <1>4, <1>5, <1>6, <1>7, <1>8, <1>9, <1>10 DEF Sc!Next

LEMMA ContainerHolds == ContainerInv => Sc!TypeOK /\ Sc!ResolvingIsRunning
<1> SUFFICES ASSUME ContainerInv PROVE Sc!TypeOK /\ Sc!ResolvingIsRunning
  OBVIOUS
<1>1. Sc!TypeOK
  BY DEF ContainerInv, ContainerTypes, Sc!TypeOK
<1>2. \A k : Sc!Running(k) = {c \in Callers : k \in Sc!KeysOf(stack[c])}
  BY DEF Sc!Running
<1>3. \A k \in resolving : Sc!Running(k) # {}
  BY <1>2 DEF ContainerInv, RunningFits
<1>4. ASSUME clears = 0
      PROVE  /\ \A k \in Keys : k \in resolving <=> Sc!Running(k) # {}
             /\ \A k \in Keys : \A c, d \in Sc!Running(k) : c = d
             /\ \A c \in Callers : Sc!IsInjective([i \in DOMAIN stack[c] |-> stack[c][i].key])
  <2>1. /\ \A c \in Callers : Sc!KeysOf(stack[c]) \subseteq resolving /\ OnceIn(stack[c])
        /\ \A c, d \in Callers : c # d => Sc!KeysOf(stack[c]) \cap Sc!KeysOf(stack[d]) = {}
    BY <1>4 DEF ContainerInv, RunningFits
  <2>2. ASSUME NEW c \in Callers PROVE Sc!IsInjective([i \in DOMAIN stack[c] |-> stack[c][i].key])
    <3>1. DOMAIN stack[c] = 1 .. Len(stack[c])
      BY StackFacts DEF ContainerInv, ContainerTypes
    <3>2. OnceIn(stack[c])
      BY <2>1
    <3> QED
      BY <3>1, <3>2 DEF OnceIn, Sc!IsInjective
  <2> QED
    BY <1>2, <1>3, <2>1, <2>2
<1> QED
  BY <1>1, <1>3, <1>4 DEF Sc!ResolvingIsRunning

\* A factory that returns finds an instance only if that is younger than its call.
LEMMA ReplacedSteps ==
  ContainerInv /\ [Sc!Next]_(Sc!vars) =>
    [\A k \in Keys :
       singletons[k] # 0 /\ singletons'[k] \notin {0, singletons[k]} =>
          \/ Sc!RegisterInstance(k)
          \/ \E c \in Sc!Running(k) : /\ Sc!FactoryReturns(c)
                                      /\ Sc!Last(stack[c]).began < singletons[k]]_(Sc!vars)
<1> SUFFICES ASSUME ContainerInv, Sc!Next, NEW k \in Keys,
                    singletons[k] # 0, singletons'[k] \notin {0, singletons[k]}
             PROVE  \/ Sc!RegisterInstance(k)
                    \/ \E c \in Sc!Running(k) : /\ Sc!FactoryReturns(c)
                                                /\ Sc!Last(stack[c]).began < singletons[k]
  OBVIOUS
<1>1. singletons \in [Keys -> 0 .. MaxMade] /\ stack \in [Callers -> Seq(Sc!Frames)]
  BY DEF ContainerInv, ContainerTypes
<1>2. ASSUME NEW l \in Keys, Sc!RegisterFactory(l) \/ Sc!RegisterValue(l) \/ Sc!Delete(l) PROVE FALSE
  BY <1>1, <1>2 DEF Sc!RegisterFactory, Sc!RegisterValue, Sc!Delete
<1>3. ASSUME NEW l \in Keys, Sc!RegisterInstance(l) PROVE Sc!RegisterInstance(k)
  <2>1. l = k
    BY <1>1, <1>3 DEF Sc!RegisterInstance
  <2> QED
    BY <1>3, <2>1
<1>4. ASSUME Sc!Clear PROVE FALSE
  BY <1>1, <1>4 DEF Sc!Clear
<1>5. ASSUME NEW c \in Callers, NEW l, Sc!Resolve(c, l) PROVE FALSE
  BY <1>1, <1>5 DEF Sc!Resolve, Sc!Unwind
<1>6. ASSUME NEW c \in Callers, Sc!FactoryFails(c) PROVE FALSE
  BY <1>1, <1>6 DEF Sc!FactoryFails, Sc!Unwind
<1>7. ASSUME NEW c \in Callers, Sc!FactoryReturns(c)
      PROVE  c \in Sc!Running(k) /\ Sc!Last(stack[c]).began < singletons[k]
  <2>1. stack[c] # <<>> /\ stack[c] \in Seq(Sc!Frames)
    BY <1>1, <1>7 DEF Sc!FactoryReturns
  <2>2. /\ Len(stack[c]) \in 1 .. Len(stack[c]) /\ Sc!Last(stack[c]) = stack[c][Len(stack[c])]
        /\ Sc!Last(stack[c]).key \in Sc!KeysOf(stack[c])
    BY <2>1, FrontStack
  <2>3. Sc!Last(stack[c]).key = k
    BY <1>1, <1>7 DEF Sc!FactoryReturns
  <2>4. Older(Sc!Last(stack[c]), singletons, providers, made)
    BY <2>2 DEF ContainerInv, FramesFit
  <2> QED
    BY <2>2, <2>3, <2>4 DEF Older, Sc!Running
<1> QED
  BY <1>2, <1>3, <1>4, <1>5, <1>6, <1>7 DEF Sc!Next, Sc!Get, Sc!Ask

-----------------------------------------------------------------------------
(* The loggers of packages/log.                                            *)

LoggerTypes ==
  /\ structured \in BOOLEAN /\ transports \in Seq(Transports) /\ IsInjective(transports)
  /\ writers \in [Lg!Loggers -> SUBSET Transports] /\ shut \subseteq Lg!Loggers \X Transports
  /\ level \in [Transports -> Lg!Levels] /\ own \in [Lg!Loggers -> Lg!Levels]
  /\ children \in BOOLEAN /\ logged \in 0 .. MaxLogged
  /\ tasks \in [Lg!Entries -> [phase : {"idle", "loop"}, by : Lg!Loggers, level : Lg!Levels, next : Nat,
                               known : SUBSET Transports, got : SUBSET Transports, disturbed : BOOLEAN]]
  /\ kept \in [Lg!Loggers -> Seq(Lg!Entries)] /\ aggregated \in [Lg!Loggers -> Seq(Lg!Entries)]
  /\ swaps \in 0 .. MaxSwaps /\ astray \in BOOLEAN /\ queried \in BOOLEAN

\* A call that nothing disturbed has given its entry to those that take it among the
\* transports it has passed; and all that took it when it began still do.
OnItsWay(call) ==
  /\ call.next \in 1 .. Len(transports) + 1
  /\ call.got = {t \in Range(transports) : /\ \E i \in DOMAIN transports : transports[i] = t /\ i < call.next
                                           /\ Lg!Takes(t, call.by, call.level)}
  /\ \A t \in call.known : t \in Range(transports) /\ Lg!Takes(t, call.by, call.level)

CallFits(e) ==
  /\ tasks[e].phase = "loop" =>
       e <= logged /\ (tasks[e].by = "child" => children) /\ tasks[e].next # 0
  /\ tasks[e].phase = "loop" /\ ~tasks[e].disturbed => OnItsWay(tasks[e])

\* What an aggregator was given is no longer on its way, and it was given nothing twice.
AggregatorFits(a) ==
  /\ \A i \in DOMAIN aggregated[a] :
       aggregated[a][i] <= logged /\ tasks[aggregated[a][i]].phase = "idle"
  /\ IsInjective(aggregated[a]) /\ IsInjective(kept[a])
  /\ Range(kept[a]) \subseteq Range(aggregated[a])
  /\ Len(kept[a]) = IF Len(aggregated[a]) < MaxKept THEN Len(aggregated[a]) ELSE MaxKept
  /\ ~queried => \A i \in 1 .. Len(kept[a]) :
                   kept[a][i] = aggregated[a][Len(aggregated[a]) - Len(kept[a]) + i]

LoggerInv ==
  /\ LoggerTypes /\ ~astray /\ \A e \in Lg!Entries : CallFits(e)
  /\ \A a \in Lg!Loggers : AggregatorFits(a)

CallType == [phase : {"idle", "loop"}, by : Lg!Loggers, level : Lg!Levels, next : Nat,
             known : SUBSET Transports, got : SUBSET Transports, disturbed : BOOLEAN]

LEMMA LoggerConstants ==
  /\ MaxLogged \in Nat /\ MaxKept \in Nat /\ MaxKept # 0 /\ MaxSwaps \in Nat
  /\ Transports \subseteq Nat \ {0} /\ \A n \in Transports : 1 .. n \subseteq Transports
  /\ \A s : Lg!ToSet(s) = Range(s) /\ (Lg!IsInjective(s) <=> IsInjective(s))
BY LoggersAssumption DEF Lg!OptionsOK, Lg!ToSet, Range, Lg!IsInjective, IsInjective

\* Where the loop stops, and whom it has reached by then.
LEMMA StopFacts ==
  ASSUME LoggerTypes, NEW i \in Nat, i # 0, NEW by \in Lg!Loggers, NEW lv \in Lg!Levels
  PROVE  LET stop == Lg!Stop(i, by, lv)
         IN  /\ stop \in Nat /\ stop # 0
             /\ stop = Len(transports) + 1 \/ (i <= stop /\ stop <= Len(transports))
             /\ \A t : t \in Lg!Reached(i, stop) <=>
                  \E j \in DOMAIN transports : i <= j /\ j <= stop /\ transports[j] = t
<1> DEFINE waits == {j \in i .. Len(transports) :
                       transports[j] \in writers[by] /\ lv >= level[transports[j]]}
           stop == Lg!Stop(i, by, lv)
<1>1. Len(transports) \in Nat /\ DOMAIN transports = 1 .. Len(transports)
  BY LenProperties DEF LoggerTypes
<1>2. stop = IF waits = {} THEN Len(transports) + 1 ELSE Lg!Min(waits)
  BY DEF Lg!Stop
<1>3. waits \subseteq Nat /\ waits \subseteq i .. Len(transports)
  BY <1>1
<1>4. ASSUME waits # {} PROVE Lg!Min(waits) \in waits
  <2>1. \E j \in waits : \A k \in waits : j <= k
    BY <1>3, <1>4, Smallest
  <2> QED
    BY <2>1 DEF Lg!Min
<1>5. stop = Len(transports) + 1 \/ stop \in i .. Len(transports)
  BY <1>2, <1>3, <1>4
<1>6. \A t : t \in Lg!Reached(i, stop) <=>
        \E j \in DOMAIN transports : i <= j /\ j <= stop /\ transports[j] = t
  BY DEF Lg!Reached
<1> HIDE DEF waits, stop
<1>7. /\ stop \in Nat /\ stop # 0
      /\ stop = Len(transports) + 1 \/ (i <= stop /\ stop <= Len(transports))
  BY <1>1, <1>5
<1> QED
  BY <1>6, <1>7 DEF stop

\* The last ones of a line, at most so many.
LEMMA LastOnes ==
  ASSUME NEW S, NEW all \in Seq(S), Len(all) # 0
  PROVE  LET last == SubSeq(all, Lg!Max({1, Len(all) - MaxKept + 1}), Len(all))
         IN  /\ last \in Seq(S)
             /\ Len(last) = IF Len(all) < MaxKept THEN Len(all) ELSE MaxKept
             /\ \A i \in 1 .. Len(last) : last[i] = all[Len(all) - Len(last) + i]
<1> DEFINE first == Lg!Max({1, Len(all) - MaxKept + 1})
           last == SubSeq(all, first, Len(all))
           size == IF Len(all) < MaxKept THEN Len(all) ELSE MaxKept
<1>1. Len(all) \in Nat /\ MaxKept \in Nat /\ MaxKept # 0 /\ \A i \in 1 .. Len(all) : all[i] \in S
  BY LoggerConstants, LenProperties, ElementOfSeq
<1>2. first = Len(all) - size + 1
  <2>1. \E x \in {1, Len(all) - MaxKept + 1} : \A y \in {1, Len(all) - MaxKept + 1} : x >= y
    BY <1>1
  <2>2. first \in {1, Len(all) - MaxKept + 1} /\ \A y \in {1, Len(all) - MaxKept + 1} : first >= y
    BY <2>1 DEF Lg!Max
  <2> HIDE DEF first
  <2> QED
    BY <1>1, <2>2
<1> HIDE DEF first
<1>3. size \in Nat /\ size # 0 /\ size <= Len(all)
  BY <1>1
<1>4. first \in Int /\ 1 <= first /\ first <= Len(all)
  BY <1>1, <1>2, <1>3
<1>5. \A i \in first .. Len(all) : all[i] \in S
  BY <1>1, <1>4
<1>6. /\ last \in Seq(S) /\ Len(last) = Len(all) - first + 1
      /\ \A i \in 1 .. Len(all) - first + 1 : last[i] = all[first + i - 1]
  BY <1>1, <1>4, <1>5, SubSeqProperties
<1> HIDE DEF last
<1>7. Len(last) = size
  BY <1>1, <1>2, <1>3, <1>6
<1>8. ASSUME NEW i \in 1 .. Len(last) PROVE last[i] = all[Len(all) - Len(last) + i]
  <2>1. first + i - 1 = Len(all) - Len(last) + i /\ i \in 1 .. Len(all) - first + 1
    BY <1>1, <1>2, <1>3, <1>6, <1>7
  <2> QED
    BY <1>6, <2>1
<1> QED
  BY <1>6, <1>7, <1>8 DEF last, first

\* What was given, and what is kept of it, without regard to the calls.
KeptFits(have, all, sorted) ==
  /\ IsInjective(all) /\ IsInjective(have) /\ Range(have) \subseteq Range(all)
  /\ Len(have) = IF Len(all) < MaxKept THEN Len(all) ELSE MaxKept
  /\ ~sorted => \A i \in 1 .. Len(have) : have[i] = all[Len(all) - Len(have) + i]

LEMMA KeptAppend ==
  ASSUME NEW S, NEW have \in Seq(S), NEW all \in Seq(S), NEW sorted, KeptFits(have, all, sorted),
         NEW e \in S, e \notin Range(all), NEW last \in Seq(S),
         Len(last) = IF Len(have) + 1 < MaxKept THEN Len(have) + 1 ELSE MaxKept,
         \A i \in 1 .. Len(last) : last[i] = Append(have, e)[Len(have) + 1 - Len(last) + i]
  PROVE  Append(all, e) \in Seq(S) /\ KeptFits(last, Append(all, e), sorted)
<1> DEFINE given == Append(all, e)
           more == Append(have, e)
<1>1. /\ MaxKept \in Nat /\ MaxKept # 0 /\ Len(have) \in Nat /\ Len(all) \in Nat
      /\ DOMAIN have = 1 .. Len(have) /\ DOMAIN all = 1 .. Len(all)
  BY LoggerConstants, LenProperties
<1>2. /\ given \in Seq(S) /\ Len(given) = Len(all) + 1 /\ given[Len(all) + 1] = e
      /\ \A i \in 1 .. Len(all) : given[i] = all[i]
  BY AppendProperties
<1>3. IsInjective(given) /\ Range(given) = Range(all) \cup {e}
  BY InjectiveAppend, RangeAppend DEF KeptFits
<1>4. /\ more \in Seq(S) /\ Len(more) = Len(have) + 1 /\ more[Len(have) + 1] = e
      /\ \A i \in 1 .. Len(have) : more[i] = have[i]
  BY AppendProperties
<1>5. IsInjective(more) /\ Range(more) = Range(have) \cup {e}
  <2>1. e \notin Range(have) /\ IsInjective(have)
    BY DEF KeptFits
  <2> QED
    BY <2>1, InjectiveAppend, RangeAppend
<1>6. Len(more) # 0 /\ Len(more) \in Nat /\ DOMAIN more = 1 .. Len(more)
  BY <1>1, <1>4, LenProperties
<1>7. /\ Len(last) = IF Len(more) < MaxKept THEN Len(more) ELSE MaxKept
      /\ \A i \in 1 .. Len(last) : last[i] = more[Len(more) - Len(last) + i]
  BY <1>4
<1>8. DOMAIN last = 1 .. Len(last) /\ Len(last) \in Nat /\ Len(last) <= Len(more)
  BY <1>1, <1>6, <1>7, LenProperties
<1> HIDE DEF given, more
<1>9. IsInjective(last)
  <2> SUFFICES ASSUME NEW i \in 1 .. Len(last), NEW j \in 1 .. Len(last), last[i] = last[j]
               PROVE  i = j
    BY <1>8 DEF IsInjective
  <2>1. Len(more) - Len(last) + i \in 1 .. Len(more) /\ Len(more) - Len(last) + j \in 1 .. Len(more)
    BY <1>6, <1>8
  <2>2. Len(more) - Len(last) + i = Len(more) - Len(last) + j
    <3>1. more[Len(more) - Len(last) + i] = more[Len(more) - Len(last) + j]
      BY <1>7
    <3>2. \A a, b \in 1 .. Len(more) : more[a] = more[b] => a = b
      BY <1>5, <1>6 DEF IsInjective
    <3> QED
      BY <2>1, <3>1, <3>2
  <2> QED
    BY <1>6, <1>8, <2>2
<1>10. Range(last) \subseteq Range(given)
  <2> SUFFICES ASSUME NEW i \in 1 .. Len(last) PROVE last[i] \in Range(given)
    BY <1>8 DEF Range
  <2>1. Len(more) - Len(last) + i \in 1 .. Len(more)
    BY <1>6, <1>8
  <2>2. last[i] \in Range(more)
    BY <1>6, <1>7, <2>1 DEF Range
  <2> QED
    BY <1>3, <1>5, <2>2 DEF KeptFits
<1>11. Len(last) = IF Len(given) < MaxKept THEN Len(given) ELSE MaxKept
  <2>1. Len(have) = IF Len(all) < MaxKept THEN Len(all) ELSE MaxKept
    BY DEF KeptFits
  <2> QED
    BY <1>1, <1>2, <1>4, <1>7, <2>1
<1>12. ASSUME ~sorted, NEW i \in 1 .. Len(last) PROVE last[i] = given[Len(given) - Len(last) + i]
  <2>1. /\ \A k \in 1 .. Len(have) : have[k] = all[Len(all) - Len(have) + k]
        /\ Len(have) = IF Len(all) < MaxKept THEN Len(all) ELSE MaxKept
    BY <1>12 DEF KeptFits
  <2>2. Len(have) <= Len(all)
    BY <1>1, <2>1
  <2>3. CASE i = Len(last)
    <3>1. Len(more) - Len(last) + i = Len(have) + 1 /\ Len(given) - Len(last) + i = Len(all) + 1
      BY <1>1, <1>2, <1>4, <1>8, <2>3
    <3> QED
      BY <1>2, <1>4, <1>7, <3>1
  <2>4. CASE i # Len(last)
    <3> DEFINE k == Len(more) - Len(last) + i
    <3>1. /\ k \in 1 .. Len(have) /\ Len(all) - Len(have) + k \in 1 .. Len(all)
          /\ Len(all) - Len(have) + k = Len(given) - Len(last) + i
      BY <1>1, <1>2, <1>4, <1>8, <2>2, <2>4
    <3>2. last[i] = more[k]
      BY <1>7
    <3> HIDE DEF k
    <3> QED
      BY <1>2, <1>4, <2>1, <3>1, <3>2
  <2> QED
    BY <2>3, <2>4
<1> QED
  BY <1>2, <1>9, <1>3, <1>10, <1>11, <1>12 DEF KeptFits, given

LEMMA LoggerInit == Lg!Init => LoggerInv
<1> SUFFICES ASSUME Lg!Init PROVE LoggerInv
  OBVIOUS
<1>1. PICK n \in Transports \cup {0} : transports = [i \in 1 .. n |-> i]
  BY DEF Lg!Init
<1>2. n \in Nat /\ 1 .. n \subseteq Transports
  BY LoggerConstants
<1>3. transports \in Seq(Transports) /\ IsInjective(transports)
  <2>1. transports \in [1 .. n -> Transports]
    BY <1>1, <1>2
  <2>2. transports \in Seq(Transports)
    BY <1>2, <2>1, IsASeq
  <2>3. IsInjective(transports)
    BY <1>1 DEF IsInjective
  <2> QED
    BY <2>2, <2>3
<1>4. writers \in [Lg!Loggers -> SUBSET Transports]
  <2>1. Range(transports) \subseteq Transports
    BY <1>1, <1>2 DEF Range
  <2> QED
    BY <2>1, LoggerConstants DEF Lg!Init
<1>5. 0 \in 0 .. MaxLogged /\ 0 \in 0 .. MaxSwaps /\ 1 \in Nat
  BY LoggerConstants
<1>6. Lg!Idle \in CallType /\ Lg!Idle.phase = "idle"
  BY <1>5 DEF Lg!Idle, CallType, Lg!Loggers, Lg!Levels
<1>7. <<>> \in Seq(Lg!Entries) /\ Len(<<>>) = 0 /\ IsInjective(<<>>) /\ Range(<<>>) = {}
  BY EmptySeq DEF IsInjective, Range
<1>8. LoggerTypes
  <2>1. /\ structured \in BOOLEAN /\ shut = {} /\ level = [t \in Transports |-> 1]
        /\ own = [by \in Lg!Loggers |-> 1] /\ children = FALSE /\ logged = 0
        /\ tasks = [e \in Lg!Entries |-> Lg!Idle] /\ swaps = 0
        /\ kept = [by \in Lg!Loggers |-> <<>>] /\ aggregated = kept /\ astray = FALSE /\ queried = FALSE
    BY DEF Lg!Init
  <2>2. tasks \in [Lg!Entries -> CallType]
    BY <1>6, <2>1
  <2> QED
    BY <1>3, <1>4, <1>5, <1>7, <2>1, <2>2 DEF LoggerTypes, CallType, Lg!Levels
<1>9. \A e \in Lg!Entries : CallFits(e)
  BY <1>6 DEF Lg!Init, CallFits
<1>10. ASSUME NEW a \in Lg!Loggers PROVE AggregatorFits(a)
  <2>1. aggregated[a] = <<>> /\ kept[a] = <<>> /\ Len(<<>>) < MaxKept
    BY <1>7, LoggerConstants DEF Lg!Init
  <2> QED
    BY <1>7, <2>1 DEF AggregatorFits
<1> QED
  BY <1>8, <1>9, <1>10 DEF LoggerInv, Lg!Init

\* What an aggregator was given stays as it is for as long as it is given nothing.
LEMMA AggregatorRests ==
  ASSUME NEW a \in Lg!Loggers, AggregatorFits(a), LoggerTypes, logged' \in Nat, logged <= logged',
         kept'[a] = kept[a], aggregated'[a] = aggregated[a], queried' = queried,
         \A e \in Lg!Entries : tasks[e].phase = "idle" /\ e <= logged => tasks'[e].phase = "idle"
  PROVE  AggregatorFits(a)'
<1>1. \A i \in DOMAIN aggregated[a] : aggregated[a][i] \in Lg!Entries /\ aggregated[a][i] \in Nat
  <2>1. aggregated[a] \in Seq(Lg!Entries)
    BY DEF LoggerTypes
  <2>2. \A q \in Seq(Lg!Entries) : \A i \in DOMAIN q : q[i] \in Lg!Entries
    BY LenProperties, ElementOfSeq
  <2>3. Lg!Entries \subseteq Nat
    BY LoggerConstants DEF Lg!Entries
  <2> QED
    BY <2>1, <2>2, <2>3
<1>2. logged \in Nat
  BY LoggerConstants DEF LoggerTypes
<1>3. \A i \in DOMAIN aggregated'[a] :
        aggregated'[a][i] <= logged' /\ tasks'[aggregated'[a][i]].phase = "idle"
  <2> SUFFICES ASSUME NEW i \in DOMAIN aggregated[a]
               PROVE  aggregated[a][i] <= logged' /\ tasks'[aggregated[a][i]].phase = "idle"
    OBVIOUS
  <2>1. aggregated[a][i] <= logged /\ tasks[aggregated[a][i]].phase = "idle"
    BY DEF AggregatorFits
  <2> QED
    BY <1>1, <1>2, <2>1
<1> QED
  BY <1>3 DEF AggregatorFits

\* The entries that are not handed on by the step.
LEMMA CallRests ==
  ASSUME NEW e \in Lg!Entries, CallFits(e), LoggerTypes, logged' \in Nat, logged <= logged',
         children => children', tasks'[e] = tasks[e],
         UNCHANGED <<transports, writers, shut, level>>
  PROVE  CallFits(e)'
<1>1. e \in Nat /\ logged \in Nat
  BY LoggerConstants DEF LoggerTypes, Lg!Entries
<1>2. tasks[e].phase = "loop" => e <= logged' /\ (tasks[e].by = "child" => children')
                                  /\ tasks[e].next # 0
  BY <1>1 DEF CallFits
<1>3. tasks[e].phase = "loop" /\ ~tasks[e].disturbed => OnItsWay(tasks[e])
  BY DEF CallFits
<1>4. OnItsWay(tasks[e]) => OnItsWay(tasks[e])'
  BY DEF OnItsWay, Lg!Takes
<1> QED
  BY <1>2, <1>3, <1>4 DEF CallFits

\* A call goes on from where it is.
LEMMA ProceedKeeps ==
  ASSUME LoggerInv, NEW e \in Lg!Entries, NEW call \in CallType, call.phase = "loop", call.next # 0,
         ~call.disturbed => OnItsWay(call), call.by = "child" => children, Lg!Proceed(e, call),
         \A a \in Lg!Loggers : e \notin Range(aggregated[a]),
         logged' \in 0 .. MaxLogged, logged <= logged', e <= logged',
         UNCHANGED <<structured, transports, writers, shut, level, own, children, swaps, queried>>
  PROVE  LoggerInv'
<1> DEFINE stop == Lg!Stop(call.next, call.by, call.level)
           ended == stop > Len(transports)
           gets == {t \in Lg!Reached(call.next, stop) : Lg!Takes(t, call.by, call.level)}
           wrong == gets \cap call.got # {} \/ (ended /\ ~(call.known \subseteq call.got \cup gets))
           later == [call EXCEPT !.next = stop + 1, !.got = @ \cup gets]
           a == Lg!Aggregator(call.by)
           more == Append(kept[a], e)
           last == SubSeq(more, Lg!Max({1, Len(more) - MaxKept + 1}), Len(more))
<1>1. /\ astray' = (astray \/ (wrong /\ ~call.disturbed))
      /\ tasks' = [tasks EXCEPT ![e] = IF ended THEN Lg!Idle ELSE later]
      /\ IF ended THEN Lg!Aggregate(e, a) ELSE UNCHANGED <<kept, aggregated>>
  BY DEF Lg!Proceed
<1>2. /\ call.next \in Nat /\ call.by \in Lg!Loggers /\ call.level \in Lg!Levels
      /\ call.known \in SUBSET Transports /\ call.got \in SUBSET Transports
      /\ call.disturbed \in BOOLEAN
  BY DEF CallType
<1>3. /\ transports \in Seq(Transports) /\ IsInjective(transports) /\ Len(transports) \in Nat
      /\ DOMAIN transports = 1 .. Len(transports) /\ LoggerTypes
      /\ \A i \in 1 .. Len(transports) : transports[i] \in Transports
  BY LenProperties, ElementOfSeq DEF LoggerInv, LoggerTypes
<1>4. /\ stop \in Nat /\ stop # 0
      /\ stop = Len(transports) + 1 \/ (call.next <= stop /\ stop <= Len(transports))
      /\ \A t : t \in Lg!Reached(call.next, stop) <=>
           \E j \in DOMAIN transports : call.next <= j /\ j <= stop /\ transports[j] = t
  BY <1>2, <1>3, StopFacts
<1>5. \A t : t \in gets <=>
        /\ \E j \in DOMAIN transports : call.next <= j /\ j <= stop /\ transports[j] = t
        /\ Lg!Takes(t, call.by, call.level)
  BY <1>4
<1>6. gets \in SUBSET Transports
  BY <1>3, <1>5
<1> HIDE DEF stop, gets
<1>7. ASSUME ~call.disturbed PROVE ~wrong
  <2>1. /\ call.got = {t \in Range(transports) :
                         /\ \E i \in DOMAIN transports : transports[i] = t /\ i < call.next
                         /\ Lg!Takes(t, call.by, call.level)}
        /\ \A t \in call.known : t \in Range(transports) /\ Lg!Takes(t, call.by, call.level)
    BY <1>7 DEF OnItsWay
  <2>2. gets \cap call.got = {}
    <3> SUFFICES ASSUME NEW t \in gets, t \in call.got PROVE FALSE
      OBVIOUS
    <3>1. PICK j \in DOMAIN transports : call.next <= j /\ j <= stop /\ transports[j] = t
      BY <1>5
    <3>2. PICK i \in DOMAIN transports : transports[i] = t /\ i < call.next
      BY <2>1
    <3>3. i = j
      BY <1>3, <3>1, <3>2 DEF IsInjective
    <3> QED
      BY <1>2, <1>3, <3>1, <3>2, <3>3
  <2>3. ASSUME ended, NEW t \in call.known PROVE t \in call.got \cup gets
    <3>1. t \in Range(transports) /\ Lg!Takes(t, call.by, call.level)
      BY <2>1
    <3>2. PICK j \in DOMAIN transports : transports[j] = t
      BY <3>1 DEF Range
    <3>3. j < call.next \/ (call.next <= j /\ j <= stop)
      BY <1>2, <1>3, <1>4, <2>3
    <3> QED
      BY <1>5, <2>1, <3>1, <3>2, <3>3
  <2> QED
    BY <2>2, <2>3
<1>8. ~astray' /\ astray' \in BOOLEAN
  <2> HIDE DEF wrong
  <2> QED
    BY <1>1, <1>7, Zenon DEF LoggerInv
<1>9. Lg!Idle \in CallType /\ Lg!Idle.phase = "idle"
  BY DEF Lg!Idle, CallType, Lg!Loggers, Lg!Levels
<1>10. /\ later \in CallType /\ later.phase = "loop" /\ later.by = call.by /\ later.level = call.level
       /\ later.next = stop + 1 /\ later.got = call.got \cup gets /\ later.known = call.known
       /\ later.disturbed = call.disturbed
  <2>1. stop + 1 \in Nat
    BY <1>4
  <2> QED
    BY <1>2, <1>6, <2>1 DEF CallType
<1> HIDE DEF later
<1>11. /\ tasks \in [Lg!Entries -> CallType] /\ tasks' \in [Lg!Entries -> CallType]
       /\ tasks'[e] = (IF ended THEN Lg!Idle ELSE later)
       /\ \A f \in Lg!Entries : f # e => tasks'[f] = tasks[f]
  BY <1>1, <1>9, <1>10 DEF LoggerInv, LoggerTypes, CallType
<1>12. ASSUME ~ended, ~call.disturbed PROVE OnItsWay(tasks[e])'
  <2>1. /\ call.got = {t \in Range(transports) :
                         /\ \E i \in DOMAIN transports : transports[i] = t /\ i < call.next
                         /\ Lg!Takes(t, call.by, call.level)}
        /\ \A t \in call.known : t \in Range(transports) /\ Lg!Takes(t, call.by, call.level)
    BY <1>12 DEF OnItsWay
  <2>2. \A t : Lg!Takes(t, call.by, call.level)' <=> Lg!Takes(t, call.by, call.level)
    BY DEF Lg!Takes
  <2>3. stop + 1 \in 1 .. Len(transports) + 1
    BY <1>3, <1>4, <1>12
  <2>4. \A j \in DOMAIN transports : j < stop + 1 <=> (j < call.next \/ (call.next <= j /\ j <= stop))
    BY <1>2, <1>3, <1>4, <1>12
  <2>5. call.got \cup gets = {t \in Range(transports) :
                         /\ \E i \in DOMAIN transports : transports[i] = t /\ i < stop + 1
                         /\ Lg!Takes(t, call.by, call.level)}
    <3>1. ASSUME NEW t \in call.got \cup gets
          PROVE  /\ t \in Range(transports) /\ Lg!Takes(t, call.by, call.level)
                 /\ \E i \in DOMAIN transports : transports[i] = t /\ i < stop + 1
      <4>1. CASE t \in call.got
        BY <2>1, <2>4, <4>1
      <4>2. CASE t \in gets
        BY <1>5, <2>4, <4>2 DEF Range
      <4> QED
        BY <3>1, <4>1, <4>2
    <3>2. ASSUME NEW t \in Range(transports), Lg!Takes(t, call.by, call.level),
                 NEW i \in DOMAIN transports, transports[i] = t, i < stop + 1
          PROVE  t \in call.got \cup gets
      BY <1>5, <2>1, <2>4, <3>2
    <3> QED
      BY <3>1, <3>2
  <2> QED
    BY <1>10, <1>11, <1>12, <2>1, <2>2, <2>3, <2>5 DEF OnItsWay
<1>13. \A f \in Lg!Entries : CallFits(f)'
  <2>1. ASSUME NEW f \in Lg!Entries, f # e PROVE CallFits(f)'
    <3>1. tasks'[f] = tasks[f] /\ logged' \in Nat /\ CallFits(f)
      BY <1>11, <2>1, LoggerConstants DEF LoggerInv
    <3> QED
      BY <3>1, <1>3, CallRests
  <2>2. CASE ended
    <3>1. CallFits(e)'
      BY <1>9, <1>11, <2>2 DEF CallFits
    <3> QED
      BY <2>1, <3>1
  <2>3. CASE ~ended
    <3>1. tasks'[e] = later /\ stop + 1 # 0
      BY <1>4, <1>11, <2>3
    <3>2. CallFits(e)'
      BY <1>10, <1>12, <2>3, <3>1 DEF CallFits
    <3> QED
      BY <2>1, <3>2
  <2> QED
    BY <2>2, <2>3
<1>14. /\ a \in Lg!Loggers /\ kept[a] \in Seq(Lg!Entries) /\ aggregated[a] \in Seq(Lg!Entries)
  BY <1>2 DEF Lg!Aggregator, Lg!Loggers, LoggerInv, LoggerTypes
<1> HIDE DEF a
<1>15. logged' \in Nat
  BY LoggerConstants
<1>16. CASE ~ended
  <2>1. \A f \in Lg!Entries : tasks[f].phase = "idle" /\ f <= logged => tasks'[f].phase = "idle" \/ f = e
    BY <1>11
  <2>2. ASSUME NEW b \in Lg!Loggers PROVE AggregatorFits(b)'
    <3>1. /\ kept' = kept /\ aggregated' = aggregated /\ queried' = queried
          /\ AggregatorFits(b) /\ e \notin Range(aggregated[b])
      BY <1>1, <1>16 DEF LoggerInv
    <3>2. \A i \in DOMAIN aggregated[b] :
            /\ aggregated[b][i] \in Lg!Entries /\ aggregated[b][i] \in Nat /\ aggregated[b][i] # e
            /\ aggregated[b][i] <= logged /\ tasks[aggregated[b][i]].phase = "idle" /\ logged \in Nat
      <4>1. aggregated[b] \in Seq(Lg!Entries) /\ logged \in Nat
        BY LoggerConstants DEF LoggerInv, LoggerTypes
      <4>2. \A i \in DOMAIN aggregated[b] : aggregated[b][i] \in Lg!Entries
        BY <4>1, LenProperties, ElementOfSeq
      <4>3. Lg!Entries \subseteq Nat
        BY LoggerConstants DEF Lg!Entries
      <4>4. \A i \in DOMAIN aggregated[b] : aggregated[b][i] # e
        BY <3>1 DEF Range
      <4>5. \A i \in DOMAIN aggregated[b] :
              aggregated[b][i] <= logged /\ tasks[aggregated[b][i]].phase = "idle"
        BY <3>1 DEF AggregatorFits
      <4> QED
        BY <4>1, <4>2, <4>3, <4>4, <4>5
    <3>3. \A i \in DOMAIN aggregated[b] :
            aggregated[b][i] <= logged' /\ tasks'[aggregated[b][i]].phase = "idle"
      BY <1>11, <1>15, <3>2
    <3> QED
      BY <3>1, <3>3 DEF AggregatorFits
  <2>3. LoggerTypes'
    BY <1>1, <1>3, <1>8, <1>11, <1>16 DEF LoggerTypes, CallType
  <2> QED
    BY <1>8, <1>13, <2>2, <2>3 DEF LoggerInv
<1>17. CASE ended
  <2>1. /\ kept' = [kept EXCEPT ![a] = last]
        /\ aggregated' = [aggregated EXCEPT ![a] = Append(@, e)]
        /\ tasks' = [tasks EXCEPT ![e] = Lg!Idle]
    BY <1>1, <1>17 DEF Lg!Aggregate
  <2>2. KeptFits(kept[a], aggregated[a], queried) /\ AggregatorFits(a) /\ e \notin Range(aggregated[a])
    BY <1>14 DEF LoggerInv, AggregatorFits, KeptFits
  <2>3. more \in Seq(Lg!Entries) /\ Len(more) = Len(kept[a]) + 1 /\ Len(kept[a]) \in Nat /\ Len(more) # 0
    BY <1>14, AppendProperties, LenProperties
  <2>4. /\ last \in Seq(Lg!Entries)
        /\ Len(last) = IF Len(more) < MaxKept THEN Len(more) ELSE MaxKept
        /\ \A i \in 1 .. Len(last) : last[i] = more[Len(more) - Len(last) + i]
    BY <2>3, LastOnes
  <2> DEFINE given == Append(aggregated[a], e)
  <2>5. given \in Seq(Lg!Entries) /\ KeptFits(last, given, queried)
    <3>0. more = Append(kept[a], e)
      OBVIOUS
    <3> HIDE DEF last, more
    <3>1. Len(last) = IF Len(kept[a]) + 1 < MaxKept THEN Len(kept[a]) + 1 ELSE MaxKept
      BY <2>3, <2>4
    <3>2. \A i \in 1 .. Len(last) : last[i] = more[Len(kept[a]) + 1 - Len(last) + i]
      BY <2>3, <2>4
    <3>3. \A i \in 1 .. Len(last) : last[i] = Append(kept[a], e)[Len(kept[a]) + 1 - Len(last) + i]
      BY <3>0, <3>2, Zenon
    <3> QED
      BY <1>14, <2>2, <2>4, <3>1, <3>3, KeptAppend
  <2>6. /\ kept'[a] = last /\ aggregated'[a] = given
        /\ \A b \in Lg!Loggers : b # a => kept'[b] = kept[b] /\ aggregated'[b] = aggregated[b]
        /\ kept' \in [Lg!Loggers -> Seq(Lg!Entries)] /\ aggregated' \in [Lg!Loggers -> Seq(Lg!Entries)]
    <3> HIDE DEF last
    <3> QED
      BY <1>14, <2>1, <2>4, <2>5 DEF LoggerInv, LoggerTypes
  <2> HIDE DEF more, last
  <2>7. \A f \in Lg!Entries : tasks[f].phase = "idle" => tasks'[f].phase = "idle"
    BY <1>9, <1>11, <1>17
  <2>8. \A i \in DOMAIN given : given[i] <= logged' /\ tasks'[given[i]].phase = "idle"
    <3>1. /\ aggregated[a] \in Seq(Lg!Entries) /\ Len(aggregated[a]) \in Nat
          /\ DOMAIN aggregated[a] = 1 .. Len(aggregated[a]) /\ DOMAIN given = 1 .. Len(aggregated[a]) + 1
          /\ \A i \in 1 .. Len(aggregated[a]) : given[i] = aggregated[a][i]
          /\ given[Len(aggregated[a]) + 1] = e
      BY <1>14, AppendProperties, LenProperties
    <3>2. \A i \in 1 .. Len(aggregated[a]) :
            /\ aggregated[a][i] \in Lg!Entries /\ aggregated[a][i] \in Nat
            /\ aggregated[a][i] <= logged /\ tasks[aggregated[a][i]].phase = "idle" /\ logged \in Nat
      <4>1. \A i \in 1 .. Len(aggregated[a]) : aggregated[a][i] \in Lg!Entries
        BY <1>14, ElementOfSeq
      <4>2. Lg!Entries \subseteq Nat /\ logged \in Nat
        BY LoggerConstants DEF Lg!Entries, LoggerInv, LoggerTypes
      <4> QED
        BY <2>2, <3>1, <4>1, <4>2 DEF AggregatorFits
    <3>3. tasks'[e].phase = "idle" /\ e <= logged'
      BY <1>9, <1>11, <1>17
    <3> HIDE DEF given
    <3>4. ASSUME NEW i \in 1 .. Len(aggregated[a])
          PROVE  given[i] <= logged' /\ tasks'[given[i]].phase = "idle"
      BY <1>15, <2>7, <3>1, <3>2
    <3>5. \A i \in DOMAIN given : i \in 1 .. Len(aggregated[a]) \/ i = Len(aggregated[a]) + 1
      BY <3>1
    <3> QED
      BY <3>1, <3>3, <3>4, <3>5
  <2> HIDE DEF given
  <2>9. ASSUME NEW b \in Lg!Loggers, b = a PROVE AggregatorFits(b)'
    <3>1. kept'[b] = last /\ aggregated'[b] = given /\ queried' = queried
      BY <2>6, <2>9
    <3> QED
      BY <2>5, <2>8, <3>1 DEF AggregatorFits, KeptFits
  <2>10. ASSUME NEW b \in Lg!Loggers, b # a PROVE AggregatorFits(b)'
    <3>1. AggregatorFits(b) /\ kept'[b] = kept[b] /\ aggregated'[b] = aggregated[b]
      BY <2>6, <2>10 DEF LoggerInv
    <3> QED
      BY <1>3, <1>15, <2>7, <3>1, AggregatorRests
  <2>11. LoggerTypes'
    BY <1>3, <1>8, <1>11, <2>6 DEF LoggerTypes, CallType
  <2> QED
    BY <1>8, <1>13, <2>9, <2>10, <2>11 DEF LoggerInv
<1> QED
  BY <1>16, <1>17

\* Entries that were not logged yet, and those on their way, were given to nobody.
LEMMA NotYetGiven ==
  ASSUME LoggerInv, NEW e \in Lg!Entries, ~(e <= logged) \/ tasks[e].phase = "loop",
         NEW a \in Lg!Loggers
  PROVE  e \notin Range(aggregated[a])
BY DEF LoggerInv, AggregatorFits, Range

LEMMA LogKeeps ==
  ASSUME LoggerInv, NEW by \in Lg!Loggers, NEW lv \in Lg!Levels, Lg!Log(by, lv)
  PROVE  LoggerInv'
<1> DEFINE e == logged + 1
           call == [Lg!Idle EXCEPT !.phase = "loop", !.by = by, !.level = lv,
                      !.known = {t \in Lg!ToSet(transports) : Lg!Takes(t, by, lv)}]
<1>1. /\ e <= MaxLogged /\ logged' = e /\ (by = "child" => children) /\ Lg!Proceed(e, call)
      /\ UNCHANGED <<structured, transports, writers, shut, level, own, children, swaps, queried>>
  BY DEF Lg!Log, Lg!arrayVars
<1>2. logged \in Nat /\ e \in Lg!Entries /\ logged' \in 0 .. MaxLogged /\ logged <= logged' /\ e <= logged'
      /\ ~(e <= logged)
  BY <1>1, LoggerConstants DEF Lg!Entries, LoggerInv, LoggerTypes
<1>3. Lg!ToSet(transports) = Range(transports) /\ Range(transports) \subseteq Transports
      /\ Len(transports) \in Nat /\ DOMAIN transports = 1 .. Len(transports)
  BY LoggerConstants, LenProperties, ElementOfSeq DEF LoggerInv, LoggerTypes, Range
<1>4. /\ call \in CallType /\ call.phase = "loop" /\ call.by = by /\ call.level = lv /\ call.next = 1
      /\ call.got = {} /\ call.known = {t \in Range(transports) : Lg!Takes(t, by, lv)}
  BY <1>3 DEF CallType, Lg!Idle, Lg!Loggers, Lg!Levels
<1> HIDE DEF call
<1>5. OnItsWay(call)
  <2>1. 1 \in 1 .. Len(transports) + 1 /\ \A i \in DOMAIN transports : ~(i < 1)
    BY <1>3
  <2> QED
    BY <1>4, <2>1 DEF OnItsWay
<1>6. \A a \in Lg!Loggers : e \notin Range(aggregated[a])
  BY <1>2, NotYetGiven
<1>7. call.next # 0 /\ (call.by = "child" => children)
  BY <1>1, <1>4
<1> HIDE DEF e
<1> QED
  BY <1>1, <1>2, <1>4, <1>5, <1>6, <1>7, ProceedKeeps

LEMMA ResumeKeeps ==
  ASSUME LoggerInv, NEW e \in Lg!Entries, Lg!Resume(e) PROVE LoggerInv'
<1>1. /\ tasks[e].phase = "loop" /\ Lg!Proceed(e, tasks[e]) /\ logged' = logged
      /\ UNCHANGED <<structured, transports, writers, shut, level, own, children, swaps, queried>>
  BY DEF Lg!Resume, Lg!arrayVars
<1>2. /\ tasks[e] \in CallType /\ CallFits(e) /\ logged \in Nat /\ logged \in 0 .. MaxLogged
      /\ logged' \in 0 .. MaxLogged
  BY <1>1, LoggerConstants DEF LoggerInv, LoggerTypes, CallType
<1>3. /\ e <= logged /\ (tasks[e].by = "child" => children) /\ tasks[e].next # 0
      /\ ~tasks[e].disturbed => OnItsWay(tasks[e])
  BY <1>1, <1>2 DEF CallFits
<1>4. \A a \in Lg!Loggers : e \notin Range(aggregated[a])
  BY <1>1, NotYetGiven
<1>5. logged <= logged' /\ e <= logged'
  BY <1>1, <1>2, <1>3
<1> QED
  BY <1>1, <1>2, <1>3, <1>4, <1>5, ProceedKeeps

LEMMA WriterRejectsKeeps ==
  ASSUME LoggerInv, NEW e \in Lg!Entries, Lg!WriterRejects(e) PROVE LoggerInv'
<1>1. /\ tasks' = [tasks EXCEPT ![e] = Lg!Idle] /\ UNCHANGED <<logged, kept, aggregated, astray>>
      /\ UNCHANGED <<structured, transports, writers, shut, level, own, children, swaps, queried>>
  BY DEF Lg!WriterRejects, Lg!arrayVars, Lg!logVars
<1>2. Lg!Idle \in CallType /\ Lg!Idle.phase = "idle"
  BY DEF Lg!Idle, CallType, Lg!Loggers, Lg!Levels
<1>3. /\ tasks' \in [Lg!Entries -> CallType] /\ tasks'[e] = Lg!Idle
      /\ \A f \in Lg!Entries : f # e => tasks'[f] = tasks[f]
  BY <1>1, <1>2 DEF LoggerInv, LoggerTypes, CallType
<1>4. LoggerTypes' /\ LoggerTypes
  BY <1>1, <1>3 DEF LoggerInv, LoggerTypes, CallType
<1>5. logged' \in Nat /\ logged <= logged'
  BY <1>1, LoggerConstants DEF LoggerInv, LoggerTypes
<1>6. ASSUME NEW f \in Lg!Entries PROVE CallFits(f)'
  <2>1. CASE f = e
    BY <1>2, <1>3, <2>1 DEF CallFits
  <2>2. CASE f # e
    <3>1. CallFits(f) /\ tasks'[f] = tasks[f]
      BY <1>3, <2>2 DEF LoggerInv
    <3> QED
      BY <1>1, <1>4, <1>5, <3>1, CallRests
  <2> QED
    BY <2>1, <2>2
<1>7. \A f \in Lg!Entries : tasks[f].phase = "idle" => tasks'[f].phase = "idle"
  BY <1>2, <1>3
<1>8. ASSUME NEW a \in Lg!Loggers PROVE AggregatorFits(a)'
  BY <1>1, <1>4, <1>5, <1>7, AggregatorRests DEF LoggerInv
<1> QED
  BY <1>1, <1>4, <1>6, <1>8 DEF LoggerInv

\* A change of the array or the levels concerns no aggregator, and of the calls on their
\* way only those that it does not disturb and that still find their transports as they were.
LEMMA ChangeKeeps ==
  ASSUME LoggerInv, LoggerTypes', UNCHANGED <<logged, kept, aggregated, astray, queried>>,
         children => children',
         \A e \in Lg!Entries : tasks'[e] = tasks[e] \/ tasks'[e] = [tasks[e] EXCEPT !.disturbed = TRUE],
         \A e \in Lg!Entries : tasks[e].phase = "loop" /\ ~tasks'[e].disturbed /\ OnItsWay(tasks[e])
                                 => OnItsWay(tasks[e])'
  PROVE  LoggerInv'
<1>1. LoggerTypes /\ logged \in Nat /\ logged' \in Nat /\ logged <= logged'
  BY LoggerConstants DEF LoggerInv, LoggerTypes
<1>2. ASSUME NEW e \in Lg!Entries
      PROVE  /\ tasks'[e].phase = tasks[e].phase /\ tasks'[e].by = tasks[e].by
             /\ tasks'[e].next = tasks[e].next /\ (tasks'[e] # tasks[e] => tasks'[e].disturbed)
  <2>1. tasks[e] \in CallType
    BY <1>1 DEF LoggerTypes, CallType
  <2> QED
    BY <2>1 DEF CallType
<1>3. ASSUME NEW e \in Lg!Entries PROVE CallFits(e)'
  <2>1. CallFits(e)
    BY DEF LoggerInv
  <2>2. tasks'[e].phase = "loop" =>
          e <= logged' /\ (tasks'[e].by = "child" => children') /\ tasks'[e].next # 0
    BY <1>2, <2>1 DEF CallFits
  <2>3. ASSUME tasks'[e].phase = "loop", ~tasks'[e].disturbed PROVE OnItsWay(tasks[e])'
    <3>1. tasks'[e] = tasks[e]
      BY <1>2, <2>3
    <3>2. tasks[e].phase = "loop" /\ ~tasks[e].disturbed
      BY <2>3, <3>1
    <3>3. OnItsWay(tasks[e])
      BY <2>1, <3>2 DEF CallFits
    <3> QED
      BY <2>3, <3>2, <3>3
  <2> QED
    BY <2>2, <2>3 DEF CallFits
<1>4. \A f \in Lg!Entries : tasks[f].phase = "idle" => tasks'[f].phase = "idle"
  BY <1>2
<1>5. ASSUME NEW a \in Lg!Loggers PROVE AggregatorFits(a)'
  BY <1>1, <1>4, AggregatorRests DEF LoggerInv
<1> QED
  BY <1>3, <1>5 DEF LoggerInv

\* The calls that the change disturbs.
LEMMA DisturbFacts ==
  ASSUME LoggerTypes, Lg!Disturb
  PROVE  /\ tasks' \in [Lg!Entries -> CallType]
         /\ \A e \in Lg!Entries : tasks'[e] = tasks[e] \/ tasks'[e] = [tasks[e] EXCEPT !.disturbed = TRUE]
         /\ \A e \in Lg!Entries : tasks[e].phase = "loop" => tasks'[e].disturbed
<1>1. tasks' = [e \in Lg!Entries |-> IF e \in Lg!Waiting THEN [tasks[e] EXCEPT !.disturbed = TRUE]
                                      ELSE tasks[e]]
  BY DEF Lg!Disturb
<1>2. ASSUME NEW e \in Lg!Entries
      PROVE  /\ tasks[e] \in CallType /\ [tasks[e] EXCEPT !.disturbed = TRUE] \in CallType
             /\ [tasks[e] EXCEPT !.disturbed = TRUE].disturbed = TRUE
  <2>1. tasks[e] \in CallType
    BY DEF LoggerTypes, CallType
  <2> QED
    BY <2>1 DEF CallType
<1> QED
  BY <1>1, <1>2 DEF Lg!Waiting

LEMMA AddTransportKeeps ==
  ASSUME LoggerInv, NEW by \in Lg!Loggers, NEW t \in Transports, Lg!addTransport(by, t)
  PROVE  LoggerInv'
<1>1. /\ transports' = Append(transports, t) /\ ~Lg!Contains(transports, t)
      /\ writers' = IF writers[by] # {} THEN [writers EXCEPT ![by] = @ \cup {t}] ELSE writers
      /\ shut' = IF writers[by] # {} THEN shut \ {<<by, t>>} ELSE shut
      /\ swaps < MaxSwaps /\ swaps' = swaps + 1
      /\ UNCHANGED <<structured, logged, kept, aggregated, astray, queried, level, own, children, tasks>>
  BY DEF Lg!addTransport, Lg!Change, Lg!AppendTransport, Lg!logVars
<1>2. /\ LoggerTypes /\ transports \in Seq(Transports) /\ IsInjective(transports)
      /\ Len(transports) \in Nat /\ DOMAIN transports = 1 .. Len(transports)
  BY LenProperties DEF LoggerInv, LoggerTypes
<1>3. t \notin Range(transports)
  BY <1>1, <1>2 DEF Lg!Contains, Range
<1>4. /\ transports' \in Seq(Transports) /\ IsInjective(transports')
      /\ Range(transports') = Range(transports) \cup {t} /\ Len(transports') = Len(transports) + 1
      /\ DOMAIN transports' = 1 .. Len(transports) + 1
      /\ \A i \in 1 .. Len(transports) : transports'[i] = transports[i]
      /\ transports'[Len(transports) + 1] = t
  BY <1>1, <1>2, <1>3, AppendProperties, RangeAppend, InjectiveAppend, LenProperties
<1>5. swaps' \in 0 .. MaxSwaps
  BY <1>1, <1>2, LoggerConstants DEF LoggerTypes
<1>6. writers' \in [Lg!Loggers -> SUBSET Transports] /\ shut' \subseteq Lg!Loggers \X Transports
  BY <1>1, <1>2 DEF LoggerTypes
<1>7. LoggerTypes'
  BY <1>1, <1>2, <1>4, <1>5, <1>6 DEF LoggerTypes
<1>8. ASSUME NEW u \in Range(transports), NEW who \in Lg!Loggers, NEW lv
      PROVE  Lg!Takes(u, who, lv)' <=> Lg!Takes(u, who, lv)
  <2>1. u # t
    BY <1>3
  <2>2. u \in writers'[who] <=> u \in writers[who]
    BY <1>1, <1>2, <2>1 DEF LoggerTypes
  <2>3. <<who, u>> \in shut' <=> <<who, u>> \in shut
    BY <1>1, <2>1
  <2> QED
    BY <1>1, <2>2, <2>3 DEF Lg!Takes
<1>9. ASSUME NEW e \in Lg!Entries, OnItsWay(tasks[e]) PROVE OnItsWay(tasks[e])'
  <2>1. PICK call \in CallType : call = tasks[e] /\ call = tasks'[e]
    BY <1>1, <1>2 DEF LoggerTypes, CallType
  <2>2. call.by \in Lg!Loggers
    BY <2>1 DEF CallType
  <2>3. /\ call.next \in 1 .. Len(transports) + 1
        /\ call.got = {u \in Range(transports) :
                         /\ \E i \in DOMAIN transports : transports[i] = u /\ i < call.next
                         /\ Lg!Takes(u, call.by, call.level)}
        /\ \A u \in call.known : u \in Range(transports) /\ Lg!Takes(u, call.by, call.level)
    BY <1>9, <2>1 DEF OnItsWay
  <2>4. call.next \in 1 .. Len(transports') + 1
    BY <1>2, <1>4, <2>3
  <2>5. call.got = {u \in Range(transports') :
                      /\ \E i \in DOMAIN transports' : transports'[i] = u /\ i < call.next
                      /\ Lg!Takes(u, call.by, call.level)'}
    <3>1. ASSUME NEW u PROVE (\E i \in DOMAIN transports' : transports'[i] = u /\ i < call.next)
                       <=> (\E i \in DOMAIN transports : transports[i] = u /\ i < call.next)
      <4>1. \A i \in DOMAIN transports' : i < call.next => i \in DOMAIN transports
        BY <1>2, <1>4, <2>3
      <4>2. \A i \in DOMAIN transports : i \in DOMAIN transports' /\ transports'[i] = transports[i]
        BY <1>2, <1>4
      <4> QED
        BY <4>1, <4>2
    <3>2. \A u : (\E i \in DOMAIN transports : transports[i] = u /\ i < call.next)
                   => u \in Range(transports)
      BY DEF Range
    <3> QED
      BY <1>4, <1>8, <2>2, <2>3, <3>1, <3>2
  <2>6. \A u \in call.known : u \in Range(transports') /\ Lg!Takes(u, call.by, call.level)'
    BY <1>4, <1>8, <2>2, <2>3
  <2> QED
    BY <2>1, <2>4, <2>5, <2>6 DEF OnItsWay
<1> QED
  BY <1>1, <1>7, <1>9, ChangeKeeps

LEMMA RemoveTransportKeeps ==
  ASSUME LoggerInv, NEW by \in Lg!Loggers, NEW t \in Transports, Lg!removeTransport(by, t)
  PROVE  LoggerInv'
<1>1. /\ \E i \in DOMAIN transports : transports[i] = t /\ transports' = Lg!RemoveAt(transports, i)
      /\ writers' = [writers EXCEPT ![by] = @ \ {t}] /\ shut' = shut \ {<<by, t>>} /\ Lg!Disturb
      /\ swaps < MaxSwaps /\ swaps' = swaps + 1
      /\ UNCHANGED <<structured, logged, kept, aggregated, astray, queried, level, own, children>>
  BY DEF Lg!removeTransport, Lg!Change, Lg!logVars
<1>2. LoggerTypes /\ transports \in Seq(Transports) /\ IsInjective(transports)
      /\ DOMAIN transports = 1 .. Len(transports)
  BY LenProperties DEF LoggerInv, LoggerTypes
<1>3. transports' \in Seq(Transports) /\ IsInjective(transports')
  <2>1. PICK i \in DOMAIN transports : transports' = Lg!RemoveAt(transports, i)
    BY <1>1
  <2>2. transports' = SubSeq(transports, 1, i - 1) \o SubSeq(transports, i + 1, Len(transports))
    BY <2>1 DEF Lg!RemoveAt
  <2> QED
    BY <1>2, <2>2, RemoveFromLine
<1>4. swaps' \in 0 .. MaxSwaps
  BY <1>1, <1>2, LoggerConstants DEF LoggerTypes
<1>5. writers' \in [Lg!Loggers -> SUBSET Transports] /\ shut' \subseteq Lg!Loggers \X Transports
  BY <1>1, <1>2 DEF LoggerTypes
<1>6. LoggerTypes'
  BY <1>1, <1>2, <1>3, <1>4, <1>5, DisturbFacts DEF LoggerTypes, CallType
<1> QED
  BY <1>1, <1>2, <1>6, DisturbFacts, ChangeKeeps

LEMMA SetLevelKeeps ==
  ASSUME LoggerInv, NEW by \in Lg!Loggers, NEW lv \in Lg!Levels, Lg!setLevel(by, lv)
  PROVE  LoggerInv'
<1>1. /\ own' = [own EXCEPT ![by] = lv] /\ Lg!Disturb
      /\ level' = [t \in Transports |->
                     IF Lg!Contains(transports, t) /\ ~structured THEN lv ELSE level[t]]
      /\ swaps < MaxSwaps /\ swaps' = swaps + 1
      /\ UNCHANGED <<structured, logged, kept, aggregated, astray, queried, transports, writers, shut,
                     children>>
  BY DEF Lg!setLevel, Lg!Change, Lg!logVars
<1>2. LoggerTypes
  BY DEF LoggerInv
<1>3. swaps' \in 0 .. MaxSwaps
  BY <1>1, <1>2, LoggerConstants DEF LoggerTypes
<1>4. LoggerTypes'
  BY <1>1, <1>2, <1>3, DisturbFacts DEF LoggerTypes, CallType
<1> QED
  BY <1>1, <1>2, <1>4, DisturbFacts, ChangeKeeps

LEMMA CloseLoggerKeeps ==
  ASSUME LoggerInv, NEW by \in Lg!Loggers, Lg!close(by) PROVE LoggerInv'
<1>1. /\ shut' = shut \cup {<<by, t>> : t \in writers[by]} /\ Lg!Disturb
      /\ swaps < MaxSwaps /\ swaps' = swaps + 1
      /\ UNCHANGED <<structured, logged, kept, aggregated, astray, queried, transports, writers, level,
                     own, children>>
  BY DEF Lg!close, Lg!Change, Lg!logVars
<1>2. LoggerTypes
  BY DEF LoggerInv
<1>3. swaps' \in 0 .. MaxSwaps
  BY <1>1, <1>2, LoggerConstants DEF LoggerTypes
<1>4. LoggerTypes'
  <2>1. tasks' \in [Lg!Entries -> CallType]
    BY <1>1, <1>2, DisturbFacts
  <2>2. shut' \subseteq Lg!Loggers \X Transports
    <3>1. writers[by] \subseteq Transports
      BY <1>2 DEF LoggerTypes
    <3> QED
      BY <1>1, <1>2, <3>1 DEF LoggerTypes
  <2> QED
    BY <1>1, <1>2, <1>3, <2>1, <2>2 DEF LoggerTypes, CallType
<1> QED
  BY <1>1, <1>2, <1>4, DisturbFacts, ChangeKeeps

\* The child's calls come after the child.
LEMMA ChildKeeps ==
  ASSUME LoggerInv, Lg!child PROVE LoggerInv'
<1>1. /\ ~children /\ children' = TRUE /\ own' = [own EXCEPT !["child"] = own["parent"]]
      /\ writers' = IF writers["parent"] # {} THEN [writers EXCEPT !["child"] = Lg!ToSet(transports)]
                    ELSE writers
      /\ UNCHANGED <<structured, logged, kept, aggregated, astray, queried, transports, shut, level,
                     tasks, swaps>>
  BY DEF Lg!child, Lg!logVars
<1>2. LoggerTypes /\ Lg!ToSet(transports) \subseteq Transports
  BY LoggerConstants, LenProperties, ElementOfSeq DEF LoggerInv, LoggerTypes, Range
<1>3. LoggerTypes'
  BY <1>1, <1>2 DEF LoggerTypes, Lg!Loggers
<1>4. ASSUME NEW e \in Lg!Entries, tasks[e].phase = "loop", OnItsWay(tasks[e]) PROVE OnItsWay(tasks[e])'
  <2>1. tasks[e].by = "parent" /\ tasks'[e] = tasks[e]
    <3>1. CallFits(e) /\ tasks[e] \in CallType
      BY <1>2 DEF LoggerInv, LoggerTypes, CallType
    <3> QED
      BY <1>1, <1>4, <3>1 DEF CallFits, CallType, Lg!Loggers
  <2>2. writers'["parent"] = writers["parent"]
    BY <1>1, <1>2 DEF LoggerTypes, Lg!Loggers
  <2>3. \A t, lv : Lg!Takes(t, "parent", lv)' <=> Lg!Takes(t, "parent", lv)
    BY <1>1, <2>2 DEF Lg!Takes
  <2> QED
    BY <1>1, <1>4, <2>1, <2>3 DEF OnItsWay
<1> QED
  BY <1>1, <1>3, <1>4, ChangeKeeps

\* query() keeps the same entries in another order.
LEMMA QueryKeeps ==
  ASSUME LoggerInv, NEW a \in Lg!Loggers, Lg!query(a) PROVE LoggerInv'
<1>1. PICK sorted \in [DOMAIN kept[a] -> Lg!ToSet(kept[a])] :
        /\ \A i, j \in DOMAIN sorted : i < j => sorted[i] > sorted[j]
        /\ kept' = [kept EXCEPT ![a] = sorted]
  BY DEF Lg!query
<1>2. /\ queried' = TRUE
      /\ UNCHANGED <<structured, transports, writers, shut, level, own, children, logged, tasks,
                     swaps, aggregated, astray>>
  BY DEF Lg!query
<1>3. /\ LoggerTypes /\ AggregatorFits(a) /\ kept[a] \in Seq(Lg!Entries) /\ Len(kept[a]) \in Nat
      /\ DOMAIN kept[a] = 1 .. Len(kept[a]) /\ Lg!ToSet(kept[a]) = Range(kept[a])
  BY LoggerConstants, LenProperties DEF LoggerInv, LoggerTypes
<1>4. Range(kept[a]) \subseteq Lg!Entries /\ Lg!Entries \subseteq Nat
  <2>1. \A i \in 1 .. Len(kept[a]) : kept[a][i] \in Lg!Entries
    BY <1>3, ElementOfSeq
  <2> QED
    <3>1. Range(kept[a]) \subseteq Lg!Entries
      BY <1>3, <2>1 DEF Range
    <3>2. Lg!Entries \subseteq Nat
      BY LoggerConstants DEF Lg!Entries
    <3> QED
      BY <3>1, <3>2
<1>5. sorted \in [1 .. Len(kept[a]) -> Lg!Entries] /\ Range(sorted) \subseteq Range(kept[a])
  BY <1>3, <1>4 DEF Range
<1>6. sorted \in Seq(Lg!Entries) /\ Len(sorted) = Len(kept[a]) /\ DOMAIN sorted = 1 .. Len(kept[a])
  BY <1>3, <1>5, IsASeq, LenProperties
<1>7. IsInjective(sorted)
  <2> SUFFICES ASSUME NEW i \in 1 .. Len(kept[a]), NEW j \in 1 .. Len(kept[a]), sorted[i] = sorted[j]
               PROVE  i = j
    BY <1>6 DEF IsInjective
  <2>1. sorted[i] \in Nat /\ sorted[j] \in Nat
    BY <1>4, <1>5
  <2>2. ~(i < j) /\ ~(j < i)
    BY <1>1, <1>6, <2>1
  <2> QED
    BY <1>3, <2>2
<1>8. /\ kept' \in [Lg!Loggers -> Seq(Lg!Entries)] /\ kept'[a] = sorted
      /\ \A b \in Lg!Loggers : b # a => kept'[b] = kept[b]
  BY <1>1, <1>3, <1>6 DEF LoggerTypes
<1>9. LoggerTypes'
  BY <1>2, <1>3, <1>8 DEF LoggerTypes
<1>10. ASSUME NEW e \in Lg!Entries PROVE CallFits(e)'
  <2>1. CallFits(e) /\ logged' \in Nat /\ logged <= logged'
    BY <1>2, LoggerConstants DEF LoggerInv, LoggerTypes
  <2> QED
    BY <1>2, <1>3, <2>1, CallRests
<1>11. ASSUME NEW b \in Lg!Loggers PROVE AggregatorFits(b)'
  <2>1. AggregatorFits(b) /\ (\A i \in DOMAIN aggregated[b] :
          aggregated'[b][i] <= logged' /\ tasks'[aggregated'[b][i]].phase = "idle")
    BY <1>2 DEF LoggerInv, AggregatorFits
  <2>2. /\ IsInjective(kept'[b]) /\ Range(kept'[b]) \subseteq Range(aggregated[b])
        /\ Len(kept'[b]) = Len(kept[b])
    <3>1. CASE b = a
      BY <1>5, <1>6, <1>7, <1>8, <2>1, <3>1 DEF AggregatorFits
    <3>2. CASE b # a
      BY <1>8, <2>1, <3>2 DEF AggregatorFits
    <3> QED
      BY <3>1, <3>2
  <2>3. /\ IsInjective(aggregated[b])
        /\ Len(kept[b]) = IF Len(aggregated[b]) < MaxKept THEN Len(aggregated[b]) ELSE MaxKept
    BY <2>1 DEF AggregatorFits
  <2> QED
    BY <1>2, <2>1, <2>2, <2>3 DEF AggregatorFits
<1> QED
  BY <1>2, <1>9, <1>10, <1>11 DEF LoggerInv

LEMMA LoggerKeeps ==
  LoggerInv /\ [Lg!Next]_(Lg!loggerVars) => LoggerInv'
<1> SUFFICES ASSUME LoggerInv, [Lg!Next]_(Lg!loggerVars) PROVE LoggerInv'
  OBVIOUS
<1>1. CASE UNCHANGED Lg!loggerVars
  <2>1. /\ LoggerTypes' /\ children' = children
        /\ UNCHANGED <<logged, kept, aggregated, astray, queried, tasks>>
    BY <1>1 DEF Lg!loggerVars, LoggerInv, LoggerTypes
  <2>2. \A e \in Lg!Entries : OnItsWay(tasks[e]) => OnItsWay(tasks[e])'
    BY <1>1 DEF Lg!loggerVars, OnItsWay, Lg!Takes
  <2> QED
    BY <2>1, <2>2, ChangeKeeps
<1>2. ASSUME NEW by \in Lg!Loggers, NEW lv \in Lg!Levels, Lg!Log(by, lv) PROVE LoggerInv'
  BY <1>2, LogKeeps
<1>3. ASSUME NEW e \in Lg!Entries, Lg!Resume(e) \/ Lg!WriterRejects(e) PROVE LoggerInv'
  BY <1>3, ResumeKeeps, WriterRejectsKeeps
<1>4. ASSUME NEW by \in Lg!Loggers, NEW t \in Transports,
             Lg!addTransport(by, t) \/ Lg!removeTransport(by, t)
      PROVE  LoggerInv'
  BY <1>4, AddTransportKeeps, RemoveTransportKeeps
<1>5. ASSUME NEW by \in Lg!Loggers, NEW lv \in Lg!Levels, Lg!setLevel(by, lv) PROVE LoggerInv'
  BY <1>5, SetLevelKeeps
<1>6. ASSUME NEW by \in Lg!Loggers, Lg!close(by) \/ Lg!query(by) PROVE LoggerInv'
  BY <1>6, CloseLoggerKeeps, QueryKeeps
<1>7. ASSUME Lg!child PROVE LoggerInv'
  BY <1>7, ChildKeeps
<1> QED
  BY <1>1, <1>2, <1>3, <1>4, <1>5, <1>6, <1>7 DEF Lg!Next

\* What the inductive invariant is for.
LEMMA LoggerHolds ==
  ASSUME LoggerInv PROVE Lg!TypeOK /\ Lg!HandedOnce /\ Lg!AggregatedInTurn
<1>1. Lg!TypeOK
  BY LoggerConstants DEF LoggerInv, LoggerTypes, Lg!TypeOK
<1>2. Lg!HandedOnce
  BY DEF LoggerInv, Lg!HandedOnce
<1>3. ASSUME NEW a \in Lg!Loggers
      PROVE  /\ Len(kept[a]) = Lg!Min({MaxKept, Len(aggregated[a])}) /\ Lg!IsInjective(kept[a])
             /\ Lg!ToSet(kept[a]) \subseteq Lg!ToSet(aggregated[a])
             /\ ~queried => Lg!IsSuffix(kept[a], aggregated[a])
  <2> DEFINE have == kept[a]
             all == aggregated[a]
  <2>1. have \in Seq(Lg!Entries) /\ all \in Seq(Lg!Entries) /\ AggregatorFits(a)
    BY DEF LoggerInv, LoggerTypes
  <2>2. Len(have) \in Nat /\ Len(all) \in Nat
    BY <2>1, LenProperties
  <2>3. Len(have) = IF Len(all) < MaxKept THEN Len(all) ELSE MaxKept
    BY <2>1 DEF AggregatorFits
  <2>4. ~queried => \A i \in 1 .. Len(have) : have[i] = all[Len(all) - Len(have) + i]
    BY <2>1 DEF AggregatorFits
  <2>5. Lg!IsInjective(have) /\ Lg!ToSet(have) \subseteq Lg!ToSet(all)
    BY <2>1, LoggerConstants DEF AggregatorFits
  <2> HIDE DEF have, all
  <2>6. Len(have) = Lg!Min({MaxKept, Len(all)})
    <3> DEFINE m == Lg!Min({MaxKept, Len(all)})
    <3>1. \E x \in {MaxKept, Len(all)} : \A y \in {MaxKept, Len(all)} : x <= y
      BY <2>2, LoggerConstants
    <3>2. m \in {MaxKept, Len(all)} /\ \A y \in {MaxKept, Len(all)} : m <= y
      BY <3>1 DEF Lg!Min
    <3> HIDE DEF m
    <3>3. Len(have) = m
      BY <2>2, <2>3, <3>2, LoggerConstants
    <3> QED
      BY <3>3 DEF m
  <2>7. ASSUME ~queried PROVE Lg!IsSuffix(have, all)
    <3> DEFINE n == Len(have)
               r == [i \in 1 .. n |-> have[(n - i) + 1]]
               s == [i \in 1 .. Len(all) |-> all[(Len(all) - i) + 1]]
    <3>1. r = Lg!Reverse(have) /\ s = Lg!Reverse(all)
      BY DEF Lg!Reverse
    <3>2. n \in Nat /\ n <= Len(all)
      BY <2>2, <2>3, LoggerConstants
    <3>3. \A i \in 1 .. n : have[i] \in Lg!Entries
      BY <2>1, ElementOfSeq
    <3>4. \A i \in 1 .. Len(all) : all[i] \in Lg!Entries
      BY <2>1, ElementOfSeq
    <3>5. \A i \in 1 .. n : (n - i) + 1 \in 1 .. n /\ Len(all) - n + ((n - i) + 1) = (Len(all) - i) + 1
      BY <2>2, <3>2
    <3>6. \A i \in 1 .. n : r[i] = s[i] /\ r[i] \in Lg!Entries
      <4>1. \A i \in 1 .. n : i \in 1 .. Len(all)
        BY <2>2, <3>2
      <4>2. \A i \in 1 .. n : have[(n - i) + 1] = all[(Len(all) - i) + 1]
        BY <2>4, <2>7, <3>5
      <4> QED
        BY <3>3, <3>5, <4>1, <4>2
    <3>7. r \in Seq(Lg!Entries) /\ Len(r) = n /\ s \in Seq(Lg!Entries) /\ Len(s) = Len(all)
      <4>1. r \in [1 .. n -> Lg!Entries]
        BY <3>3, <3>5
      <4>2. \A i \in 1 .. Len(all) : (Len(all) - i) + 1 \in 1 .. Len(all)
        BY <2>2
      <4>3. s \in [1 .. Len(all) -> Lg!Entries]
        BY <3>4, <4>2
      <4> HIDE DEF r, s, n
      <4> QED
        BY <2>2, <3>2, <4>1, <4>3, IsASeq, LenProperties
    <3> HIDE DEF r, s, n
    <3>8. SubSeq(r, 1, n) = r
      BY <3>7, SubSeqFull
    <3>9. SubSeq(s, 1, n) = r
      <4>1. 1 \in Int /\ n \in Int /\ \A i \in 1 .. n : s[i] \in Lg!Entries
        BY <3>2, <3>6
      <4>2. /\ SubSeq(s, 1, n) \in Seq(Lg!Entries)
            /\ Len(SubSeq(s, 1, n)) = IF 1 <= n THEN n - 1 + 1 ELSE 0
            /\ \A i \in 1 .. n - 1 + 1 : SubSeq(s, 1, n)[i] = s[1 + i - 1]
        BY <4>1, SubSeqProperties
      <4>3. Len(SubSeq(s, 1, n)) = Len(r) /\ \A i \in 1 .. Len(r) : SubSeq(s, 1, n)[i] = r[i]
        <5>1. n - 1 + 1 = n /\ \A i \in 1 .. n : 1 + i - 1 = i
          BY <3>2
        <5> QED
          BY <3>2, <3>6, <3>7, <4>2, <5>1
      <4> QED
        BY <3>7, <4>2, <4>3, SeqEqual
    <3>10. Len(r) <= Len(s) /\ SubSeq(r, 1, Len(r)) = SubSeq(s, 1, Len(r))
      BY <3>2, <3>7, <3>8, <3>9
    <3> QED
      BY <3>1, <3>10 DEF Lg!IsSuffix, Lg!IsPrefix
  <2> QED
    BY <2>5, <2>6, <2>7 DEF have, all
<1> QED
  BY <1>1, <1>2, <1>3 DEF Lg!AggregatedInTurn

-----------------------------------------------------------------------------
(* The transports of packages/log.                                         *)

TransportTypes ==
  /\ transportKind \in {"file", "rotating", "http"} /\ maxFiles \in FileCounts /\ entered \in 0 .. MaxLines
  /\ lines \in Seq(Lt!Entries) /\ open \in BOOLEAN /\ flushing \in BOOLEAN
  /\ logFiles \in [Lt!Slots -> Seq(Lt!Entries)] /\ exists \subseteq Lt!Slots /\ currentSize \in Nat
  /\ jobs \in Seq({"rotate", "push", "close"} \X (0 .. MaxLines))
  /\ posts \in Seq(Seq(Lt!Entries)) /\ posted \subseteq Lt!Entries
  /\ rotations \in Nat /\ born \in [Lt!Slots -> Nat] /\ deleted \subseteq Lt!Entries
  /\ early \in BOOLEAN /\ disturbed \in BOOLEAN

JobType == {"rotate", "push", "close"} \X (0 .. MaxLines)

\* The lines that belong to the first file.
Newest == logFiles[0] \o lines

\* The jobs whose line waits for a rotation, and these lines.
Work(line) == {line[k] : k \in {k \in DOMAIN line : line[k][1] # "close"}}
Delayed(line) == {job[2] : job \in Work(line)}

\* No line waits twice.
JobsFit(line) ==
  /\ \A k \in DOMAIN line : line[k][1] = "close" => line[k][2] = 0
  /\ \A k, l \in DOMAIN line :
       line[k][1] # "close" /\ line[l][1] # "close" /\ line[k][2] = line[l][2] => k = l

\* The entries that are being posted.
Posting == UNION {Range(posts[k]) : k \in DOMAIN posts}

\* An HTTP transport has every entry in its batch, in one that is posted, or posted.
BatchesFit ==
  /\ jobs = <<>> /\ deleted = {} /\ \A i \in Lt!Slots : logFiles[i] = <<>>
  /\ IsInjective(lines) /\ Range(lines) \cap posted = {} /\ Range(lines) \cap Posting = {}
  /\ Posting \cap posted = {}
  /\ \A k, l \in DOMAIN posts : \A a \in DOMAIN posts[k], b \in DOMAIN posts[l] :
       posts[k][a] = posts[l][b] => k = l /\ a = b
  /\ 1 .. entered = Range(lines) \cup Posting \cup posted

\* The older files have no line twice, and none of those that are gone.
OldFits ==
  /\ \A i \in Lt!Slots \ {0} :
       IsInjective(logFiles[i]) /\ Range(logFiles[i]) \cap deleted = {}
  /\ \A i, j \in Lt!Slots \ {0} : i # j => Range(logFiles[i]) \cap Range(logFiles[j]) = {}

Archived == deleted \cup UNION {Range(logFiles[i]) : i \in Lt!Slots \ {0}}

\* The other transports have every entry in one file, with the lines to come, or waiting.
LinesFit ==
  /\ posts = <<>> /\ posted = {}
  /\ OldFits /\ IsInjective(Newest) /\ Range(Newest) \cap Archived = {}
  /\ JobsFit(jobs) /\ Delayed(jobs) \cap Range(Newest) = {} /\ Delayed(jobs) \cap Archived = {}
  /\ 1 .. entered = Range(Newest) \cup Archived \cup Delayed(jobs)

\* Every file is as many places down as there were rotations since it was made.
FilesFit ==
  /\ 0 \in exists /\ exists \subseteq 0 .. Lt!LastSlot
  /\ \A i \in exists : born[i] + i = rotations
  /\ \A i \in Lt!Slots : logFiles[i] # <<>> => i \in exists
  /\ transportKind = "file" =>
       /\ Work(jobs) = {} /\ Archived = {}
       /\ Newest = [i \in 1 .. entered |-> i]

\* As long as nothing comes between, one entry at most waits, the latest; nothing is
\* newer than what is in the first file, and that is as large as currentSize says.
InOrder ==
  /\ \A job \in Work(jobs) :
       /\ Work(jobs) = {job} /\ job[2] = entered /\ lines = <<>>
       /\ job[1] = "push" => logFiles[0] = <<>> /\ currentSize = 0
  /\ Work(jobs) = {} => currentSize = Lt!SizeOf(Newest)
  /\ Lt!SizeOf(Newest) > MaxSize => Len(Newest) = 1
  /\ \A i \in Lt!Slots \ {0} : Lt!SizeOf(logFiles[i]) > MaxSize => Len(logFiles[i]) = 1
  /\ \A x \in Archived, y \in Range(Newest) : x < y
  /\ \A i, j \in Lt!Slots \ {0} : i < j =>
       \A x \in Range(logFiles[i]), y \in Range(logFiles[j]) : y < x
  /\ \A x \in deleted, i \in Lt!Slots \ {0} : \A y \in Range(logFiles[i]) : x < y

TransportInv ==
  /\ TransportTypes /\ ~early
  /\ transportKind = "http" => BatchesFit
  /\ transportKind # "http" => LinesFit /\ FilesFit
  /\ transportKind = "rotating" /\ ~disturbed => InOrder

LEMMA TransportConstants ==
  /\ MaxLines \in Nat /\ Lt!Entries = 1 .. MaxLines /\ Lt!Entries \subseteq Nat \ {0}
  /\ MaxSize \in Nat /\ MaxSize # 0 /\ BatchSize \in Nat /\ BatchSize # 0
  /\ 0 \in Lt!Slots /\ Lt!Slots \subseteq Nat
  /\ \A s : Lt!ToSet(s) = Range(s) /\ Lt!Cardinality(s) = Cardinality(s)
BY TransportsAssumption
DEF Lt!OptionsOK, Lt!Entries, Lt!Slots, Lt!ToSet, Range, Lt!Cardinality, Cardinality

\* There is room for all the files that are kept.
LEMMA SlotFacts ==
  ASSUME maxFiles \in FileCounts
  PROVE  Lt!LastSlot \in Nat /\ \A i \in 0 .. Lt!LastSlot : i \in Lt!Slots
<1>1. maxFiles \in Nat /\ maxFiles # 0
  BY TransportsAssumption DEF Lt!OptionsOK
<1>2. Lt!LastSlot = IF maxFiles = 1 THEN 1 ELSE maxFiles - 2
  BY DEF Lt!LastSlot
<1>3. Lt!LastSlot \in Nat
  BY <1>1, <1>2
<1>4. 0 .. 1 \subseteq Lt!Slots /\ 0 .. maxFiles \subseteq Lt!Slots
  BY DEF Lt!Slots
<1>5. \A i \in 0 .. Lt!LastSlot : i \in 0 .. 1 \/ i \in 0 .. maxFiles
  BY <1>1, <1>2, <1>3
<1> QED
  BY <1>3, <1>4, <1>5

-----------------------------------------------------------------------------
(* Lines that are joined and cut.                                          *)

\* The parts of a line in which nothing stands twice.
LEMMA PartsOfLine ==
  ASSUME NEW S, NEW q \in Seq(S), NEW r \in Seq(S), IsInjective(q \o r)
  PROVE  /\ IsInjective(q) /\ IsInjective(r) /\ Range(q) \cap Range(r) = {}
         /\ Range(q \o r) = Range(q) \cup Range(r)
<1>1. /\ DOMAIN q = 1 .. Len(q) /\ DOMAIN r = 1 .. Len(r) /\ Len(q) \in Nat /\ Len(r) \in Nat
  BY LenProperties
<1>2. /\ q \o r \in Seq(S) /\ Len(q \o r) = Len(q) + Len(r)
      /\ \A i \in 1 .. Len(q) + Len(r) : (q \o r)[i] = IF i <= Len(q) THEN q[i] ELSE r[i - Len(q)]
  BY ConcatProperties
<1> DEFINE both == q \o r
<1>3. DOMAIN both = 1 .. Len(q) + Len(r)
  BY <1>2, LenProperties
<1>4. \A i \in 1 .. Len(q) : i \in 1 .. Len(q) + Len(r) /\ both[i] = q[i]
  BY <1>1, <1>2
<1>5. \A i \in 1 .. Len(r) : i + Len(q) \in 1 .. Len(q) + Len(r) /\ both[i + Len(q)] = r[i]
  <2> SUFFICES ASSUME NEW i \in 1 .. Len(r)
               PROVE  i + Len(q) \in 1 .. Len(q) + Len(r) /\ both[i + Len(q)] = r[i]
    OBVIOUS
  <2>1. /\ i + Len(q) \in 1 .. Len(q) + Len(r) /\ ~(i + Len(q) <= Len(q))
        /\ (i + Len(q)) - Len(q) = i
    BY <1>1
  <2> QED
    BY <1>2, <2>1
<1>6. \A a, b \in 1 .. Len(q) + Len(r) : both[a] = both[b] => a = b
  BY <1>3 DEF IsInjective
<1> HIDE DEF both
<1>7. IsInjective(q)
  BY <1>1, <1>4, <1>6 DEF IsInjective
<1>8. IsInjective(r)
  <2> SUFFICES ASSUME NEW a \in 1 .. Len(r), NEW b \in 1 .. Len(r), r[a] = r[b] PROVE a = b
    BY <1>1 DEF IsInjective
  <2>1. a + Len(q) = b + Len(q)
    BY <1>5, <1>6
  <2> QED
    BY <1>1, <2>1
<1>9. Range(q) \cap Range(r) = {}
  <2> SUFFICES ASSUME NEW a \in 1 .. Len(q), NEW b \in 1 .. Len(r), q[a] = r[b] PROVE FALSE
    BY <1>1 DEF Range
  <2>1. a = b + Len(q)
    BY <1>4, <1>5, <1>6
  <2> QED
    BY <1>1, <2>1
<1> QED
  BY <1>7, <1>8, <1>9, RangeConcatenation

\* A line that grows at its end does so as part of a longer one.
LEMMA AppendJoined ==
  ASSUME NEW S, NEW f \in Seq(S), NEW l \in Seq(S), NEW e \in S
  PROVE  f \o Append(l, e) = Append(f \o l, e)
<1> DEFINE whole == f \o Append(l, e)
           grown == Append(f \o l, e)
<1>1. /\ Len(f) \in Nat /\ Len(l) \in Nat
      /\ f \o l \in Seq(S) /\ Len(f \o l) = Len(f) + Len(l)
      /\ \A i \in 1 .. Len(f) + Len(l) : (f \o l)[i] = IF i <= Len(f) THEN f[i] ELSE l[i - Len(f)]
  BY LenProperties, ConcatProperties
<1>2. /\ Append(l, e) \in Seq(S) /\ Len(Append(l, e)) = Len(l) + 1
      /\ \A i \in 1 .. Len(l) : Append(l, e)[i] = l[i]
      /\ Append(l, e)[Len(l) + 1] = e
  BY AppendProperties
<1>3. /\ whole \in Seq(S) /\ Len(whole) = Len(f) + (Len(l) + 1)
      /\ \A i \in 1 .. Len(f) + (Len(l) + 1) :
           whole[i] = IF i <= Len(f) THEN f[i] ELSE Append(l, e)[i - Len(f)]
  BY <1>2, ConcatProperties
<1>4. /\ grown \in Seq(S) /\ Len(grown) = (Len(f) + Len(l)) + 1
      /\ \A i \in 1 .. Len(f) + Len(l) : grown[i] = (f \o l)[i]
      /\ grown[(Len(f) + Len(l)) + 1] = e
  <2> DEFINE both == f \o l
  <2>1. both \in Seq(S) /\ Len(both) = Len(f) + Len(l)
    BY <1>1
  <2> HIDE DEF both
  <2>2. /\ Append(both, e) \in Seq(S) /\ Len(Append(both, e)) = Len(both) + 1
        /\ \A i \in 1 .. Len(both) : Append(both, e)[i] = both[i]
        /\ Append(both, e)[Len(both) + 1] = e
    BY <2>1, AppendProperties
  <2> QED
    BY <2>1, <2>2 DEF both
<1> HIDE DEF whole, grown
<1>5. ASSUME NEW i \in 1 .. Len(f) + (Len(l) + 1) PROVE whole[i] = grown[i]
  <2>1. CASE i = (Len(f) + Len(l)) + 1
    <3>1. ~(i <= Len(f)) /\ i - Len(f) = Len(l) + 1
      BY <1>1, <2>1
    <3> QED
      BY <1>2, <1>3, <1>4, <2>1, <3>1
  <2>2. CASE i <= Len(f)
    <3>1. i \in 1 .. Len(f) + Len(l)
      BY <1>1, <2>2
    <3> QED
      BY <1>1, <1>3, <1>4, <2>2, <3>1
  <2>3. CASE ~(i <= Len(f)) /\ i # (Len(f) + Len(l)) + 1
    <3>1. i \in 1 .. Len(f) + Len(l) /\ i - Len(f) \in 1 .. Len(l)
      BY <1>1, <2>3
    <3> QED
      BY <1>1, <1>2, <1>3, <1>4, <2>3, <3>1
  <2> QED
    BY <2>1, <2>2, <2>3
<1>6. Len(whole) = Len(grown)
  BY <1>1, <1>3, <1>4
<1>7. \A i \in 1 .. Len(whole) : whole[i] = grown[i]
  BY <1>3, <1>5
<1>8. whole = grown
  BY <1>3, <1>4, <1>6, <1>7, SeqEqual
<1> QED
  BY <1>8 DEF whole, grown

\* The first ones and the others.
LEMMA CutLine ==
  ASSUME NEW S, NEW q \in Seq(S), IsInjective(q), NEW n \in 0 .. Len(q)
  PROVE  LET front == SubSeq(q, 1, n)
             back == SubSeq(q, n + 1, Len(q))
         IN  /\ front \in Seq(S) /\ back \in Seq(S) /\ IsInjective(front) /\ IsInjective(back)
             /\ Range(front) \cap Range(back) = {} /\ Range(q) = Range(front) \cup Range(back)
<1> DEFINE front == SubSeq(q, 1, n)
           back == SubSeq(q, n + 1, Len(q))
<1>1. Len(q) \in Nat /\ \A i \in 1 .. Len(q) : q[i] \in S
  BY LenProperties, ElementOfSeq
<1>2. n \in Nat /\ 1 \in 1 .. Len(q) + 1 /\ n \in (1 - 1) .. Len(q) /\ Len(q) \in n .. Len(q)
  BY <1>1
<1>3. SubSeq(q, 1, n) \o SubSeq(q, n + 1, Len(q)) = SubSeq(q, 1, Len(q))
  BY <1>2, ConcatAdjacentSubSeq
<1>4. front \o back = q
  BY <1>3, SubSeqFull
<1>5. front \in Seq(S)
  <2>1. 1 \in Int /\ n \in Int /\ \A i \in 1 .. n : q[i] \in S
    BY <1>1, <1>2
  <2> QED
    BY <2>1, SubSeqProperties
<1>6. back \in Seq(S)
  <2>1. n + 1 \in Int /\ Len(q) \in Int /\ \A i \in n + 1 .. Len(q) : q[i] \in S
    BY <1>1, <1>2
  <2> QED
    BY <2>1, SubSeqProperties
<1> HIDE DEF front, back
<1>7. /\ IsInjective(front) /\ IsInjective(back)
      /\ Range(front) \cap Range(back) = {} /\ Range(q) = Range(front) \cup Range(back)
  BY <1>4, <1>5, <1>6, PartsOfLine
<1> QED
  BY <1>5, <1>6, <1>7 DEF front, back

\* A line's size is the sum of its entries'.
LEMMA SizeFacts ==
  ASSUME NEW s \in Seq(Lt!Entries)
  PROVE  /\ Lt!SizeOf(s) \in Nat /\ (s # <<>> => Lt!SizeOf(s) # 0)
         /\ \A e \in Lt!Entries : Lt!SizeOf(Append(s, e)) = Lt!SizeOf(s) + Lt!Size(e)
         /\ \A t \in Seq(Lt!Entries) : Lt!SizeOf(s) <= Lt!SizeOf(s \o t)
<1> DEFINE Bigs(q) == {i \in DOMAIN q : q[i] \in Big}
<1>1. \A q : Lt!SizeOf(q) = Len(q) + Cardinality(Bigs(q))
  BY TransportConstants DEF Lt!SizeOf
<1>2. ASSUME NEW q \in Seq(Lt!Entries)
      PROVE  /\ IsFiniteSet(Bigs(q)) /\ Cardinality(Bigs(q)) \in Nat /\ Len(q) \in Nat
             /\ DOMAIN q = 1 .. Len(q)
  <2>1. Len(q) \in Nat /\ DOMAIN q = 1 .. Len(q)
    BY LenProperties
  <2>2. IsFiniteSet(1 .. Len(q)) /\ Bigs(q) \in SUBSET (1 .. Len(q))
    BY <2>1, FS_Interval
  <2>3. IsFiniteSet(Bigs(q))
    BY <2>2, FS_Subset
  <2> HIDE DEF Bigs
  <2> QED
    BY <2>1, <2>3, FS_CardinalityType
<1>3. ASSUME NEW e \in Lt!Entries PROVE Lt!SizeOf(Append(s, e)) = Lt!SizeOf(s) + Lt!Size(e)
  <2> DEFINE more == Append(s, e)
  <2>1. /\ more \in Seq(Lt!Entries) /\ Len(more) = Len(s) + 1 /\ more[Len(s) + 1] = e
        /\ \A i \in 1 .. Len(s) : more[i] = s[i]
        /\ DOMAIN more = 1 .. Len(s) + 1 /\ DOMAIN s = 1 .. Len(s) /\ Len(s) \in Nat
    BY AppendProperties, LenProperties
  <2>2. \A i \in 1 .. Len(s) + 1 : i \in 1 .. Len(s) \/ i = Len(s) + 1
    BY <2>1
  <2>3. Len(s) + 1 \notin 1 .. Len(s) /\ Len(s) + 1 \in 1 .. Len(s) + 1
        /\ \A i \in 1 .. Len(s) : i \in 1 .. Len(s) + 1
    BY <2>1
  <2> HIDE DEF more
  <2>4. Bigs(more) = IF e \in Big THEN Bigs(s) \cup {Len(s) + 1} ELSE Bigs(s)
    BY <2>1, <2>2, <2>3
  <2>5. Len(s) + 1 \notin Bigs(s)
    BY <2>1, <2>3
  <2>6. IsFiniteSet(Bigs(s)) /\ Cardinality(Bigs(s)) \in Nat
    BY <1>2
  <2>7. Lt!SizeOf(more) = Len(more) + Cardinality(Bigs(more))
    BY <1>1
  <2>8. Lt!SizeOf(s) = Len(s) + Cardinality(Bigs(s))
    BY <1>1
  <2> HIDE DEF Bigs
  <2>9. Cardinality(Bigs(more)) = IF e \in Big THEN Cardinality(Bigs(s)) + 1 ELSE Cardinality(Bigs(s))
    BY <2>4, <2>5, <2>6, FS_AddElement
  <2>10. Lt!SizeOf(more) = Lt!SizeOf(s) + Lt!Size(e)
    BY <2>1, <2>6, <2>7, <2>8, <2>9 DEF Lt!Size
  <2> QED
    BY <2>10 DEF more
<1>4. ASSUME NEW t \in Seq(Lt!Entries) PROVE Lt!SizeOf(s) <= Lt!SizeOf(s \o t)
  <2> DEFINE both == s \o t
  <2>1. /\ both \in Seq(Lt!Entries) /\ Len(both) = Len(s) + Len(t)
        /\ \A i \in 1 .. Len(s) + Len(t) : both[i] = IF i <= Len(s) THEN s[i] ELSE t[i - Len(s)]
    BY ConcatProperties
  <2>2. Len(s) \in Nat /\ Len(t) \in Nat /\ DOMAIN s = 1 .. Len(s) /\ DOMAIN both = 1 .. Len(s) + Len(t)
    BY <2>1, LenProperties
  <2>3. \A i \in 1 .. Len(s) : i \in 1 .. Len(s) + Len(t) /\ i <= Len(s)
    BY <2>2
  <2> HIDE DEF both
  <2>4. Bigs(s) \in SUBSET Bigs(both)
    BY <2>1, <2>2, <2>3
  <2>5. Cardinality(Bigs(s)) <= Cardinality(Bigs(both))
    <3>1. IsFiniteSet(Bigs(both))
      BY <1>2, <2>1
    <3> HIDE DEF Bigs
    <3> QED
      BY <2>4, <3>1, FS_Subset
  <2>6. /\ Lt!SizeOf(s) = Len(s) + Cardinality(Bigs(s))
        /\ Lt!SizeOf(both) = Len(both) + Cardinality(Bigs(both))
    BY <1>1
  <2>7. Cardinality(Bigs(s)) \in Nat /\ Cardinality(Bigs(both)) \in Nat
    BY <1>2, <2>1
  <2> HIDE DEF Bigs
  <2>8. Lt!SizeOf(s) <= Lt!SizeOf(both)
    BY <2>1, <2>2, <2>5, <2>6, <2>7
  <2> QED
    BY <2>8 DEF both
<1>5. Lt!SizeOf(s) = Len(s) + Cardinality(Bigs(s)) /\ Cardinality(Bigs(s)) \in Nat /\ Len(s) \in Nat
  BY <1>1, <1>2
<1>6. s # <<>> => Len(s) # 0
  BY EmptySeq
<1> HIDE DEF Bigs
<1> QED
  BY <1>3, <1>4, <1>5, <1>6

LEMMA NothingHasSize == Lt!SizeOf(<<>>) = 0 /\ \A e : Lt!Size(e) \in {1, 2}
<1>1. {i \in DOMAIN <<>> : <<>>[i] \in Big} = {} /\ Len(<<>>) = 0
  BY EmptySeq
<1> QED
  BY <1>1, TransportConstants, FS_EmptySet DEF Lt!SizeOf, Lt!Size
-----------------------------------------------------------------------------
(* The microtasks.                                                         *)

LEMMA NoWork ==
  Work(<<>>) = {} /\ Delayed(<<>>) = {} /\ JobsFit(<<>>)
BY DEF Work, Delayed, JobsFit

LEMMA JobQueued ==
  ASSUME NEW line \in Seq(JobType), JobsFit(line), NEW job \in JobType,
         IF job[1] = "close" THEN job[2] = 0 ELSE job[2] \notin Delayed(line)
  PROVE  /\ Append(line, job) \in Seq(JobType) /\ JobsFit(Append(line, job))
         /\ Work(Append(line, job)) = IF job[1] = "close" THEN Work(line) ELSE Work(line) \cup {job}
<1> DEFINE more == Append(line, job)
<1>1. /\ more \in Seq(JobType) /\ more[Len(line) + 1] = job
      /\ \A k \in 1 .. Len(line) : more[k] = line[k]
      /\ DOMAIN more = 1 .. Len(line) + 1 /\ DOMAIN line = 1 .. Len(line) /\ Len(line) \in Nat
  BY AppendProperties, LenProperties
<1>2. /\ \A k \in 1 .. Len(line) + 1 : k \in 1 .. Len(line) \/ k = Len(line) + 1
      /\ Len(line) + 1 \in 1 .. Len(line) + 1 /\ \A k \in 1 .. Len(line) : k \in 1 .. Len(line) + 1
  BY <1>1
<1> HIDE DEF more
<1>3. \A k \in 1 .. Len(line) : line[k][1] # "close" /\ job[1] # "close" => line[k][2] # job[2]
  BY <1>1 DEF Delayed, Work
<1>4. JobsFit(more)
  <2>1. \A k \in DOMAIN more : more[k][1] = "close" => more[k][2] = 0
    BY <1>1, <1>2 DEF JobsFit
  <2>2. ASSUME NEW k \in DOMAIN more, NEW l \in DOMAIN more,
               more[k][1] # "close", more[l][1] # "close", more[k][2] = more[l][2]
        PROVE  k = l
    <3>1. CASE k \in 1 .. Len(line) /\ l \in 1 .. Len(line)
      BY <1>1, <2>2, <3>1 DEF JobsFit
    <3>2. CASE k = Len(line) + 1 \/ l = Len(line) + 1
      BY <1>1, <1>2, <1>3, <2>2, <3>2
    <3> QED
      BY <1>1, <1>2, <3>1, <3>2
  <2> QED
    BY <2>1, <2>2 DEF JobsFit
<1>5. Work(more) = IF job[1] = "close" THEN Work(line) ELSE Work(line) \cup {job}
  <2>1. \A w : w \in Work(more) <=> \E k \in 1 .. Len(line) + 1 : more[k] = w /\ w[1] # "close"
    BY <1>1 DEF Work
  <2>2. \A w : w \in Work(line) <=> \E k \in 1 .. Len(line) : line[k] = w /\ w[1] # "close"
    BY <1>1 DEF Work
  <2>3. \A w : w \in Work(more) <=> w \in Work(line) \/ (w = job /\ job[1] # "close")
    BY <1>1, <1>2, <2>1, <2>2
  <2> QED
    BY <2>3
<1> QED
  BY <1>1, <1>4, <1>5 DEF more

LEMMA JobDone ==
  ASSUME NEW line \in Seq(JobType), JobsFit(line), line # <<>>
  PROVE  /\ Head(line) \in JobType /\ Tail(line) \in Seq(JobType) /\ JobsFit(Tail(line))
         /\ IF Head(line)[1] = "close" THEN Work(Tail(line)) = Work(line)
            ELSE /\ Head(line) \in Work(line) /\ Work(Tail(line)) = Work(line) \ {Head(line)}
                 /\ Delayed(Tail(line)) = Delayed(line) \ {Head(line)[2]}
<1> DEFINE rest == Tail(line)
           job == Head(line)
<1>1. /\ job \in JobType /\ rest \in Seq(JobType) /\ Len(line) \in Nat /\ Len(line) # 0
      /\ DOMAIN line = 1 .. Len(line) /\ line[1] = job
      /\ DOMAIN rest = 1 .. (Len(line) - 1)
      /\ \A k \in 1 .. (Len(line) - 1) : rest[k] = line[k + 1]
  BY HeadTailProperties, LenProperties, EmptySeq
<1>2. /\ \A k \in 1 .. Len(line) : k = 1 \/ (k - 1 \in 1 .. (Len(line) - 1) /\ (k - 1) + 1 = k)
      /\ \A k \in 1 .. (Len(line) - 1) : k + 1 \in 1 .. Len(line) /\ k + 1 # 1
      /\ \A k, l \in 1 .. (Len(line) - 1) : k + 1 = l + 1 => k = l
      /\ 1 \in 1 .. Len(line)
  BY <1>1
<1> HIDE DEF rest, job
<1>3. JobsFit(rest)
  <2>1. ASSUME NEW k \in DOMAIN rest, rest[k][1] = "close" PROVE rest[k][2] = 0
    <3>1. k + 1 \in DOMAIN line /\ rest[k] = line[k + 1]
      BY <1>1, <1>2
    <3> QED
      BY <2>1, <3>1 DEF JobsFit
  <2>2. ASSUME NEW k \in DOMAIN rest, NEW l \in DOMAIN rest,
               rest[k][1] # "close", rest[l][1] # "close", rest[k][2] = rest[l][2]
        PROVE  k = l
    <3>1. k + 1 \in DOMAIN line /\ l + 1 \in DOMAIN line /\ rest[k] = line[k + 1] /\ rest[l] = line[l + 1]
      BY <1>1, <1>2
    <3>2. k + 1 = l + 1
      BY <2>2, <3>1 DEF JobsFit
    <3> QED
      BY <1>1, <1>2, <3>2
  <2> QED
    BY <2>1, <2>2 DEF JobsFit
<1>4. \A w : w \in Work(line) <=> \E k \in 1 .. Len(line) : line[k] = w /\ w[1] # "close"
  BY <1>1 DEF Work
<1>5. \A w : w \in Work(rest) <=> \E k \in 1 .. (Len(line) - 1) : rest[k] = w /\ w[1] # "close"
  BY <1>1 DEF Work
<1>6. \A w : w \in Work(line) <=> w \in Work(rest) \/ (w = job /\ job[1] # "close")
  <2>1. \A w : w \in Work(rest) => w \in Work(line)
    BY <1>1, <1>2, <1>4, <1>5
  <2>2. job[1] # "close" => job \in Work(line)
    BY <1>1, <1>2, <1>4
  <2>3. ASSUME NEW w \in Work(line) PROVE w \in Work(rest) \/ (w = job /\ job[1] # "close")
    <3>1. PICK k \in 1 .. Len(line) : line[k] = w /\ w[1] # "close"
      BY <1>4, <2>3
    <3>2. CASE k = 1
      BY <1>1, <3>1, <3>2
    <3>3. CASE k # 1
      <4>1. k - 1 \in 1 .. (Len(line) - 1) /\ rest[k - 1] = w
        BY <1>1, <1>2, <3>1, <3>3
      <4> QED
        BY <1>5, <3>1, <4>1
    <3> QED
      BY <3>2, <3>3
  <2> QED
    BY <2>1, <2>2, <2>3
<1>7. ASSUME job[1] # "close", NEW w \in Work(rest) PROVE w[2] # job[2]
  <2>1. PICK k \in 1 .. (Len(line) - 1) : rest[k] = w /\ w[1] # "close"
    BY <1>5
  <2>2. line[k + 1] = w /\ k + 1 \in 1 .. Len(line) /\ k + 1 # 1 /\ 1 \in 1 .. Len(line)
    BY <1>1, <1>2, <2>1
  <2> QED
    BY <1>1, <1>7, <2>1, <2>2 DEF JobsFit
<1>8. job[1] = "close" => Work(rest) = Work(line)
  BY <1>6
<1>9. ASSUME job[1] # "close"
      PROVE  /\ job \in Work(line) /\ Work(rest) = Work(line) \ {job}
             /\ Delayed(rest) = Delayed(line) \ {job[2]}
  <2>1. job \in Work(line) /\ Work(rest) = Work(line) \ {job}
    BY <1>6, <1>7, <1>9
  <2>2. Delayed(rest) = Delayed(line) \ {job[2]}
    BY <1>6, <1>7, <1>9 DEF Delayed
  <2> QED
    BY <2>1, <2>2
<1> QED
  BY <1>1, <1>3, <1>8, <1>9 DEF rest, job
-----------------------------------------------------------------------------

LEMMA TransportInit == Lt!Init => TransportInv
<1> SUFFICES ASSUME Lt!Init PROVE TransportInv
  OBVIOUS
<1>1. /\ transportKind \in {"file", "rotating", "http"} /\ maxFiles \in FileCounts
      /\ entered = 0 /\ lines = <<>> /\ open = (transportKind # "http") /\ flushing = TRUE
      /\ logFiles = [i \in Lt!Slots |-> <<>>] /\ exists = (IF transportKind = "http" THEN {} ELSE {0})
      /\ currentSize = 0 /\ jobs = <<>> /\ posts = <<>> /\ posted = {}
      /\ rotations = 0 /\ born = [i \in Lt!Slots |-> 0] /\ deleted = {}
      /\ early = FALSE /\ disturbed = FALSE
  BY DEF Lt!Init
<1>2. 0 \in Lt!Slots /\ 0 \in 0 .. MaxLines /\ 0 \in Nat /\ Lt!LastSlot \in Nat /\ 0 \in 0 .. Lt!LastSlot
  BY <1>1, TransportConstants, SlotFacts
<1>3. /\ <<>> \in Seq(Lt!Entries) /\ <<>> \in Seq(JobType) /\ <<>> \in Seq(Seq(Lt!Entries))
      /\ IsInjective(<<>>) /\ Range(<<>>) = {} /\ DOMAIN <<>> = {} /\ <<>> \o <<>> = <<>>
  BY EmptySeq DEF IsInjective, Range
<1>4. TransportTypes
  BY <1>1, <1>2, <1>3 DEF TransportTypes, JobType
<1>5. Newest = <<>> /\ Archived = {} /\ Posting = {} /\ OldFits
  BY <1>1, <1>2, <1>3 DEF Newest, Archived, Posting, OldFits
<1>6. 1 .. entered = {}
  BY <1>1
<1>7. BatchesFit
  BY <1>1, <1>3, <1>5, <1>6 DEF BatchesFit
<1>8. LinesFit
  BY <1>1, <1>3, <1>5, <1>6, NoWork DEF LinesFit
<1>9. transportKind # "http" => FilesFit
  <2>1. [i \in 1 .. entered |-> i] = <<>>
    BY <1>6
  <2>2. 0 + 0 = 0
    OBVIOUS
  <2> QED
    BY <1>1, <1>2, <1>5, <2>1, <2>2, NoWork DEF FilesFit
<1>10. InOrder
  <2>1. ~(0 > MaxSize)
    BY TransportConstants
  <2> QED
    BY <1>1, <1>2, <1>3, <1>5, <2>1, NoWork, NothingHasSize DEF InOrder
<1> QED
  BY <1>1, <1>4, <1>7, <1>8, <1>9, <1>10 DEF TransportInv

\* A flush changes nothing about the lines that the first file has or will have.
LEMMA FlushFacts ==
  ASSUME TransportTypes, Lt!FlushFile(lines)
  PROVE  /\ lines' \in Seq(Lt!Entries) /\ logFiles' \in [Lt!Slots -> Seq(Lt!Entries)]
         /\ Newest' = Newest /\ (lines = <<>> => lines' = <<>>)
         /\ (lines = <<>> /\ logFiles[0] = <<>> => logFiles'[0] = <<>>)
         /\ \A i \in Lt!Slots \ {0} : logFiles'[i] = logFiles[i]
<1>1. lines \in Seq(Lt!Entries) /\ logFiles[0] \in Seq(Lt!Entries) /\ 0 \in Lt!Slots
  BY TransportConstants DEF TransportTypes
<1>2. <<>> \in Seq(Lt!Entries) /\ logFiles[0] \o lines \in Seq(Lt!Entries)
  BY <1>1, EmptySeq, ConcatProperties
<1>3. CASE logFiles' = [logFiles EXCEPT ![0] = @ \o lines] /\ lines' = <<>> /\ lines # <<>>
  <2>1. logFiles'[0] = logFiles[0] \o lines
    BY <1>1, <1>3 DEF TransportTypes
  <2>2. (logFiles[0] \o lines) \o <<>> = logFiles[0] \o lines
    BY <1>2, ConcatEmptySeq
  <2>3. Newest' = Newest
    BY <1>3, <2>1, <2>2 DEF Newest
  <2> QED
    BY <1>1, <1>2, <1>3, <2>3 DEF TransportTypes
<1>4. CASE lines' = lines /\ logFiles' = logFiles
  BY <1>1, <1>4 DEF TransportTypes, Newest
<1> QED
  BY <1>3, <1>4 DEF Lt!FlushFile

\* The older files stay as they are.
LEMMA OldRests ==
  ASSUME deleted' = deleted, \A i \in Lt!Slots \ {0} : logFiles'[i] = logFiles[i]
  PROVE  Archived' = Archived /\ (OldFits => OldFits')
BY DEF Archived, OldFits

\* What is true of all transports with files: the sequences they are made of.
LEMMA NewestFacts ==
  ASSUME TransportTypes
  PROVE  /\ Newest \in Seq(Lt!Entries) /\ logFiles[0] \in Seq(Lt!Entries)
         /\ Range(Newest) \subseteq Lt!Entries
         /\ Range(Newest) = Range(logFiles[0]) \cup Range(lines)
         /\ (Newest = <<>> <=> (logFiles[0] = <<>> /\ lines = <<>>))
         /\ entered \in Nat /\ \A i \in Lt!Slots : logFiles[i] \in Seq(Lt!Entries)
<1>1. /\ logFiles[0] \in Seq(Lt!Entries) /\ lines \in Seq(Lt!Entries) /\ entered \in Nat
      /\ \A i \in Lt!Slots : logFiles[i] \in Seq(Lt!Entries)
  BY TransportConstants DEF TransportTypes
<1>2. Newest \in Seq(Lt!Entries) /\ Range(Newest) = Range(logFiles[0]) \cup Range(lines)
  BY <1>1, ConcatProperties, RangeConcatenation DEF Newest
<1>3. Newest = <<>> <=> (logFiles[0] = <<>> /\ lines = <<>>)
  BY <1>1, ConcatEqualIffEmpty DEF Newest
<1>4. Range(Newest) \subseteq Lt!Entries
  <2>1. DOMAIN Newest = 1 .. Len(Newest) /\ \A i \in 1 .. Len(Newest) : Newest[i] \in Lt!Entries
    BY <1>2, LenProperties, ElementOfSeq
  <2> QED
    BY <2>1 DEF Range
<1> QED
  BY <1>1, <1>2, <1>3, <1>4

\* Flushing, closing, and the rest.
LEMMA LinesRest ==
  ASSUME TransportInv, transportKind # "http", TransportTypes',
         UNCHANGED <<transportKind, maxFiles, entered, currentSize, exists, posts, posted, rotations, born,
                     deleted, early, disturbed>>,
         Newest' = Newest, lines = <<>> => lines' = <<>>,
         lines = <<>> /\ logFiles[0] = <<>> => logFiles'[0] = <<>>,
         \A i \in Lt!Slots \ {0} : logFiles'[i] = logFiles[i],
         Work(jobs') = Work(jobs), JobsFit(jobs')
  PROVE  TransportInv'
<1>1. LinesFit /\ FilesFit
  BY DEF TransportInv
<1>2. Archived' = Archived /\ OldFits' /\ Delayed(jobs') = Delayed(jobs)
  BY <1>1, OldRests DEF LinesFit, Delayed
<1>3. LinesFit'
  BY <1>1, <1>2 DEF LinesFit
<1>4. FilesFit'
  <2>1. \A i \in Lt!Slots : logFiles'[i] # <<>> => i \in exists
    BY <1>1 DEF FilesFit
  <2>2. Lt!LastSlot' = Lt!LastSlot
    BY DEF Lt!LastSlot
  <2> QED
    BY <1>1, <1>2, <2>1, <2>2 DEF FilesFit
<1>5. InOrder => InOrder'
  <2> SUFFICES ASSUME InOrder PROVE InOrder'
    OBVIOUS
  <2>1. \A job \in Work(jobs') :
          /\ Work(jobs') = {job} /\ job[2] = entered' /\ lines' = <<>>
          /\ job[1] = "push" => logFiles'[0] = <<>> /\ currentSize' = 0
    BY DEF InOrder
  <2>2. /\ Work(jobs') = {} => currentSize' = Lt!SizeOf(Newest')
        /\ Lt!SizeOf(Newest') > MaxSize => Len(Newest') = 1
        /\ \A i \in Lt!Slots \ {0} : Lt!SizeOf(logFiles'[i]) > MaxSize => Len(logFiles'[i]) = 1
    BY DEF InOrder
  <2>3. /\ \A x \in Archived', y \in Range(Newest') : x < y
        /\ \A i, j \in Lt!Slots \ {0} : i < j =>
             \A x \in Range(logFiles'[i]), y \in Range(logFiles'[j]) : y < x
        /\ \A x \in deleted', i \in Lt!Slots \ {0} : \A y \in Range(logFiles'[i]) : x < y
    BY <1>2 DEF InOrder
  <2> QED
    BY <2>1, <2>2, <2>3 DEF InOrder
<1> QED
  BY <1>3, <1>4, <1>5 DEF TransportInv

LEMMA FlushFileKeeps ==
  ASSUME TransportInv, Lt!flush PROVE TransportInv'
<1>1. /\ transportKind # "http" /\ Lt!FlushFile(lines)
      /\ UNCHANGED <<transportKind, maxFiles, entered, open, flushing, currentSize, jobs, exists, rotations,
                     born, deleted, early, posts, posted, disturbed>>
  BY DEF Lt!flush, Lt!rotationVars, Lt!httpVars
<1>2. TransportTypes /\ LinesFit
  BY <1>1 DEF TransportInv
<1>3. TransportTypes'
  BY <1>1, <1>2, FlushFacts DEF TransportTypes
<1>4. Work(jobs') = Work(jobs) /\ JobsFit(jobs')
  BY <1>1, <1>2 DEF LinesFit
<1> QED
  BY <1>1, <1>2, <1>3, <1>4, FlushFacts, LinesRest

LEMMA CloseTransportKeeps ==
  ASSUME TransportInv, Lt!close PROVE TransportInv'
<1> DEFINE job == <<"close", 0>>
<1>1. /\ transportKind # "http" /\ Lt!FlushFile(lines) /\ flushing' = FALSE /\ jobs' = Append(jobs, job)
      /\ UNCHANGED <<transportKind, maxFiles, entered, open, currentSize, exists, rotations,
                     born, deleted, early, posts, posted, disturbed>>
  BY DEF Lt!close, Lt!rotationVars, Lt!httpVars
<1>2. TransportTypes /\ LinesFit /\ jobs \in Seq(JobType) /\ JobsFit(jobs)
  BY <1>1 DEF TransportInv, TransportTypes, LinesFit, JobType
<1>3. job \in JobType /\ job[1] = "close" /\ job[2] = 0
  BY TransportConstants DEF JobType
<1> HIDE DEF job
<1>4. jobs' \in Seq(JobType) /\ Work(jobs') = Work(jobs) /\ JobsFit(jobs')
  BY <1>1, <1>2, <1>3, JobQueued
<1>5. TransportTypes'
  BY <1>1, <1>2, <1>4, FlushFacts DEF TransportTypes, JobType
<1> QED
  BY <1>1, <1>2, <1>4, <1>5, FlushFacts, LinesRest

LEMMA CloseFileKeeps ==
  ASSUME TransportInv, Lt!CloseFile PROVE TransportInv'
<1>1. /\ jobs # <<>> /\ Head(jobs)[1] = "close" /\ jobs' = Tail(jobs) /\ open' = FALSE
      /\ UNCHANGED <<transportKind, maxFiles, entered, lines, flushing, logFiles, currentSize, exists,
                     rotations, born, deleted, early, posts, posted, disturbed>>
  BY DEF Lt!CloseFile, Lt!rotationVars, Lt!httpVars
<1>2. transportKind # "http"
  BY <1>1 DEF TransportInv, BatchesFit
<1>3. TransportTypes /\ LinesFit /\ jobs \in Seq(JobType) /\ JobsFit(jobs)
  BY <1>2 DEF TransportInv, TransportTypes, LinesFit, JobType
<1>4. jobs' \in Seq(JobType) /\ Work(jobs') = Work(jobs) /\ JobsFit(jobs')
  BY <1>1, <1>3, JobDone
<1>5. TransportTypes'
  BY <1>1, <1>3, <1>4 DEF TransportTypes, JobType
<1>6. Newest' = Newest
  BY <1>1 DEF Newest
<1> QED
  BY <1>1, <1>2, <1>3, <1>4, <1>5, <1>6, LinesRest

\* A line is written, or its file is closed first.
LEMMA WriteLineKeeps ==
  ASSUME TransportInv, Lt!WriteLine PROVE TransportInv'
<1> DEFINE e == entered + 1
           rotates == transportKind = "rotating" /\ currentSize + Lt!Size(e) > MaxSize
           job == <<"rotate", e>>
<1>1. /\ transportKind # "http" /\ e <= MaxLines /\ entered' = e
      /\ UNCHANGED <<transportKind, maxFiles, open, flushing, exists, rotations, born, deleted, early,
                     posts, posted>>
      /\ rotates => /\ Lt!FlushFile(lines) /\ jobs' = Append(jobs, job) /\ UNCHANGED currentSize
                    /\ disturbed' = (disturbed \/ jobs # <<>> \/ lines' # <<>>)
      /\ ~rotates => /\ lines' = Append(lines, e) /\ UNCHANGED <<logFiles, jobs>>
                     /\ disturbed' = (disturbed \/ jobs # <<>>)
                     /\ currentSize' = IF transportKind = "rotating" THEN currentSize + Lt!Size(e)
                                       ELSE currentSize
  BY DEF Lt!WriteLine, Lt!rotationVars, Lt!httpVars
<1>2. /\ TransportTypes /\ LinesFit /\ FilesFit /\ jobs \in Seq(JobType) /\ ~early
      /\ (transportKind = "rotating" /\ ~disturbed => InOrder)
      /\ lines \in Seq(Lt!Entries) /\ currentSize \in Nat /\ entered \in Nat
  BY <1>1, NewestFacts DEF TransportInv, TransportTypes, JobType
<1>3. /\ e \in Lt!Entries /\ e \in Nat /\ entered' \in 0 .. MaxLines /\ 1 .. e = (1 .. entered) \cup {e}
      /\ \A x \in 1 .. entered : x < e /\ x \in Nat
  BY <1>1, <1>2, TransportConstants
<1>4. e \notin Range(Newest) /\ e \notin Archived /\ e \notin Delayed(jobs)
      /\ \A x \in Range(Newest) \cup Archived : x < e
  BY <1>3, <1>2 DEF LinesFit
<1>5. /\ job \in JobType /\ job[1] = "rotate" /\ job[2] = e
      /\ 0 \in Lt!Slots /\ Lt!LastSlot' = Lt!LastSlot /\ Lt!Size(e) \in Nat
  BY <1>1, <1>3, TransportConstants, NothingHasSize DEF JobType, Lt!LastSlot
<1> HIDE DEF e, job
<1>6. CASE rotates
  <2>1. /\ lines' \in Seq(Lt!Entries) /\ logFiles' \in [Lt!Slots -> Seq(Lt!Entries)]
        /\ Newest' = Newest /\ (lines = <<>> => lines' = <<>>)
        /\ \A i \in Lt!Slots \ {0} : logFiles'[i] = logFiles[i]
    BY <1>1, <1>2, <1>6, FlushFacts
  <2>2. /\ jobs' \in Seq(JobType) /\ JobsFit(jobs') /\ Work(jobs') = Work(jobs) \cup {job}
    <3>1. jobs' = Append(jobs, job) /\ JobsFit(jobs) /\ job[2] \notin Delayed(jobs) /\ job[1] # "close"
      BY <1>1, <1>2, <1>4, <1>5, <1>6 DEF LinesFit
    <3> QED
      BY <1>2, <1>5, <3>1, JobQueued
  <2>3. Delayed(jobs') = Delayed(jobs) \cup {e}
    BY <1>5, <2>2 DEF Delayed
  <2>4. disturbed' \in BOOLEAN
    BY <1>1, <1>6
  <2>5. TransportTypes'
    BY <1>1, <1>2, <1>3, <1>6, <2>1, <2>2, <2>4 DEF TransportTypes, JobType
  <2>6. Archived' = Archived /\ OldFits'
    BY <1>1, <1>2, <2>1, OldRests DEF LinesFit
  <2>7. LinesFit'
    <3>1. 1 .. entered' = Range(Newest') \cup Archived' \cup Delayed(jobs')
      BY <1>1, <1>2, <1>3, <2>1, <2>3, <2>6 DEF LinesFit
    <3> QED
      BY <1>1, <1>2, <1>4, <2>1, <2>2, <2>3, <2>6, <3>1 DEF LinesFit
  <2>8. FilesFit'
    <3>1. transportKind = "rotating"
      BY <1>6
    <3>2. \A i \in Lt!Slots : logFiles'[i] # <<>> => i \in exists
      BY <1>2, <2>1 DEF FilesFit
    <3> QED
      BY <1>1, <1>2, <1>5, <3>1, <3>2 DEF FilesFit
  <2>9. ASSUME ~disturbed' PROVE InOrder'
    <3>1. ~disturbed /\ jobs = <<>> /\ lines' = <<>>
      BY <1>1, <1>6, <2>9
    <3>2. InOrder /\ Work(jobs') = {job}
      BY <1>2, <1>6, <2>2, <3>1, NoWork
    <3>3. \A w \in Work(jobs') :
            /\ Work(jobs') = {w} /\ w[2] = entered' /\ lines' = <<>>
            /\ w[1] = "push" => logFiles'[0] = <<>> /\ currentSize' = 0
      BY <1>1, <1>5, <3>1, <3>2
    <3>4. /\ Work(jobs') = {} => currentSize' = Lt!SizeOf(Newest')
          /\ Lt!SizeOf(Newest') > MaxSize => Len(Newest') = 1
          /\ \A i \in Lt!Slots \ {0} : Lt!SizeOf(logFiles'[i]) > MaxSize => Len(logFiles'[i]) = 1
      BY <2>1, <3>2 DEF InOrder
    <3>5. /\ \A x \in Archived', y \in Range(Newest') : x < y
          /\ \A i, j \in Lt!Slots \ {0} : i < j =>
               \A x \in Range(logFiles'[i]), y \in Range(logFiles'[j]) : y < x
          /\ \A x \in deleted', i \in Lt!Slots \ {0} : \A y \in Range(logFiles'[i]) : x < y
      BY <1>1, <2>1, <2>6, <3>2 DEF InOrder
    <3> QED
      BY <3>3, <3>4, <3>5 DEF InOrder
  <2> QED
    BY <1>1, <1>2, <2>5, <2>7, <2>8, <2>9 DEF TransportInv
<1>7. CASE ~rotates
  <2>1. /\ lines' = Append(lines, e) /\ logFiles' = logFiles /\ jobs' = jobs
        /\ lines' \in Seq(Lt!Entries)
    <3>1. lines' = Append(lines, e) /\ logFiles' = logFiles /\ jobs' = jobs
      BY <1>1, <1>7
    <3>2. Append(lines, e) \in Seq(Lt!Entries)
      BY <1>2, <1>3, AppendProperties
    <3> QED
      BY <3>1, <3>2
  <2>2. /\ Newest \in Seq(Lt!Entries) /\ logFiles[0] \in Seq(Lt!Entries) /\ IsInjective(Newest)
    BY <1>2, NewestFacts DEF LinesFit
  <2>3. Newest' = Append(Newest, e)
    <3>1. logFiles[0] \o Append(lines, e) = Append(logFiles[0] \o lines, e)
      <4>1. \A f, l \in Seq(Lt!Entries) : f \o Append(l, e) = Append(f \o l, e)
        BY <1>3, AppendJoined
      <4> QED
        BY <1>2, <2>2, <4>1
    <3> QED
      BY <2>1, <3>1 DEF Newest
  <2>4. IsInjective(Newest') /\ Range(Newest') = Range(Newest) \cup {e}
    BY <1>3, <1>4, <2>2, <2>3, InjectiveAppend, RangeAppend
  <2>5. disturbed' \in BOOLEAN /\ currentSize' \in Nat
    BY <1>1, <1>2, <1>5, <1>7
  <2>6. TransportTypes'
    BY <1>1, <1>2, <1>3, <2>1, <2>5 DEF TransportTypes
  <2>7. Archived' = Archived /\ OldFits'
    BY <1>1, <1>2, <2>1, OldRests DEF LinesFit
  <2>8. LinesFit'
    <3>1. 1 .. entered' = Range(Newest') \cup Archived' \cup Delayed(jobs')
      BY <1>1, <1>2, <1>3, <2>1, <2>4, <2>7 DEF LinesFit
    <3> QED
      BY <1>1, <1>2, <1>4, <2>1, <2>4, <2>7, <3>1 DEF LinesFit
  <2>9. FilesFit'
    <3>1. ASSUME Newest = [i \in 1 .. entered |-> i] PROVE Newest' = [i \in 1 .. entered' |-> i]
      <4> DEFINE all == [i \in 1 .. e |-> i]
      <4>1. /\ Len(Newest) = entered /\ \A i \in 1 .. entered : Newest[i] = i
        <5>1. DOMAIN Newest = 1 .. Len(Newest) /\ Len(Newest) \in Nat
          BY <2>2, LenProperties
        <5>2. DOMAIN Newest = 1 .. entered /\ \A i \in 1 .. entered : Newest[i] = i
          BY <3>1
        <5>3. \A a, b \in Nat : 1 .. a = 1 .. b => a = b
          <6> SUFFICES ASSUME NEW a \in Nat, NEW b \in Nat, 1 .. a = 1 .. b PROVE a = b
            OBVIOUS
          <6>1. (a # 0 => a \in 1 .. a) /\ (b # 0 => b \in 1 .. b)
            OBVIOUS
          <6>2. (a # 0 => a <= b) /\ (b # 0 => b <= a)
            BY <6>1
          <6> QED
            BY <6>2
        <5> QED
          BY <1>2, <5>1, <5>2, <5>3
      <4>2. /\ Newest' \in Seq(Lt!Entries) /\ Len(Newest') = entered + 1 /\ Newest'[entered + 1] = e
            /\ \A i \in 1 .. entered : Newest'[i] = i
        BY <1>3, <2>2, <2>3, <4>1, AppendProperties
      <4>3. e = entered + 1
        BY DEF e
      <4>4. Newest' = all
        <5>1. DOMAIN Newest' = 1 .. e /\ Newest' \in [1 .. e -> Lt!Entries]
          BY <4>2, <4>3, LenProperties
        <5>2. \A i \in 1 .. e : Newest'[i] = i
          BY <1>2, <4>2, <4>3
        <5> QED
          BY <5>1, <5>2
      <4> QED
        BY <1>1, <4>4
    <3> QED
      BY <1>1, <1>2, <1>5, <2>1, <2>7, <3>1 DEF FilesFit
  <2>10. ASSUME transportKind = "rotating", ~disturbed' PROVE InOrder'
    <3>1. ~disturbed /\ jobs = <<>>
      BY <1>1, <1>7, <2>10
    <3>2. InOrder /\ Work(jobs') = {}
      BY <1>2, <2>1, <2>10, <3>1, NoWork
    <3>3. /\ currentSize = Lt!SizeOf(Newest) /\ currentSize' = currentSize + Lt!Size(e)
          /\ ~(currentSize + Lt!Size(e) > MaxSize)
      BY <1>1, <1>7, <2>1, <2>10, <3>2 DEF InOrder
    <3>4. Lt!SizeOf(Newest') = Lt!SizeOf(Newest) + Lt!Size(e)
      BY <1>3, <2>2, <2>3, SizeFacts
    <3>5. currentSize' = Lt!SizeOf(Newest') /\ ~(Lt!SizeOf(Newest') > MaxSize)
      BY <3>3, <3>4
    <3>6. \A i \in Lt!Slots \ {0} : Lt!SizeOf(logFiles'[i]) > MaxSize => Len(logFiles'[i]) = 1
      BY <2>1, <3>2 DEF InOrder
    <3>7. \A x \in Archived', y \in Range(Newest') : x < y
      BY <1>4, <2>4, <2>7, <3>2 DEF InOrder
    <3>8. /\ \A i, j \in Lt!Slots \ {0} : i < j =>
               \A x \in Range(logFiles'[i]), y \in Range(logFiles'[j]) : y < x
          /\ \A x \in deleted', i \in Lt!Slots \ {0} : \A y \in Range(logFiles'[i]) : x < y
      BY <1>1, <2>1, <3>2 DEF InOrder
    <3> QED
      BY <3>2, <3>5, <3>6, <3>7, <3>8 DEF InOrder
  <2> QED
    BY <1>1, <1>2, <2>6, <2>8, <2>9, <2>10 DEF TransportInv
<1> QED
  BY <1>6, <1>7

LEMMA PushRotatedKeeps ==
  ASSUME TransportInv, Lt!PushRotated PROVE TransportInv'
<1> DEFINE job == Head(jobs)
           e == job[2]
<1>1. /\ jobs # <<>> /\ job[1] = "push" /\ jobs' = Tail(jobs)
      /\ currentSize' = currentSize + Lt!Size(e) /\ lines' = Append(lines, e)
      /\ UNCHANGED <<transportKind, maxFiles, entered, open, flushing, logFiles, exists, rotations, born,
                     deleted, early, posts, posted, disturbed>>
  BY DEF Lt!PushRotated, Lt!rotationVars, Lt!httpVars
<1>2. transportKind # "http"
  BY <1>1 DEF TransportInv, BatchesFit
<1>3. /\ TransportTypes /\ LinesFit /\ FilesFit /\ jobs \in Seq(JobType) /\ ~early /\ JobsFit(jobs)
      /\ (transportKind = "rotating" /\ ~disturbed => InOrder)
      /\ lines \in Seq(Lt!Entries) /\ currentSize \in Nat /\ entered \in Nat
  BY <1>2, NewestFacts DEF TransportInv, TransportTypes, JobType, LinesFit
<1>4. /\ job \in JobType /\ jobs' \in Seq(JobType) /\ JobsFit(jobs') /\ job \in Work(jobs)
      /\ Work(jobs') = Work(jobs) \ {job} /\ Delayed(jobs') = Delayed(jobs) \ {e}
  BY <1>1, <1>3, JobDone
<1> HIDE DEF job
<1>5. /\ e \in Delayed(jobs) /\ e \in 1 .. entered /\ e \in Lt!Entries /\ Lt!Size(e) \in Nat
  <2>1. e \in Delayed(jobs)
    BY <1>4 DEF Delayed
  <2>2. e \in 1 .. entered /\ entered \in 0 .. MaxLines
    BY <1>3, <2>1 DEF LinesFit, TransportTypes
  <2> QED
    <3>1. e \in Lt!Entries
      BY <2>2, TransportConstants
    <3>2. Lt!Size(e) \in Nat
      BY NothingHasSize
    <3> QED
      BY <2>1, <2>2, <3>1, <3>2
<1> HIDE DEF e
<1>6. e \notin Range(Newest) /\ e \notin Archived
  BY <1>3, <1>5 DEF LinesFit
<1>7. /\ Newest \in Seq(Lt!Entries) /\ logFiles[0] \in Seq(Lt!Entries) /\ IsInjective(Newest)
      /\ lines' \in Seq(Lt!Entries)
  BY <1>1, <1>3, <1>5, NewestFacts, AppendProperties DEF LinesFit
<1>8. Newest' = Append(Newest, e)
  <2>1. logFiles[0] \o Append(lines, e) = Append(logFiles[0] \o lines, e)
    <3>1. \A f, l \in Seq(Lt!Entries) : f \o Append(l, e) = Append(f \o l, e)
      BY <1>5, AppendJoined
    <3> QED
      BY <1>3, <1>7, <3>1
  <2> QED
    BY <1>1, <2>1 DEF Newest
<1>9. IsInjective(Newest') /\ Range(Newest') = Range(Newest) \cup {e}
  BY <1>5, <1>6, <1>7, <1>8, InjectiveAppend, RangeAppend
<1>10. TransportTypes'
  <2>1. currentSize' \in Nat
    BY <1>1, <1>3, <1>5
  <2> QED
    BY <1>1, <1>3, <1>4, <1>7, <2>1 DEF TransportTypes, JobType
<1>11. Archived' = Archived /\ OldFits'
  BY <1>1, <1>3, OldRests DEF LinesFit
<1>12. LinesFit'
  <2>1. 1 .. entered' = Range(Newest') \cup Archived' \cup Delayed(jobs')
    BY <1>1, <1>3, <1>4, <1>5, <1>9, <1>11 DEF LinesFit
  <2> QED
    BY <1>1, <1>3, <1>4, <1>6, <1>9, <1>11, <2>1 DEF LinesFit
<1>13. transportKind # "file"
  BY <1>3, <1>4 DEF FilesFit
<1>14. FilesFit'
  <2>1. Lt!LastSlot' = Lt!LastSlot
    BY <1>1 DEF Lt!LastSlot
  <2> QED
    BY <1>1, <1>3, <1>13, <2>1 DEF FilesFit
<1>15. ASSUME transportKind = "rotating", ~disturbed' PROVE InOrder'
  <2>1. InOrder /\ Work(jobs) = {job} /\ e = entered /\ lines = <<>> /\ logFiles[0] = <<>> /\ currentSize = 0
    <3>1. InOrder
      BY <1>1, <1>3, <1>15
    <3> QED
      BY <1>1, <1>4, <3>1 DEF InOrder, e
  <2>2. Newest = <<>> /\ Work(jobs') = {} /\ Range(Newest) = {}
    <3>1. Newest = <<>>
      BY <1>3, <2>1, NewestFacts
    <3> QED
      BY <1>4, <2>1, <3>1 DEF Range
  <2>3. Len(Newest') = 1 /\ Lt!SizeOf(Newest') = Lt!Size(e) /\ currentSize' = Lt!Size(e)
    <3>1. Len(Newest') = Len(Newest) + 1 /\ Len(Newest) = 0
      BY <1>5, <1>7, <1>8, <2>2, AppendProperties, EmptySeq
    <3>2. Lt!SizeOf(Newest') = 0 + Lt!Size(e)
      BY <1>5, <1>7, <1>8, <2>2, SizeFacts, NothingHasSize
    <3> QED
      BY <1>1, <1>5, <2>1, <3>1, <3>2
  <2>4. \A i \in Lt!Slots \ {0} : Lt!SizeOf(logFiles'[i]) > MaxSize => Len(logFiles'[i]) = 1
    BY <1>1, <2>1 DEF InOrder
  <2>5. \A x \in Archived', y \in Range(Newest') : x < y
    <3> SUFFICES ASSUME NEW x \in Archived PROVE x < e
      BY <1>9, <1>11, <2>2
    <3>1. x \in 1 .. entered /\ x # e
      BY <1>3, <1>6 DEF LinesFit
    <3> QED
      BY <1>3, <2>1, <3>1
  <2>6. /\ \A i, j \in Lt!Slots \ {0} : i < j =>
             \A x \in Range(logFiles'[i]), y \in Range(logFiles'[j]) : y < x
        /\ \A x \in deleted', i \in Lt!Slots \ {0} : \A y \in Range(logFiles'[i]) : x < y
    BY <1>1, <2>1 DEF InOrder
  <2> QED
    BY <2>2, <2>3, <2>4, <2>5, <2>6 DEF InOrder
<1> QED
  BY <1>1, <1>2, <1>3, <1>10, <1>12, <1>14, <1>15 DEF TransportInv

\* What no two files have in common, before and after.
LEMMA FilesApart ==
  ASSUME TransportTypes, LinesFit
  PROVE  /\ \A i \in Lt!Slots : /\ IsInjective(logFiles[i]) /\ Range(logFiles[i]) \cap deleted = {}
                                /\ Range(logFiles[i]) \cap Range(lines) = {}
         /\ \A i, j \in Lt!Slots : i # j => Range(logFiles[i]) \cap Range(logFiles[j]) = {}
         /\ IsInjective(lines)
         /\ \A i \in Lt!Slots : i # 0 => Range(logFiles[i]) \subseteq Archived
         /\ deleted \subseteq Archived
<1>1. /\ logFiles[0] \in Seq(Lt!Entries) /\ lines \in Seq(Lt!Entries) /\ IsInjective(Newest)
  BY NewestFacts DEF LinesFit, TransportTypes
<1>2. /\ IsInjective(logFiles[0]) /\ IsInjective(lines) /\ Range(logFiles[0]) \cap Range(lines) = {}
      /\ Range(Newest) = Range(logFiles[0]) \cup Range(lines)
  <2>1. \A f, l \in Seq(Lt!Entries) : IsInjective(f \o l) =>
          /\ IsInjective(f) /\ IsInjective(l) /\ Range(f) \cap Range(l) = {}
          /\ Range(f \o l) = Range(f) \cup Range(l)
    BY PartsOfLine
  <2> QED
    BY <1>1, <2>1 DEF Newest
<1>3. \A i \in Lt!Slots : i # 0 => Range(logFiles[i]) \subseteq Archived
  BY DEF Archived
<1>4. deleted \subseteq Archived
  BY DEF Archived
<1>5. Range(Newest) \cap Archived = {} /\ OldFits
  BY DEF LinesFit
<1>6. ASSUME NEW i \in Lt!Slots
      PROVE  /\ IsInjective(logFiles[i]) /\ Range(logFiles[i]) \cap deleted = {}
             /\ Range(logFiles[i]) \cap Range(lines) = {}
  <2>1. CASE i = 0
    BY <1>2, <1>4, <1>5, <2>1
  <2>2. CASE i # 0
    BY <1>2, <1>3, <1>5, <2>2 DEF OldFits
  <2> QED
    BY <2>1, <2>2
<1>7. ASSUME NEW i \in Lt!Slots, NEW j \in Lt!Slots, i # j
      PROVE  Range(logFiles[i]) \cap Range(logFiles[j]) = {}
  <2>1. CASE i # 0 /\ j # 0
    BY <1>5, <1>7, <2>1 DEF OldFits
  <2>2. CASE i = 0 \/ j = 0
    BY <1>2, <1>3, <1>5, <1>7, <2>2
  <2> QED
    BY <2>1, <2>2
<1> QED
  BY <1>2, <1>3, <1>4, <1>6, <1>7

\* Every file goes one place down; the one in the last place is gone.
LEMMA RotateFacts ==
  ASSUME TransportTypes, LinesFit, FilesFit, Lt!RotateFiles, UNCHANGED lines
  PROVE  /\ \A i \in Lt!Slots : logFiles'[i] = <<>> \/
              (i > 0 /\ i - 1 \in exists /\ i - 1 < Lt!LastSlot /\ i \in exists'
               /\ i - 1 \in Lt!Slots /\ logFiles'[i] = logFiles[i - 1])
         /\ logFiles' \in [Lt!Slots -> Seq(Lt!Entries)] /\ logFiles'[0] = <<>>
         /\ Newest' = lines
         /\ \A x : x \in deleted' <=> (x \in deleted \/ (Lt!LastSlot \in exists /\ x \in Range(logFiles[Lt!LastSlot])))
         /\ Archived' = Archived \cup Range(logFiles[0])
         /\ Lt!LastSlot \in Nat
<1> DEFINE L == Lt!LastSlot
<1>1. /\ exists' = {0} \cup {i + 1 : i \in {i \in exists : i < L}}
      /\ logFiles' = [i \in Lt!Slots |->
                        IF i > 0 /\ i - 1 \in exists /\ i <= L THEN logFiles[i - 1] ELSE <<>>]
      /\ deleted' = deleted \cup UNION {Range(logFiles[i]) : i \in exists \cap {L}}
  BY TransportConstants DEF Lt!RotateFiles
<1>2. L \in Nat /\ (\A i \in 0 .. L : i \in Lt!Slots) /\ Lt!Slots \subseteq Nat /\ 0 \in Lt!Slots
  BY SlotFacts, TransportConstants DEF TransportTypes
<1>3. /\ exists \subseteq 0 .. L /\ 0 \in exists /\ exists \subseteq Lt!Slots
      /\ \A i \in Lt!Slots : logFiles[i] # <<>> => i \in exists
      /\ \A i \in Lt!Slots : logFiles[i] \in Seq(Lt!Entries)
  BY DEF FilesFit, TransportTypes
<1> HIDE DEF L
<1>4. ASSUME NEW i \in Lt!Slots
      PROVE  logFiles'[i] = <<>> \/ (i > 0 /\ i - 1 \in exists /\ i - 1 < L /\ i \in exists'
                                     /\ i - 1 \in Lt!Slots /\ logFiles'[i] = logFiles[i - 1])
  <2>1. CASE i > 0 /\ i - 1 \in exists /\ i <= L
    <3>1. i - 1 < L /\ (i - 1) + 1 = i
      BY <1>2, <2>1
    <3>2. i \in exists'
      <4>1. i - 1 \in {k \in exists : k < L}
        BY <2>1, <3>1
      <4>2. (i - 1) + 1 \in {k + 1 : k \in {k \in exists : k < L}}
        BY <4>1
      <4> QED
        BY <1>1, <3>1, <4>2
    <3> QED
      BY <1>1, <1>3, <2>1, <3>1, <3>2
  <2>2. CASE ~(i > 0 /\ i - 1 \in exists /\ i <= L)
    BY <1>1, <2>2
  <2> QED
    BY <2>1, <2>2
<1>5. logFiles' \in [Lt!Slots -> Seq(Lt!Entries)] /\ logFiles'[0] = <<>>
  <2>1. <<>> \in Seq(Lt!Entries)
    BY EmptySeq
  <2>2. \A i \in Lt!Slots : logFiles'[i] \in Seq(Lt!Entries)
    BY <1>3, <1>4, <2>1
  <2>3. logFiles' = [i \in Lt!Slots |-> logFiles'[i]]
    BY <1>1
  <2>4. ~(0 > 0)
    OBVIOUS
  <2> QED
    BY <1>1, <1>2, <2>2, <2>3, <2>4
<1>6. Newest' = lines
  <2>1. <<>> \o lines = lines
    BY ConcatEmptySeq DEF TransportTypes
  <2> QED
    BY <1>5, <2>1 DEF Newest
<1>7. \A x : x \in deleted' <=> (x \in deleted \/ (L \in exists /\ x \in Range(logFiles[L])))
  BY <1>1
<1>8. Archived' = Archived \cup Range(logFiles[0])
  <2>1. \A x : x \in Archived <=> (x \in deleted \/ \E i \in Lt!Slots : i # 0 /\ x \in Range(logFiles[i]))
    BY DEF Archived
  <2>2. \A x : x \in Archived' <=> (x \in deleted' \/ \E i \in Lt!Slots : i # 0 /\ x \in Range(logFiles'[i]))
    BY DEF Archived
  <2>3. Range(<<>>) = {}
    BY EmptySeq DEF Range
  <2>4. ASSUME NEW x \in Archived' PROVE x \in Archived \cup Range(logFiles[0])
    <3>1. CASE x \in deleted'
      BY <1>2, <1>3, <1>7, <2>1, <3>1
    <3>2. CASE \E i \in Lt!Slots : i # 0 /\ x \in Range(logFiles'[i])
      BY <1>4, <2>1, <2>3, <3>2
    <3> QED
      BY <2>2, <2>4, <3>1, <3>2
  <2>5. ASSUME NEW x, NEW i \in Lt!Slots, x \in Range(logFiles[i]) PROVE x \in Archived'
    <3>1. i \in exists /\ i \in 0 .. L
      BY <1>3, <2>3, <2>5
    <3>2. CASE i = L
      BY <1>7, <2>2, <2>5, <3>1, <3>2
    <3>3. CASE i # L
      <4>1. i + 1 \in 0 .. L /\ i + 1 > 0 /\ (i + 1) - 1 = i /\ i + 1 <= L /\ i + 1 # 0
        BY <1>2, <3>1, <3>3
      <4>2. i + 1 \in Lt!Slots
        BY <1>2, <4>1
      <4>3. logFiles'[i + 1] = logFiles[i]
        BY <1>1, <3>1, <4>1, <4>2
      <4> QED
        BY <2>2, <2>5, <4>1, <4>2, <4>3
    <3> QED
      BY <3>2, <3>3
  <2>6. \A x \in deleted : x \in Archived'
    BY <1>7, <2>2
  <2>7. ASSUME NEW x \in Archived \cup Range(logFiles[0]) PROVE x \in Archived'
    <3>1. x \in deleted \/ \E i \in Lt!Slots : x \in Range(logFiles[i])
      BY <1>2, <2>1, <2>7
    <3> QED
      BY <2>5, <2>6, <3>1
  <2> QED
    BY <2>4, <2>7
<1> QED
  BY <1>2, <1>4, <1>5, <1>6, <1>7, <1>8 DEF L

\* The counting that tells how old the last file is.
LEMMA AgesRotate ==
  ASSUME TransportTypes, FilesFit, Lt!RotateFiles, rotations' = rotations + 1, maxFiles' = maxFiles
  PROVE  /\ 0 \in exists' /\ exists' \subseteq 0 .. Lt!LastSlot /\ exists' \subseteq Lt!Slots
         /\ born' \in [Lt!Slots -> Nat] /\ \A i \in exists' : born'[i] + i = rotations'
         /\ early' = early
<1> DEFINE L == Lt!LastSlot
<1>1. /\ exists' = {0} \cup {i + 1 : i \in {i \in exists : i < L}}
      /\ born' = [i \in Lt!Slots |-> IF i \in exists' \ {0} THEN born[i - 1] ELSE rotations + 1]
      /\ early' = (early \/ (L \in exists /\ rotations < born[L] + L))
  BY DEF Lt!RotateFiles
<1>2. L \in Nat /\ (\A i \in 0 .. L : i \in Lt!Slots) /\ 0 \in Lt!Slots
  BY SlotFacts, TransportConstants DEF TransportTypes
<1>3. /\ exists \subseteq 0 .. L /\ exists \subseteq Lt!Slots /\ \A i \in exists : born[i] + i = rotations
      /\ rotations \in Nat /\ born \in [Lt!Slots -> Nat] /\ early \in BOOLEAN
  BY DEF FilesFit, TransportTypes
<1> HIDE DEF L
<1>4. ASSUME NEW i \in exists', i # 0
      PROVE  /\ i - 1 \in exists /\ i \in 0 .. L /\ i \in Nat
             /\ born[i - 1] \in Nat /\ born[i - 1] + i = rotations + 1
  <2>1. PICK k \in exists : k < L /\ i = k + 1
    BY <1>1, <1>4
  <2>2. k \in Nat /\ born[k] \in Nat /\ born[k] + k = rotations
    BY <1>3, <2>1
  <2>3. i - 1 = k /\ i \in 0 .. L /\ i \in Nat
    BY <1>2, <2>1, <2>2
  <2>4. born[i - 1] = born[k]
    BY <2>3
  <2>5. born[k] + i = rotations + 1
    <3> DEFINE b == born[k]
    <3>1. b \in Nat /\ b + k = rotations
      BY <2>2
    <3> HIDE DEF b
    <3>2. b + i = rotations + 1
      BY <1>3, <2>1, <2>2, <3>1
    <3> QED
      BY <3>2 DEF b
  <2> QED
    BY <2>2, <2>3, <2>4, <2>5
<1>5. 0 \in exists' /\ exists' \subseteq 0 .. L /\ exists' \subseteq Lt!Slots
  <2>1. 0 \in 0 .. L
    BY <1>2
  <2> QED
    BY <1>1, <1>2, <1>4, <2>1
<1>6. born' \in [Lt!Slots -> Nat]
  <2>1. rotations + 1 \in Nat
    BY <1>3
  <2> QED
    BY <1>1, <1>4, <2>1
<1>7. ASSUME NEW i \in exists' PROVE born'[i] + i = rotations'
  <2>1. CASE i = 0
    <3>1. born'[0] = rotations + 1
      BY <1>1, <1>2
    <3> QED
      BY <1>3, <2>1, <3>1
  <2>2. CASE i # 0
    <3>1. born'[i] = born[i - 1]
      BY <1>1, <1>5, <2>2
    <3> QED
      BY <1>4, <2>2, <3>1
  <2> QED
    BY <2>1, <2>2
<1>8. early' = early
  <2>1. ~(L \in exists /\ rotations < born[L] + L)
    <3>1. L \in exists => born[L] + L = rotations
      BY <1>3
    <3>2. ~(rotations < rotations)
      BY <1>3
    <3> QED
      BY <3>1, <3>2
  <2> QED
    BY <1>1, <1>3, <2>1
<1> QED
  BY <1>5, <1>6, <1>7, <1>8 DEF L

\* The files are rotated, and the line waits to be pushed.
LEMMA RotateKeeps ==
  ASSUME TransportInv, Lt!rotate PROVE TransportInv'
<1> DEFINE job == Head(jobs)
           e == job[2]
           new == <<"push", e>>
<1>1. /\ jobs # <<>> /\ job[1] = "rotate" /\ jobs' = Append(Tail(jobs), new)
      /\ Lt!RotateFiles /\ rotations' = rotations + 1 /\ open' = TRUE /\ currentSize' = 0
      /\ UNCHANGED <<transportKind, maxFiles, entered, lines, flushing, posts, posted, disturbed>>
  BY DEF Lt!rotate, Lt!httpVars
<1>2. transportKind # "http"
  BY <1>1 DEF TransportInv, BatchesFit
<1>3. /\ TransportTypes /\ LinesFit /\ FilesFit /\ jobs \in Seq(JobType) /\ ~early /\ JobsFit(jobs)
      /\ (transportKind = "rotating" /\ ~disturbed => InOrder)
      /\ lines \in Seq(Lt!Entries) /\ entered \in Nat /\ Lt!Slots \subseteq Nat /\ 0 \in Lt!Slots
  BY <1>2, NewestFacts, TransportConstants DEF TransportInv, TransportTypes, JobType, LinesFit
<1>4. /\ job \in JobType /\ Tail(jobs) \in Seq(JobType) /\ JobsFit(Tail(jobs)) /\ job \in Work(jobs)
      /\ Work(Tail(jobs)) = Work(jobs) \ {job} /\ Delayed(Tail(jobs)) = Delayed(jobs) \ {e}
  BY <1>1, <1>3, JobDone
<1>5. new \in JobType /\ new[1] = "push" /\ new[2] = e /\ e \in Delayed(jobs)
  BY <1>4 DEF JobType, Delayed
<1> HIDE DEF job
<1>6. jobs' \in Seq(JobType) /\ JobsFit(jobs') /\ Work(jobs') = Work(Tail(jobs)) \cup {new}
  <2> HIDE DEF e, new
  <2>1. new[2] \notin Delayed(Tail(jobs)) /\ new[1] # "close"
    BY <1>4, <1>5
  <2> QED
    BY <1>1, <1>4, <1>5, <2>1, JobQueued
<1>7. Delayed(jobs') = Delayed(jobs)
  <2> HIDE DEF e, new
  <2>1. Delayed(jobs') = Delayed(Tail(jobs)) \cup {e}
    BY <1>5, <1>6 DEF Delayed
  <2> QED
    BY <1>4, <1>5, <2>1
<1> HIDE DEF e, new
<1>8. /\ \A i \in Lt!Slots : logFiles'[i] = <<>> \/
            (i > 0 /\ i - 1 \in exists /\ i - 1 < Lt!LastSlot /\ i \in exists'
             /\ i - 1 \in Lt!Slots /\ logFiles'[i] = logFiles[i - 1])
      /\ logFiles' \in [Lt!Slots -> Seq(Lt!Entries)] /\ logFiles'[0] = <<>>
      /\ Newest' = lines
      /\ \A x : x \in deleted' <=> (x \in deleted \/ (Lt!LastSlot \in exists /\ x \in Range(logFiles[Lt!LastSlot])))
      /\ Archived' = Archived \cup Range(logFiles[0])
      /\ Lt!LastSlot \in Nat
  BY <1>1, <1>3, RotateFacts
<1>9. /\ 0 \in exists' /\ exists' \subseteq 0 .. Lt!LastSlot /\ exists' \subseteq Lt!Slots
      /\ born' \in [Lt!Slots -> Nat] /\ \A i \in exists' : born'[i] + i = rotations'
      /\ early' = early
  BY <1>1, <1>3, AgesRotate
<1>10. /\ \A i \in Lt!Slots : /\ IsInjective(logFiles[i]) /\ Range(logFiles[i]) \cap deleted = {}
                              /\ Range(logFiles[i]) \cap Range(lines) = {}
       /\ \A i, j \in Lt!Slots : i # j => Range(logFiles[i]) \cap Range(logFiles[j]) = {}
       /\ IsInjective(lines)
       /\ \A i \in Lt!Slots : i # 0 => Range(logFiles[i]) \subseteq Archived
       /\ deleted \subseteq Archived
  BY <1>3, FilesApart
<1>11. /\ Range(Newest) = Range(logFiles[0]) \cup Range(lines) /\ Range(Newest) \subseteq Lt!Entries
       /\ Range(Newest) \cap Archived = {} /\ Range(<<>>) = {}
       /\ exists \subseteq 0 .. Lt!LastSlot /\ exists \subseteq Lt!Slots
  <2>1. Range(Newest) = Range(logFiles[0]) \cup Range(lines) /\ Range(Newest) \subseteq Lt!Entries
    BY <1>3, NewestFacts
  <2>2. Range(<<>>) = {}
    BY EmptySeq DEF Range
  <2> QED
    BY <1>3, <2>1, <2>2 DEF LinesFit, FilesFit, TransportTypes
<1>12. OldFits'
  <2>1. ASSUME NEW i \in Lt!Slots \ {0}
        PROVE  IsInjective(logFiles'[i]) /\ Range(logFiles'[i]) \cap deleted' = {}
    <3>1. CASE logFiles'[i] = <<>>
      BY <1>11, <3>1, EmptySeq DEF IsInjective
    <3>2. CASE logFiles'[i] = logFiles[i - 1] /\ i - 1 < Lt!LastSlot /\ i - 1 \in Lt!Slots
      <4>1. i - 1 # Lt!LastSlot
        BY <1>3, <1>8, <3>2
      <4>2. Lt!LastSlot \in exists => Lt!LastSlot \in Lt!Slots
        BY <1>11
      <4> QED
        BY <1>8, <1>10, <3>2, <4>1, <4>2
    <3> QED
      BY <1>8, <3>1, <3>2
  <2>2. ASSUME NEW i \in Lt!Slots \ {0}, NEW j \in Lt!Slots \ {0}, i # j
        PROVE  Range(logFiles'[i]) \cap Range(logFiles'[j]) = {}
    <3>1. CASE logFiles'[i] = <<>> \/ logFiles'[j] = <<>>
      BY <1>11, <3>1
    <3>2. CASE /\ logFiles'[i] = logFiles[i - 1] /\ i - 1 \in Lt!Slots
               /\ logFiles'[j] = logFiles[j - 1] /\ j - 1 \in Lt!Slots
      <4>1. i - 1 # j - 1
        BY <1>3, <2>2
      <4> QED
        BY <1>10, <3>2, <4>1
    <3> QED
      BY <1>8, <3>1, <3>2
  <2> QED
    BY <2>1, <2>2 DEF OldFits
<1>13. LinesFit'
  <2>1. Range(Newest') \cap Archived' = {}
    BY <1>3, <1>8, <1>10, <1>11
  <2>2. Range(Newest') \cup Archived' = Range(Newest) \cup Archived
    BY <1>8, <1>11
  <2>3. Delayed(jobs') \cap Range(Newest') = {} /\ Delayed(jobs') \cap Archived' = {}
    BY <1>3, <1>7, <2>2 DEF LinesFit
  <2>4. 1 .. entered' = Range(Newest') \cup Archived' \cup Delayed(jobs')
    BY <1>1, <1>3, <1>7, <2>2 DEF LinesFit
  <2> QED
    BY <1>1, <1>3, <1>6, <1>8, <1>10, <1>12, <2>1, <2>3, <2>4 DEF LinesFit
<1>14. transportKind # "file"
  BY <1>3, <1>4 DEF FilesFit
<1>15. FilesFit'
  <2>1. Lt!LastSlot' = Lt!LastSlot
    BY <1>1 DEF Lt!LastSlot
  <2>2. \A i \in Lt!Slots : logFiles'[i] # <<>> => i \in exists'
    BY <1>8
  <2> QED
    BY <1>1, <1>9, <1>14, <2>1, <2>2 DEF FilesFit
<1>16. TransportTypes'
  <2>1. deleted' \subseteq Lt!Entries
    <3>1. \A i \in exists : logFiles[i] \in Seq(Lt!Entries)
      BY <1>3, <1>11, NewestFacts
    <3>2. \A s \in Seq(Lt!Entries) : Range(s) \subseteq Lt!Entries
      BY RangeOfSeq
    <3> QED
      BY <1>3, <1>8, <3>1, <3>2 DEF TransportTypes
  <2>2. currentSize' \in Nat /\ rotations' \in Nat /\ early' \in BOOLEAN
    BY <1>1, <1>3, <1>9 DEF TransportTypes
  <2> QED
    BY <1>1, <1>3, <1>6, <1>8, <1>9, <2>1, <2>2 DEF TransportTypes, JobType
<1>17. ASSUME transportKind = "rotating", ~disturbed' PROVE InOrder'
  <2>1. InOrder /\ Work(jobs) = {job} /\ e = entered /\ lines = <<>>
    <3>1. InOrder
      BY <1>1, <1>3, <1>17
    <3> QED
      BY <1>4, <3>1 DEF InOrder, e
  <2>2. Work(jobs') = {new} /\ new[2] = entered' /\ lines' = <<>> /\ currentSize' = 0 /\ logFiles'[0] = <<>>
    BY <1>1, <1>4, <1>5, <1>6, <1>8, <2>1
  <2>3. Newest' = <<>> /\ Range(Newest') = {} /\ ~(Lt!SizeOf(Newest') > MaxSize)
    <3>1. ~(0 > MaxSize)
      BY TransportConstants
    <3> QED
      BY <1>8, <1>11, <2>1, <3>1, NothingHasSize
  <2>4. Newest = logFiles[0]
    <3>1. \A f \in Seq(Lt!Entries) : f \o <<>> = f
      BY ConcatEmptySeq
    <3>2. logFiles[0] \in Seq(Lt!Entries)
      BY <1>3, NewestFacts
    <3> QED
      BY <2>1, <3>1, <3>2 DEF Newest
  <2>5. /\ \A x \in Archived, y \in Range(logFiles[0]) : x < y
        /\ \A i \in Lt!Slots : Lt!SizeOf(logFiles[i]) > MaxSize => Len(logFiles[i]) = 1
        /\ \A i, j \in Lt!Slots \ {0} : i < j =>
             \A x \in Range(logFiles[i]), y \in Range(logFiles[j]) : y < x
        /\ \A x \in deleted, i \in Lt!Slots \ {0} : \A y \in Range(logFiles[i]) : x < y
    <3>1. InOrder
      BY <2>1
    <3>2. \A x \in Archived, y \in Range(logFiles[0]) : x < y
      BY <2>4, <3>1 DEF InOrder
    <3>3. \A i \in Lt!Slots \ {0} : Lt!SizeOf(logFiles[i]) > MaxSize => Len(logFiles[i]) = 1
      BY <3>1 DEF InOrder
    <3>4. Lt!SizeOf(logFiles[0]) > MaxSize => Len(logFiles[0]) = 1
      BY <2>4, <3>1 DEF InOrder
    <3>5. \A i \in Lt!Slots : Lt!SizeOf(logFiles[i]) > MaxSize => Len(logFiles[i]) = 1
      BY <3>3, <3>4
    <3> QED
      BY <3>1, <3>2, <3>5 DEF InOrder
  \* In order, with the first file counted.
  <2>6. ASSUME NEW i \in Lt!Slots, NEW j \in Lt!Slots, i < j,
               NEW x \in Range(logFiles[i]), NEW y \in Range(logFiles[j])
        PROVE  y < x
    <3>1. j # 0
      BY <1>3, <2>6
    <3>2. CASE i = 0
      BY <1>10, <2>5, <2>6, <3>1, <3>2
    <3>3. CASE i # 0
      BY <2>5, <2>6, <3>1, <3>3
    <3> QED
      BY <3>2, <3>3
  <2>7. ASSUME NEW x \in deleted, NEW i \in Lt!Slots, NEW y \in Range(logFiles[i]) PROVE x < y
    <3>1. CASE i = 0
      BY <1>10, <2>5, <2>7, <3>1
    <3>2. CASE i # 0
      BY <2>5, <2>7, <3>2
    <3> QED
      BY <3>1, <3>2
  <2>8. ASSUME NEW i \in Lt!Slots PROVE Lt!SizeOf(logFiles'[i]) > MaxSize => Len(logFiles'[i]) = 1
    <3>1. CASE logFiles'[i] = <<>>
      <4>1. ~(0 > MaxSize)
        BY TransportConstants
      <4> QED
        BY <3>1, <4>1, NothingHasSize
    <3>2. CASE i - 1 \in Lt!Slots /\ logFiles'[i] = logFiles[i - 1]
      BY <2>5, <3>2
    <3> QED
      BY <1>8, <3>1, <3>2
  <2>9. ASSUME NEW i \in Lt!Slots, NEW j \in Lt!Slots, i < j,
               NEW x \in Range(logFiles'[i]), NEW y \in Range(logFiles'[j])
        PROVE  y < x
    <3>1. /\ i - 1 \in Lt!Slots /\ logFiles'[i] = logFiles[i - 1]
          /\ j - 1 \in Lt!Slots /\ logFiles'[j] = logFiles[j - 1]
      BY <1>8, <1>11, <2>9
    <3>2. i - 1 < j - 1
      BY <1>3, <2>9
    <3> QED
      BY <2>6, <2>9, <3>1, <3>2
  <2>10. ASSUME NEW x \in deleted', NEW i \in Lt!Slots, NEW y \in Range(logFiles'[i]) PROVE x < y
    <3>1. i - 1 \in Lt!Slots /\ i - 1 < Lt!LastSlot /\ y \in Range(logFiles[i - 1])
      BY <1>8, <1>11, <2>10
    <3>2. CASE x \in deleted
      BY <2>7, <3>1, <3>2
    <3>3. CASE Lt!LastSlot \in Lt!Slots /\ x \in Range(logFiles[Lt!LastSlot])
      BY <2>6, <3>1, <3>3
    <3> QED
      BY <1>8, <1>11, <2>10, <3>2, <3>3
  <2>11. \A w \in Work(jobs') :
            /\ Work(jobs') = {w} /\ w[2] = entered' /\ lines' = <<>>
            /\ w[1] = "push" => logFiles'[0] = <<>> /\ currentSize' = 0
    BY <2>2
  <2>12. /\ Work(jobs') = {} => currentSize' = Lt!SizeOf(Newest')
         /\ Lt!SizeOf(Newest') > MaxSize => Len(Newest') = 1
    BY <2>2, <2>3
  <2>13. \A x \in Archived', y \in Range(Newest') : x < y
    BY <2>3
  <2> QED
    BY <2>8, <2>9, <2>10, <2>11, <2>12, <2>13 DEF InOrder
<1> QED
  BY <1>1, <1>2, <1>3, <1>9, <1>13, <1>15, <1>16, <1>17 DEF TransportInv

-----------------------------------------------------------------------------
(* Batches.                                                                *)

\* One line of several becomes another.
LEMMA UnionOfAppended ==
  ASSUME NEW S, NEW several \in Seq(Seq(S)), NEW one \in Seq(S)
  PROVE  /\ Append(several, one) \in Seq(Seq(S))
         /\ DOMAIN Append(several, one) = (DOMAIN several) \cup {Len(several) + 1}
         /\ Len(several) + 1 \notin DOMAIN several
         /\ Append(several, one)[Len(several) + 1] = one
         /\ \A k \in DOMAIN several : Append(several, one)[k] = several[k]
<1>1. /\ Append(several, one) \in Seq(Seq(S)) /\ Len(Append(several, one)) = Len(several) + 1
      /\ \A k \in 1 .. Len(several) : Append(several, one)[k] = several[k]
      /\ Append(several, one)[Len(several) + 1] = one
      /\ DOMAIN several = 1 .. Len(several) /\ Len(several) \in Nat
      /\ DOMAIN Append(several, one) = 1 .. Len(several) + 1
  BY AppendProperties, LenProperties
<1>2. 1 .. Len(several) + 1 = (1 .. Len(several)) \cup {Len(several) + 1}
      /\ Len(several) + 1 \notin 1 .. Len(several)
  BY <1>1
<1> QED
  BY <1>1, <1>2

\* A batch that is posted comes from the lines in its front.
LEMMA PostBatchKeeps ==
  ASSUME TransportTypes, BatchesFit, transportKind = "http",
         NEW entries \in Seq(Lt!Entries), IsInjective(entries),
         entered' \in Nat, 1 .. entered' = Range(entries) \cup Posting \cup posted,
         Range(entries) \cap posted = {}, Range(entries) \cap Posting = {},
         Lt!PostBatch(entries), UNCHANGED <<logFiles, jobs, posted, deleted>>
  PROVE  lines' \in Seq(Lt!Entries) /\ posts' \in Seq(Seq(Lt!Entries)) /\ BatchesFit'
<1> DEFINE n == Lt!Min({BatchSize, Len(entries)})
           front == SubSeq(entries, 1, n)
           back == SubSeq(entries, n + 1, Len(entries))
<1>1. posts' = Append(posts, front) /\ lines' = back
  BY DEF Lt!PostBatch
<1>2. n \in 0 .. Len(entries)
  <2>1. BatchSize \in Nat /\ Len(entries) \in Nat
    BY TransportConstants, LenProperties
  <2>2. {BatchSize, Len(entries)} \in SUBSET Nat /\ {BatchSize, Len(entries)} # {}
    BY <2>1
  <2>3. \E i \in {BatchSize, Len(entries)} : \A j \in {BatchSize, Len(entries)} : i <= j
    BY <2>2, Smallest
  <2>4. n \in {BatchSize, Len(entries)} /\ \A j \in {BatchSize, Len(entries)} : n <= j
    BY <2>3 DEF Lt!Min
  <2>5. n \in Nat /\ n <= Len(entries)
    BY <2>1, <2>4
  <2> HIDE DEF n
  <2> QED
    BY <2>1, <2>5
<1> HIDE DEF n
<1>3. /\ front \in Seq(Lt!Entries) /\ back \in Seq(Lt!Entries) /\ IsInjective(front) /\ IsInjective(back)
      /\ Range(front) \cap Range(back) = {} /\ Range(entries) = Range(front) \cup Range(back)
  BY <1>2, CutLine
<1> HIDE DEF front, back
<1>4. posts \in Seq(Seq(Lt!Entries))
  BY DEF TransportTypes
<1> DEFINE last == Len(posts) + 1
<1>5. /\ posts' \in Seq(Seq(Lt!Entries)) /\ DOMAIN posts' = (DOMAIN posts) \cup {last}
      /\ last \notin DOMAIN posts /\ posts'[last] = front
      /\ \A k \in DOMAIN posts : posts'[k] = posts[k]
  BY <1>1, <1>3, <1>4, UnionOfAppended
<1> HIDE DEF last
<1>6. Posting' = Posting \cup Range(front)
  <2>1. \A x : x \in Posting <=> \E k \in DOMAIN posts : x \in Range(posts[k])
    BY DEF Posting
  <2>2. \A x : x \in Posting' <=> \E k \in DOMAIN posts' : x \in Range(posts'[k])
    BY DEF Posting
  <2>3. \A x : x \in Posting' <=> x \in Posting \/ x \in Range(front)
    BY <1>5, <2>1, <2>2
  <2> QED
    BY <2>3
<1>7. ASSUME NEW k \in DOMAIN posts', NEW l \in DOMAIN posts',
             NEW a \in DOMAIN posts'[k], NEW b \in DOMAIN posts'[l], posts'[k][a] = posts'[l][b]
      PROVE  k = l /\ a = b
  <2>1. CASE k \in DOMAIN posts /\ l \in DOMAIN posts
    BY <1>5, <1>7, <2>1 DEF BatchesFit
  <2>2. CASE k = last /\ l = last
    BY <1>3, <1>5, <1>7, <2>2 DEF IsInjective
  <2>3. CASE k \in DOMAIN posts /\ l = last
    <3>1. posts[k][a] \in Posting /\ posts[k][a] \in Range(front)
      BY <1>5, <1>7, <2>3 DEF Posting, Range
    <3> QED
      BY <1>3, <3>1
  <2>4. CASE k = last /\ l \in DOMAIN posts
    <3>1. posts[l][b] \in Posting /\ posts[l][b] \in Range(front)
      BY <1>5, <1>7, <2>4 DEF Posting, Range
    <3> QED
      BY <1>3, <3>1
  <2> QED
    BY <1>5, <2>1, <2>2, <2>3, <2>4
<1>8. /\ Range(back) \cap posted = {} /\ Range(back) \cap Posting' = {} /\ Posting' \cap posted = {}
      /\ 1 .. entered' = Range(back) \cup Posting' \cup posted
  BY <1>3, <1>6 DEF BatchesFit
<1>9. BatchesFit'
  BY <1>1, <1>3, <1>7, <1>8 DEF BatchesFit
<1> QED
  BY <1>1, <1>3, <1>5, <1>9

LEMMA WriteBatchedKeeps ==
  ASSUME TransportInv, Lt!WriteBatched PROVE TransportInv'
<1> DEFINE e == entered + 1
           entries == Append(lines, e)
<1>1. /\ transportKind = "http" /\ entered < MaxLines /\ entered' = e
      /\ IF Len(entries) >= BatchSize THEN Lt!PostBatch(entries) ELSE lines' = entries /\ posts' = posts
      /\ UNCHANGED <<transportKind, maxFiles, open, flushing, logFiles, currentSize, jobs, exists, rotations,
                     born, deleted, early, posted, disturbed>>
  BY DEF Lt!WriteBatched, Lt!rotationVars
<1>2. TransportTypes /\ BatchesFit /\ lines \in Seq(Lt!Entries) /\ entered \in Nat /\ ~early
  BY <1>1, NewestFacts DEF TransportInv, TransportTypes
<1>3. /\ e \in Lt!Entries /\ e \in Nat /\ entered' \in 0 .. MaxLines /\ 1 .. e = (1 .. entered) \cup {e}
      /\ e \notin 1 .. entered
  BY <1>1, <1>2, TransportConstants
<1> HIDE DEF e
<1>4. e \notin Range(lines) /\ e \notin Posting /\ e \notin posted /\ IsInjective(lines)
  BY <1>2, <1>3 DEF BatchesFit
<1>5. /\ entries \in Seq(Lt!Entries) /\ IsInjective(entries) /\ Range(entries) = Range(lines) \cup {e}
  BY <1>2, <1>3, <1>4, AppendProperties, InjectiveAppend, RangeAppend
<1> HIDE DEF entries
<1>6. /\ Range(entries) \cap posted = {} /\ Range(entries) \cap Posting = {}
      /\ 1 .. entered' = Range(entries) \cup Posting \cup posted /\ entered' \in Nat
  BY <1>1, <1>2, <1>3, <1>4, <1>5 DEF BatchesFit
<1>7. lines' \in Seq(Lt!Entries) /\ posts' \in Seq(Seq(Lt!Entries)) /\ BatchesFit'
  <2>1. CASE Len(entries) >= BatchSize
    BY <1>1, <1>2, <1>5, <1>6, <2>1, PostBatchKeeps
  <2>2. CASE ~(Len(entries) >= BatchSize)
    <3>1. lines' = entries /\ posts' = posts
      BY <1>1, <2>2
    <3>2. Posting' = Posting
      BY <3>1 DEF Posting
    <3> QED
      BY <1>1, <1>2, <1>5, <1>6, <3>1, <3>2 DEF BatchesFit, TransportTypes
  <2> QED
    BY <2>1, <2>2
<1>8. TransportTypes'
  BY <1>1, <1>2, <1>3, <1>7 DEF TransportTypes
<1> QED
  BY <1>1, <1>2, <1>7, <1>8 DEF TransportInv

LEMMA FlushBatchKeeps ==
  ASSUME TransportInv, Lt!FlushBatch PROVE TransportInv'
<1>1. /\ transportKind = "http" /\ Lt!PostBatch(lines)
      /\ UNCHANGED <<transportKind, maxFiles, entered, open, flushing, logFiles, currentSize, jobs, exists,
                     rotations, born, deleted, early, posted, disturbed>>
  BY DEF Lt!FlushBatch, Lt!rotationVars
<1>2. TransportTypes /\ BatchesFit /\ lines \in Seq(Lt!Entries) /\ entered \in Nat /\ ~early
  BY <1>1, NewestFacts DEF TransportInv, TransportTypes
<1>3. /\ IsInjective(lines) /\ Range(lines) \cap posted = {} /\ Range(lines) \cap Posting = {}
      /\ 1 .. entered' = Range(lines) \cup Posting \cup posted /\ entered' \in Nat
  BY <1>1, <1>2 DEF BatchesFit
<1>4. lines' \in Seq(Lt!Entries) /\ posts' \in Seq(Seq(Lt!Entries)) /\ BatchesFit'
  BY <1>1, <1>2, <1>3, PostBatchKeeps
<1>5. TransportTypes'
  BY <1>1, <1>2, <1>4 DEF TransportTypes
<1> QED
  BY <1>1, <1>2, <1>4, <1>5 DEF TransportInv

\* What is left of several lines when one is taken out.
Without(several, i) == SubSeq(several, 1, i - 1) \o SubSeq(several, i + 1, Len(several))
Source(k, i) == IF k < i THEN k ELSE k + 1

LEMMA OneTakenOut ==
  ASSUME NEW S, NEW several \in Seq(S), NEW i \in 1 .. Len(several)
  PROVE  /\ Without(several, i) \in Seq(S)
         /\ \A k \in DOMAIN Without(several, i) :
              /\ Source(k, i) \in DOMAIN several /\ Source(k, i) # i
              /\ Without(several, i)[k] = several[Source(k, i)]
         /\ \A k \in DOMAIN several : k # i =>
              \E to \in DOMAIN Without(several, i) : Without(several, i)[to] = several[k]
<1> DEFINE n == Len(several)
           front == SubSeq(several, 1, i - 1)
           back == SubSeq(several, i + 1, n)
           rest == front \o back
<1>1. n \in Nat /\ DOMAIN several = 1 .. n /\ \A a \in 1 .. n : several[a] \in S
  BY LenProperties, ElementOfSeq
<1>2. i \in Int /\ 1 <= i /\ i <= n /\ i - 1 \in Int /\ i + 1 \in Int /\ i - 1 \in Nat
      /\ n - i \in Nat /\ n - (i + 1) + 1 = n - i /\ (i - 1) - 1 + 1 = i - 1
  BY <1>1
<1>3. /\ front \in Seq(S) /\ Len(front) = i - 1
      /\ \A a \in 1 .. (i - 1) : front[a] = several[a]
  <2>1. 1 \in Int /\ \A a \in 1 .. (i - 1) : several[a] \in S
    BY <1>1, <1>2
  <2>2. /\ front \in Seq(S)
        /\ Len(front) = IF 1 <= i - 1 THEN (i - 1) - 1 + 1 ELSE 0
        /\ \A a \in 1 .. (i - 1) - 1 + 1 : front[a] = several[1 + a - 1]
    BY <1>2, <2>1, SubSeqProperties
  <2>3. Len(front) = i - 1 /\ \A a \in 1 .. (i - 1) : a \in 1 .. (i - 1) - 1 + 1 /\ 1 + a - 1 = a
    BY <1>2, <2>2
  <2> QED
    BY <2>2, <2>3
<1>4. /\ back \in Seq(S) /\ Len(back) = n - i
      /\ \A a \in 1 .. (n - i) : back[a] = several[i + a]
  <2>1. n \in Int /\ \A a \in i + 1 .. n : several[a] \in S
    BY <1>1, <1>2
  <2>2. /\ back \in Seq(S)
        /\ Len(back) = IF i + 1 <= n THEN n - (i + 1) + 1 ELSE 0
        /\ \A a \in 1 .. n - (i + 1) + 1 : back[a] = several[(i + 1) + a - 1]
    BY <1>2, <2>1, SubSeqProperties
  <2> HIDE DEF back, n
  <2>3. Len(back) = n - i
    BY <1>1, <1>2, <2>2
  <2>4. \A a \in 1 .. (n - i) : a \in 1 .. n - (i + 1) + 1 /\ (i + 1) + a - 1 = i + a
    BY <1>1, <1>2
  <2> QED
    BY <2>2, <2>3, <2>4
<1>5. /\ rest \in Seq(S) /\ DOMAIN rest = 1 .. Len(rest)
      /\ Len(rest) = (i - 1) + (n - i)
      /\ \A a \in 1 .. (i - 1) + (n - i) :
           rest[a] = IF a <= i - 1 THEN front[a] ELSE back[a - (i - 1)]
  <2> HIDE DEF front, back
  <2>1. /\ front \o back \in Seq(S) /\ Len(front \o back) = Len(front) + Len(back)
        /\ \A a \in 1 .. Len(front) + Len(back) :
             (front \o back)[a] = IF a <= Len(front) THEN front[a] ELSE back[a - Len(front)]
    BY <1>3, <1>4, ConcatProperties
  <2> QED
    BY <1>3, <1>4, <2>1, LenProperties
<1> HIDE DEF n, front, back, rest
<1>6. Len(rest) = n - 1 /\ DOMAIN rest = 1 .. (n - 1)
  BY <1>1, <1>2, <1>5
<1>7. ASSUME NEW k \in 1 .. (n - 1)
      PROVE  rest[k] = IF k < i THEN several[k] ELSE several[k + 1]
  <2>1. k \in 1 .. (i - 1) + (n - i)
    BY <1>1, <1>2
  <2>2. CASE k < i
    <3>1. k <= i - 1 /\ k \in 1 .. (i - 1)
      BY <1>2, <2>2
    <3> QED
      BY <1>3, <1>5, <2>1, <2>2, <3>1
  <2>3. CASE ~(k < i)
    <3>1. ~(k <= i - 1) /\ k - (i - 1) \in 1 .. (n - i) /\ i + (k - (i - 1)) = k + 1
      BY <1>1, <1>2, <2>3
    <3>2. rest[k] = back[k - (i - 1)]
      BY <1>5, <2>1, <3>1
    <3> QED
      BY <1>4, <2>3, <3>1, <3>2
  <2> QED
    BY <2>2, <2>3
<1>8. ASSUME NEW k \in DOMAIN rest
      PROVE  /\ Source(k, i) \in DOMAIN several /\ Source(k, i) # i
             /\ rest[k] = several[Source(k, i)]
  <2>1. k \in 1 .. (n - 1)
    BY <1>6
  <2>2. k \in 1 .. n /\ k + 1 \in 1 .. n /\ (~(k < i) => k + 1 # i) /\ (k < i => k # i)
    BY <1>1, <1>2, <2>1
  <2> QED
    BY <1>1, <1>7, <2>1, <2>2 DEF Source
<1>9. ASSUME NEW k \in DOMAIN several, k # i
      PROVE  \E to \in DOMAIN rest : rest[to] = several[k]
  <2>1. CASE k < i
    <3>1. k \in 1 .. (n - 1)
      BY <1>1, <1>2, <2>1
    <3> QED
      BY <1>6, <1>7, <2>1, <3>1
  <2>2. CASE ~(k < i)
    <3>1. k - 1 \in 1 .. (n - 1) /\ ~(k - 1 < i) /\ (k - 1) + 1 = k
      BY <1>1, <1>2, <1>9, <2>2
    <3> QED
      BY <1>6, <1>7, <2>2, <3>1
  <2> QED
    BY <2>1, <2>2
<1>10. rest \in Seq(S)
  BY <1>5
<1> QED
  BY <1>8, <1>9, <1>10 DEF Without, rest, front, back, n

\* A post is answered, or its batch is put in front of the lines that came meanwhile.
LEMMA PostSettlesKeeps ==
  ASSUME TransportInv, NEW i \in 1 .. Len(posts), NEW answered \in BOOLEAN, Lt!PostSettles(i, answered)
  PROVE  TransportInv'
<1> DEFINE batch == posts[i]
<1>1. /\ posts' = SubSeq(posts, 1, i - 1) \o SubSeq(posts, i + 1, Len(posts))
      /\ posted' = (IF answered THEN posted \cup Range(batch) ELSE posted)
      /\ lines' = (IF answered THEN lines ELSE batch \o lines)
      /\ UNCHANGED <<transportKind, maxFiles, entered, open, flushing, logFiles, currentSize, jobs, exists,
                     rotations, born, deleted, early, disturbed>>
  BY TransportConstants DEF Lt!PostSettles, Lt!RemoveAt, Lt!rotationVars
<1>2. transportKind = "http"
  <2>1. posts # <<>>
    BY EmptySeq
  <2> QED
    BY <2>1 DEF TransportInv, LinesFit
<1>3. /\ TransportTypes /\ BatchesFit /\ lines \in Seq(Lt!Entries) /\ entered \in Nat /\ ~early
      /\ posts \in Seq(Seq(Lt!Entries))
  BY <1>2, NewestFacts DEF TransportInv, TransportTypes
<1>4. /\ posts' \in Seq(Seq(Lt!Entries))
      /\ \A k \in DOMAIN posts' :
           /\ Source(k, i) \in DOMAIN posts /\ Source(k, i) # i /\ posts'[k] = posts[Source(k, i)]
      /\ \A k \in DOMAIN posts : k # i => \E to \in DOMAIN posts' : posts'[to] = posts[k]
  <2>1. posts' = Without(posts, i)
    BY <1>1 DEF Without
  <2> QED
    BY <1>3, <2>1, OneTakenOut
<1>5. /\ i \in DOMAIN posts /\ batch \in Seq(Lt!Entries) /\ i \in Nat
      /\ DOMAIN posts' = 1 .. Len(posts')
  <2>1. Len(posts) \in Nat /\ DOMAIN posts = 1 .. Len(posts) /\ \A k \in 1 .. Len(posts) : posts[k] \in Seq(Lt!Entries)
    BY <1>3, LenProperties, ElementOfSeq
  <2> QED
    BY <1>4, <2>1, LenProperties
<1> HIDE DEF batch
<1>6. /\ IsInjective(batch) /\ Range(batch) \subseteq Posting
      /\ Range(batch) \cap Range(lines) = {} /\ Range(batch) \cap posted = {}
  <2>1. IsInjective(batch)
    BY <1>3, <1>5 DEF BatchesFit, IsInjective, batch
  <2>2. Range(batch) \subseteq Posting
    BY <1>5 DEF Posting, batch
  <2> QED
    BY <1>3, <2>1, <2>2 DEF BatchesFit
<1>7. Posting' = Posting \ Range(batch)
  <2>1. \A x : x \in Posting <=> \E k \in DOMAIN posts : x \in Range(posts[k])
    BY DEF Posting
  <2>2. \A x : x \in Posting' <=> \E k \in DOMAIN posts' : x \in Range(posts'[k])
    BY DEF Posting
  <2>3. ASSUME NEW k \in DOMAIN posts, k # i PROVE Range(posts[k]) \cap Range(batch) = {}
    BY <1>3, <1>5, <2>3 DEF BatchesFit, Range, batch
  <2>4. ASSUME NEW x \in Posting' PROVE x \in Posting /\ x \notin Range(batch)
    <3>1. PICK k \in DOMAIN posts' : x \in Range(posts'[k])
      BY <2>2
    <3>2. PICK from \in DOMAIN posts : from # i /\ posts'[k] = posts[from]
      BY <1>4, <3>1
    <3> QED
      BY <2>1, <2>3, <3>1, <3>2
  <2>5. ASSUME NEW x \in Posting, x \notin Range(batch) PROVE x \in Posting'
    <3>1. PICK k \in DOMAIN posts : x \in Range(posts[k])
      BY <2>1
    <3>2. k # i
      BY <2>5, <3>1 DEF batch
    <3>3. PICK to \in DOMAIN posts' : posts'[to] = posts[k]
      BY <1>4, <3>1, <3>2
    <3> QED
      BY <2>2, <3>1, <3>3
  <2> QED
    BY <2>4, <2>5
<1>8. ASSUME NEW k \in DOMAIN posts', NEW l \in DOMAIN posts',
             NEW a \in DOMAIN posts'[k], NEW b \in DOMAIN posts'[l], posts'[k][a] = posts'[l][b]
      PROVE  k = l /\ a = b
  <2>1. /\ Source(k, i) \in DOMAIN posts /\ posts'[k] = posts[Source(k, i)]
        /\ Source(l, i) \in DOMAIN posts /\ posts'[l] = posts[Source(l, i)]
    BY <1>4
  <2>2. k \in Nat /\ l \in Nat
    <3>1. k \in 1 .. Len(posts') /\ l \in 1 .. Len(posts') /\ Len(posts') \in Nat
      BY <1>4, <1>5, LenProperties
    <3> QED
      BY <3>1
  <2>3. Source(k, i) = Source(l, i) => k = l
    BY <1>5, <2>2 DEF Source
  <2>4. Source(k, i) = Source(l, i) /\ a = b
    BY <1>3, <1>8, <2>1 DEF BatchesFit
  <2> QED
    BY <2>3, <2>4
<1>9. /\ lines' \in Seq(Lt!Entries) /\ IsInjective(lines')
      /\ Range(lines') = IF answered THEN Range(lines) ELSE Range(batch) \cup Range(lines)
  <2>1. IsInjective(lines)
    BY <1>3 DEF BatchesFit
  <2>2. /\ batch \o lines \in Seq(Lt!Entries) /\ IsInjective(batch \o lines)
        /\ Range(batch \o lines) = Range(batch) \cup Range(lines)
    BY <1>3, <1>5, <1>6, <2>1, JoinLines
  <2> QED
    BY <1>1, <1>3, <2>1, <2>2
<1>10. /\ Range(lines') \cap posted' = {} /\ Range(lines') \cap Posting' = {} /\ Posting' \cap posted' = {}
       /\ 1 .. entered' = Range(lines') \cup Posting' \cup posted'
  <2>1. CASE answered
    BY <1>1, <1>3, <1>6, <1>7, <1>9, <2>1 DEF BatchesFit
  <2>2. CASE ~answered
    BY <1>1, <1>3, <1>6, <1>7, <1>9, <2>2 DEF BatchesFit
  <2> QED
    BY <2>1, <2>2
<1>11. BatchesFit'
  BY <1>1, <1>3, <1>8, <1>9, <1>10 DEF BatchesFit
<1>12. posted' \subseteq Lt!Entries
  BY <1>1, <1>3, <1>5, RangeOfSeq DEF TransportTypes
<1>13. TransportTypes'
  BY <1>1, <1>3, <1>4, <1>9, <1>12 DEF TransportTypes
<1> QED
  BY <1>1, <1>2, <1>3, <1>11, <1>13 DEF TransportInv

LEMMA TransportKeeps ==
  ASSUME TransportInv, [Lt!Next]_(Lt!transportVars) PROVE TransportInv'
<1>1. CASE UNCHANGED Lt!transportVars
  <2>1. UNCHANGED <<transportKind, maxFiles, entered, lines, open, flushing, logFiles, exists, currentSize,
                    jobs, posts, posted, rotations, born, deleted, early, disturbed>>
    BY <1>1 DEF Lt!transportVars
  <2>2. TransportTypes' /\ Newest' = Newest /\ Posting' = Posting /\ Archived' = Archived /\ (OldFits => OldFits')
    BY <2>1 DEF TransportInv, TransportTypes, Newest, Posting, Archived, OldFits
  <2>3. transportKind = "http" => BatchesFit'
    BY <2>1, <2>2 DEF TransportInv, BatchesFit
  <2>4. transportKind # "http" => LinesFit' /\ FilesFit'
    BY <2>1, <2>2 DEF TransportInv, LinesFit, FilesFit, Lt!LastSlot
  <2>5. transportKind = "rotating" /\ ~disturbed => InOrder'
    BY <2>1, <2>2 DEF TransportInv, InOrder
  <2> QED
    BY <2>1, <2>2, <2>3, <2>4, <2>5 DEF TransportInv
<1>2. CASE Lt!Next
  <2>1. CASE Lt!WriteLine
    BY <2>1, WriteLineKeeps
  <2>2. CASE Lt!rotate
    BY <2>2, RotateKeeps
  <2>3. CASE Lt!PushRotated
    BY <2>3, PushRotatedKeeps
  <2>4. CASE Lt!flush
    BY <2>4, FlushFileKeeps
  <2>5. CASE Lt!close
    BY <2>5, CloseTransportKeeps
  <2>6. CASE Lt!CloseFile
    BY <2>6, CloseFileKeeps
  <2>7. CASE Lt!WriteBatched
    BY <2>7, WriteBatchedKeeps
  <2>8. CASE Lt!FlushBatch
    BY <2>8, FlushBatchKeeps
  <2>9. ASSUME NEW i \in 1 .. Len(posts), NEW answered \in BOOLEAN, Lt!PostSettles(i, answered)
        PROVE  TransportInv'
    BY <2>9, PostSettlesKeeps
  <2> QED
    BY <1>2, <2>1, <2>2, <2>3, <2>4, <2>5, <2>6, <2>7, <2>8, <2>9 DEF Lt!Next
<1> QED
  BY <1>1, <1>2

\* Nobody stands in one line at two places, so that there is one place, or none.
LEMMA PlaceInLine ==
  ASSUME NEW line, IsInjective(line), NEW e
  PROVE  IF e \in Range(line) THEN \E j \in DOMAIN line : {k \in DOMAIN line : line[k] = e} = {j}
         ELSE {k \in DOMAIN line : line[k] = e} = {}
BY DEF IsInjective, Range

\* Where an entry is.
LEMMA CopiesAre ==
  ASSUME NEW e
  PROVE  LET In(line) == {j \in DOMAIN line : line[j] = e}
         IN  \A c : c \in Lt!Copies(e) <=>
               \/ \E j \in In(lines) : c = <<<<"buffer", 0>>, j>>
               \/ \E i \in Lt!Slots : \E j \in In(logFiles[i]) : c = <<<<"file", i>>, j>>
               \/ \E j \in DOMAIN jobs : jobs[j][2] = e /\ c = <<<<"job", 0>>, j>>
               \/ \E i \in DOMAIN posts : \E j \in In(posts[i]) : c = <<<<"post", i>>, j>>
               \/ e \in deleted /\ c = <<<<"deleted", 0>>, e>>
               \/ e \in posted /\ c = <<<<"posted", 0>>, e>>
BY DEF Lt!Copies

LEMMA OneCopy ==
  ASSUME TransportInv, NEW e \in 1 .. entered
  PROVE  \E c : Lt!Copies(e) = {c}
<1> DEFINE In(line) == {j \in DOMAIN line : line[j] = e}
           AnyCopy(c) ==
             \/ \E j \in In(lines) : c = <<<<"buffer", 0>>, j>>
             \/ \E i \in Lt!Slots : \E j \in In(logFiles[i]) : c = <<<<"file", i>>, j>>
             \/ \E j \in DOMAIN jobs : jobs[j][2] = e /\ c = <<<<"job", 0>>, j>>
             \/ \E i \in DOMAIN posts : \E j \in In(posts[i]) : c = <<<<"post", i>>, j>>
             \/ e \in deleted /\ c = <<<<"deleted", 0>>, e>>
             \/ e \in posted /\ c = <<<<"posted", 0>>, e>>
<1>1. \A c : c \in Lt!Copies(e) <=> AnyCopy(c)
  BY CopiesAre
<1>2. TransportTypes /\ e # 0
  BY NewestFacts DEF TransportInv
<1> SUFFICES \E c : \A d : AnyCopy(d) <=> d = c
  <2> HIDE DEF AnyCopy
  <2>1. PICK c : \A d : AnyCopy(d) <=> d = c
    OBVIOUS
  <2>2. Lt!Copies(e) = {c}
    BY <1>1, <2>1
  <2> QED
    BY <2>2
<1>3. \A line : In(line) = {} <=> e \notin Range(line)
  BY DEF Range
<1>4. \A line : IsInjective(line) /\ e \in Range(line) => \E j : In(line) = {j}
  BY PlaceInLine
<1> HIDE DEF In
<1>5. CASE transportKind = "http"
  <2>1. /\ jobs = <<>> /\ deleted = {} /\ \A i \in Lt!Slots : logFiles[i] = <<>>
        /\ IsInjective(lines) /\ Range(lines) \cap posted = {} /\ Range(lines) \cap Posting = {}
        /\ Posting \cap posted = {}
        /\ e \in Range(lines) \cup Posting \cup posted
        /\ \A k, l \in DOMAIN posts : \A a \in DOMAIN posts[k], b \in DOMAIN posts[l] :
             posts[k][a] = posts[l][b] => k = l /\ a = b
    BY <1>5 DEF TransportInv, BatchesFit
  <2>2. Range(<<>>) = {} /\ DOMAIN <<>> = {} /\ In(<<>>) = {}
    BY <1>3, EmptySeq DEF Range
  <2>3. e \in Posting <=> \E k \in DOMAIN posts : In(posts[k]) # {}
    BY <1>3 DEF Posting
  <2>4. \A d : AnyCopy(d) <=>
          \/ \E j \in In(lines) : d = <<<<"buffer", 0>>, j>>
          \/ \E i \in DOMAIN posts : \E j \in In(posts[i]) : d = <<<<"post", i>>, j>>
          \/ e \in posted /\ d = <<<<"posted", 0>>, e>>
    BY <2>1, <2>2
  <2> HIDE DEF AnyCopy
  <2>5. CASE e \in Range(lines)
    <3>1. PICK j : In(lines) = {j}
      BY <1>4, <2>1, <2>5
    <3>2. e \notin Posting /\ e \notin posted
      BY <2>1, <2>5
    <3>3. \A d : AnyCopy(d) <=> d = <<<<"buffer", 0>>, j>>
      BY <2>3, <2>4, <3>1, <3>2
    <3> QED
      BY <3>3
  <2>6. CASE e \in Posting
    <3>1. PICK k \in DOMAIN posts : In(posts[k]) # {}
      BY <2>3, <2>6
    <3>2. PICK a : a \in In(posts[k])
      BY <3>1
    <3>3. \A l \in DOMAIN posts : \A b \in In(posts[l]) : l = k /\ b = a
      BY <2>1, <3>2 DEF In
    <3>4. e \notin posted /\ In(lines) = {}
      BY <1>3, <2>1, <2>6
    <3>5. \A d : AnyCopy(d) <=> d = <<<<"post", k>>, a>>
      BY <2>4, <3>2, <3>3, <3>4
    <3> QED
      BY <3>5
  <2>7. CASE e \in posted
    <3>1. In(lines) = {} /\ \A k \in DOMAIN posts : In(posts[k]) = {}
      BY <1>3, <2>1, <2>3, <2>7
    <3>2. \A d : AnyCopy(d) <=> d = <<<<"posted", 0>>, e>>
      BY <2>4, <2>7, <3>1
    <3> QED
      BY <3>2
  <2> QED
    BY <2>1, <2>5, <2>6, <2>7
<1>6. CASE transportKind # "http"
  <2>1. LinesFit /\ posts = <<>> /\ posted = {}
        /\ Delayed(jobs) \cap Range(Newest) = {} /\ Delayed(jobs) \cap Archived = {}
        /\ Range(Newest) \cap Archived = {}
        /\ e \in Range(Newest) \cup Archived \cup Delayed(jobs) /\ JobsFit(jobs)
    BY <1>6 DEF TransportInv, LinesFit
  <2>2. /\ \A i \in Lt!Slots : /\ IsInjective(logFiles[i]) /\ Range(logFiles[i]) \cap deleted = {}
                               /\ Range(logFiles[i]) \cap Range(lines) = {}
        /\ \A i, j \in Lt!Slots : i # j => Range(logFiles[i]) \cap Range(logFiles[j]) = {}
        /\ IsInjective(lines)
        /\ \A i \in Lt!Slots : i # 0 => Range(logFiles[i]) \subseteq Archived
        /\ deleted \subseteq Archived
    BY <1>2, <2>1, FilesApart
  <2>3. Range(Newest) = Range(logFiles[0]) \cup Range(lines) /\ 0 \in Lt!Slots
    BY <1>2, NewestFacts, TransportConstants
  <2>4. \A d : AnyCopy(d) <=>
          \/ \E j \in In(lines) : d = <<<<"buffer", 0>>, j>>
          \/ \E i \in Lt!Slots : \E j \in In(logFiles[i]) : d = <<<<"file", i>>, j>>
          \/ \E j \in DOMAIN jobs : jobs[j][2] = e /\ d = <<<<"job", 0>>, j>>
          \/ e \in deleted /\ d = <<<<"deleted", 0>>, e>>
    <3>1. DOMAIN <<>> = {}
      BY EmptySeq
    <3> QED
      BY <2>1, <3>1
  <2>5. e \in Delayed(jobs) <=> \E j \in DOMAIN jobs : jobs[j][2] = e
    <3>1. \A j \in DOMAIN jobs : jobs[j][1] = "close" => jobs[j][2] = 0
      BY <2>1 DEF JobsFit
    <3> QED
      BY <1>2, <3>1 DEF Delayed, Work
  <2>6. e \in Archived <=> (e \in deleted \/ \E i \in Lt!Slots : i # 0 /\ e \in Range(logFiles[i]))
    BY DEF Archived
  <2>7. e \in deleted \/ (\E i \in Lt!Slots : e \in Range(logFiles[i])) \/ e \in Range(lines)
        \/ e \in Delayed(jobs)
    BY <2>1, <2>3, <2>6
  <2> HIDE DEF AnyCopy
  <2>8. CASE e \in Range(lines)
    <3>1. PICK j : In(lines) = {j}
      BY <1>4, <2>2, <2>8
    <3>2. /\ e \notin deleted /\ e \notin Delayed(jobs)
          /\ \A i \in Lt!Slots : In(logFiles[i]) = {}
      BY <1>3, <2>1, <2>2, <2>3, <2>8
    <3>3. \A d : AnyCopy(d) <=> d = <<<<"buffer", 0>>, j>>
      BY <2>4, <2>5, <3>1, <3>2
    <3> QED
      BY <3>3
  <2>9. CASE \E i \in Lt!Slots : e \in Range(logFiles[i])
    <3>1. PICK i \in Lt!Slots : e \in Range(logFiles[i])
      BY <2>9
    <3>2. PICK j : In(logFiles[i]) = {j}
      BY <1>4, <2>2, <3>1
    <3>3. /\ e \notin deleted /\ e \notin Delayed(jobs) /\ In(lines) = {}
          /\ \A k \in Lt!Slots : k # i => In(logFiles[k]) = {}
      BY <1>3, <2>1, <2>2, <2>3, <3>1
    <3>4. \A d : AnyCopy(d) <=> d = <<<<"file", i>>, j>>
      BY <2>4, <2>5, <3>1, <3>2, <3>3
    <3> QED
      BY <3>4
  <2>10. CASE e \in deleted
    <3>1. /\ e \notin Delayed(jobs) /\ In(lines) = {} /\ \A k \in Lt!Slots : In(logFiles[k]) = {}
      BY <1>3, <2>1, <2>2, <2>3, <2>10
    <3>2. \A d : AnyCopy(d) <=> d = <<<<"deleted", 0>>, e>>
      BY <2>4, <2>5, <2>10, <3>1
    <3> QED
      BY <3>2
  <2>11. CASE e \in Delayed(jobs)
    <3>1. /\ e \notin deleted /\ In(lines) = {} /\ \A k \in Lt!Slots : In(logFiles[k]) = {}
      BY <1>3, <2>1, <2>2, <2>3, <2>11
    <3>2. PICK j \in DOMAIN jobs : jobs[j][2] = e
      BY <2>5, <2>11
    <3>3. \A k \in DOMAIN jobs : jobs[k][2] = e => k = j
      <4>1. \A k \in DOMAIN jobs : jobs[k][2] = e => jobs[k][1] # "close"
        BY <1>2, <2>1 DEF JobsFit
      <4> QED
        BY <2>1, <3>2, <4>1 DEF JobsFit
    <3>4. \A d : AnyCopy(d) <=> d = <<<<"job", 0>>, j>>
      BY <2>4, <3>1, <3>2, <3>3
    <3> QED
      BY <3>4
  <2> QED
    BY <2>7, <2>8, <2>9, <2>10, <2>11
<1> QED
  BY <1>5, <1>6

LEMMA TransportHolds ==
  ASSUME TransportInv PROVE Lt!TypeOK /\ Lt!EntriesKept /\ Lt!RotationInOrder
<1>1. TransportTypes /\ ~early
  BY DEF TransportInv
<1>2. Lt!TypeOK
  BY <1>1 DEF TransportTypes, Lt!TypeOK
<1>3. Lt!EntriesKept
  <2>1. ASSUME NEW e \in 1 .. entered PROVE Lt!Cardinality(Lt!Copies(e)) = 1
    <3>1. PICK c : Lt!Copies(e) = {c}
      BY OneCopy
    <3>2. \A x : Cardinality({x}) = 1
      BY FS_Singleton
    <3> QED
      BY <3>1, <3>2, TransportConstants
  <2>2. transportKind = "file" => logFiles[0] \o lines = [i \in 1 .. entered |-> i]
    BY DEF TransportInv, FilesFit, Newest
  <2> QED
    BY <2>1, <2>2 DEF Lt!EntriesKept
<1>4. ASSUME transportKind = "rotating", ~disturbed
      PROVE  /\ \A i \in exists, j \in exists : i < j =>
                  \A x \in Range(logFiles[i]), y \in Range(logFiles[j]) : y < x
             /\ \A x \in deleted, i \in exists : \A y \in Range(logFiles[i]) : x < y
             /\ \A x \in deleted, y \in Range(Newest) : x < y
             /\ \A i \in exists : Lt!SizeOf(logFiles[i]) > MaxSize => Len(logFiles[i]) = 1 \/ logFiles[i] = <<>>
  <2>1. InOrder /\ LinesFit /\ exists \subseteq Lt!Slots /\ Lt!Slots \subseteq Nat
    BY <1>1, <1>4, TransportConstants DEF TransportInv, TransportTypes
  <2>2. /\ deleted \subseteq Archived /\ Range(Newest) = Range(logFiles[0]) \cup Range(lines)
        /\ \A i \in Lt!Slots : i # 0 => Range(logFiles[i]) \subseteq Archived
    BY <1>1, <2>1, NewestFacts, FilesApart
  <2>3. /\ \A x \in Archived, y \in Range(Newest) : x < y
        /\ \A i, j \in Lt!Slots \ {0} : i < j =>
             \A x \in Range(logFiles[i]), y \in Range(logFiles[j]) : y < x
        /\ \A x \in deleted, i \in Lt!Slots \ {0} : \A y \in Range(logFiles[i]) : x < y
    BY <2>1 DEF InOrder
  <2>4. ASSUME NEW i \in exists, NEW j \in exists, i < j,
               NEW x \in Range(logFiles[i]), NEW y \in Range(logFiles[j])
        PROVE  y < x
    <3>1. j # 0
      BY <2>1, <2>4
    <3>2. CASE i = 0
      BY <2>1, <2>2, <2>3, <2>4, <3>1, <3>2
    <3>3. CASE i # 0
      BY <2>1, <2>3, <2>4, <3>1, <3>3
    <3> QED
      BY <3>2, <3>3
  <2>5. ASSUME NEW x \in deleted, NEW i \in exists, NEW y \in Range(logFiles[i]) PROVE x < y
    <3>1. CASE i = 0
      BY <2>1, <2>2, <2>3, <2>5, <3>1
    <3>2. CASE i # 0
      BY <2>1, <2>3, <2>5, <3>2
    <3> QED
      BY <3>1, <3>2
  <2>6. ASSUME NEW i \in exists, Lt!SizeOf(logFiles[i]) > MaxSize
        PROVE  Len(logFiles[i]) = 1 \/ logFiles[i] = <<>>
    <3>1. CASE i # 0
      BY <2>1, <2>6, <3>1 DEF InOrder
    <3>2. CASE i = 0
      <4>1. logFiles[0] \in Seq(Lt!Entries) /\ lines \in Seq(Lt!Entries)
        BY <1>1, NewestFacts DEF TransportTypes
      <4>2. \A f, l \in Seq(Lt!Entries) :
              /\ Lt!SizeOf(f) \in Nat /\ Lt!SizeOf(f \o l) \in Nat /\ Lt!SizeOf(f) <= Lt!SizeOf(f \o l)
              /\ Len(f \o l) = Len(f) + Len(l) /\ Len(f) \in Nat /\ Len(l) \in Nat
        BY SizeFacts, ConcatProperties, LenProperties
      <4>3. /\ Lt!SizeOf(logFiles[0]) \in Nat /\ Lt!SizeOf(Newest) \in Nat
            /\ Lt!SizeOf(logFiles[0]) <= Lt!SizeOf(Newest)
            /\ Len(Newest) = Len(logFiles[0]) + Len(lines)
            /\ Len(logFiles[0]) \in Nat /\ Len(lines) \in Nat
        BY <4>1, <4>2 DEF Newest
      <4>4. Lt!SizeOf(Newest) > MaxSize
        BY <2>6, <3>2, <4>3, TransportConstants
      <4>5. Len(Newest) = 1
        BY <2>1, <4>4 DEF InOrder
      <4>6. Len(logFiles[0]) = 1 \/ Len(logFiles[0]) = 0
        <5>1. \A a, b \in Nat : a + b = 1 => a = 1 \/ a = 0
          OBVIOUS
        <5>2. Len(logFiles[0]) + Len(lines) = 1
          BY <4>3, <4>5
        <5> QED
          BY <4>3, <5>1, <5>2
      <4> QED
        BY <3>2, <4>1, <4>6, EmptySeq
    <3> QED
      BY <3>1, <3>2
  <2>7. \A x \in deleted, y \in Range(Newest) : x < y
    BY <2>2, <2>3
  <2> QED
    BY <2>4, <2>5, <2>6, <2>7
<1>5. Lt!RotationInOrder
  <2>1. \A s : Lt!ToSet(s) = Range(s)
    BY TransportConstants
  <2> QED
    BY <1>1, <1>4, <2>1 DEF Lt!RotationInOrder, Newest
<1> QED
  BY <1>2, <1>3, <1>5

-----------------------------------------------------------------------------
(* The composition: a step is one of the class under test or changes       *)
(* nothing of it.                                                          *)

LEMMA MessageQueueSteps == [Next]_vars => [Mq!Next]_(Mq!vars)
BY DEF Next, MessageQueueStep, LogWriterStep, GracefulShutdownStep, ServiceContainerStep,
       LoggerStep, TransportStep,
       vars, messageVars, Mq!vars

LEMMA LogWriterSteps == [Next]_vars => [Lw!Next]_(Lw!vars)
BY DEF Next, MessageQueueStep, LogWriterStep, GracefulShutdownStep, ServiceContainerStep,
       LoggerStep, TransportStep,
       vars, logVars, Lw!vars

LEMMA GracefulShutdownSteps == [Next]_vars => [Gs!Next]_(Gs!vars)
BY DEF Next, MessageQueueStep, LogWriterStep, GracefulShutdownStep, ServiceContainerStep,
       LoggerStep, TransportStep,
       vars, shutdownVars, Gs!vars

LEMMA ServiceContainerSteps == [Next]_vars => [Sc!Next]_(Sc!vars)
BY DEF Next, MessageQueueStep, LogWriterStep, GracefulShutdownStep, ServiceContainerStep,
       LoggerStep, TransportStep,
       vars, containerVars, Sc!vars

LEMMA LoggerSteps == [Next]_vars => [Lg!Next]_(Lg!loggerVars)
BY DEF Next, MessageQueueStep, LogWriterStep, GracefulShutdownStep, ServiceContainerStep,
       LoggerStep, TransportStep,
       vars, loggerVars, Lg!loggerVars

LEMMA TransportSteps == [Next]_vars => [Lt!Next]_(Lt!transportVars)
BY DEF Next, MessageQueueStep, LogWriterStep, GracefulShutdownStep, ServiceContainerStep,
       LoggerStep, TransportStep,
       vars, transportVars, Lt!transportVars

InfrastructureInv ==
  /\ QueueInv /\ WriterInv /\ WriterFlags /\ ShutdownInv /\ ShutdownFlags /\ ContainerInv
  /\ LoggerInv /\ TransportInv

\* The inductive invariants hold of all the classes, whichever is under test.
THEOREM Invariance == Spec => []InfrastructureInv
<1>1. Init => InfrastructureInv
  BY QueueInit, WriterInit, ShutdownInit, ContainerInit, LoggerInit, TransportInit
     DEF Init, InfrastructureInv
<1>2. InfrastructureInv /\ [Next]_vars => InfrastructureInv'
  BY QueueNext, WriterNext, ShutdownNext, ShutdownFlagSteps, ContainerNext, LoggerKeeps,
     TransportKeeps, MessageQueueSteps, LogWriterSteps, GracefulShutdownSteps,
     ServiceContainerSteps, LoggerSteps, TransportSteps
     DEF InfrastructureInv
<1> QED
  BY <1>1, <1>2, PTL DEF Spec

\* Every class keeps its types and bounds: a message is granted no more retries than
\* there are, a pass stays within the list of consumers, a writer that is closed has
\* nothing left that it could still write, and a loop over transports ends.
THEOREM TypesHold == Spec => []TypeOK
<1>1. InfrastructureInv => TypeOK
  BY QueueHolds, WriterHolds, ShutdownHolds, ContainerHolds, LoggerHolds, TransportHolds
     DEF InfrastructureInv, TypeOK
<1> QED
  BY <1>1, Invariance, PTL

\* A message rests only when everybody it was meant for has been given it and the retries
\* of those that failed are used up; the log writers keep what they accepted, in
\* order, across failed writes, full buffers and close().
THEOREM NothingIsLost == Spec => []NothingLost
<1>1. InfrastructureInv => NothingLost
  BY QueueHolds, WriterHolds DEF InfrastructureInv, NothingLost
<1> QED
  BY <1>1, Invariance, PTL

\* A logger whose transports change in the middle of its calls hands an entry to nobody
\* twice, and to everybody when nothing comes between; what a transport accepts is in one
\* place, whatever fails and whoever writes during a rotation, and files are rotated in order.
THEOREM LogsAreKept == Spec => []LogsKept
<1>1. InfrastructureInv => LogsKept
  BY LoggerHolds, TransportHolds DEF InfrastructureInv, LogsKept
<1> QED
  BY <1>1, Invariance, PTL

\* shutdown() reports completion only when every service of its plan was stopped, in
\* reverse order of registration; a key that get() refuses as circular belongs to a
\* factory that is running, and until clear() is called each runs once.
THEOREM ReportsHold == Spec => []ReportsAreTrue
<1>1. InfrastructureInv => ReportsAreTrue
  BY ShutdownHolds, ContainerHolds DEF InfrastructureInv, ReportsAreTrue
<1> QED
  BY <1>1, Invariance, PTL

\* An instance that is there is replaced by registerInstance() only, or by a factory that
\* was called before the instance was made.
THEOREM ReplacementsHold == Spec => ReplacedByTheOldOnly
<1> DEFINE Replaced ==
             \A k \in Keys :
               singletons[k] # 0 /\ singletons'[k] \notin {0, singletons[k]} =>
                  \/ Sc!RegisterInstance(k)
                  \/ \E c \in Sc!Running(k) : /\ Sc!FactoryReturns(c)
                                              /\ Sc!Last(stack[c]).began < singletons[k]
<1>1. InfrastructureInv /\ [Next]_vars => [Replaced]_(Sc!vars)
  BY ReplacedSteps, ServiceContainerSteps DEF InfrastructureInv
<1>2. Spec => [][Replaced]_(Sc!vars)
  BY <1>1, Invariance, PTL DEF Spec
<1> QED
  BY <1>2 DEF ReplacedByTheOldOnly, Sc!ReplacedByTheOldOnly
=============================================================================
