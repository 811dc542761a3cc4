--------------------------- MODULE ReadWriteLock ---------------------------
(***************************************************************************)
(* The ReadWriteLock class of packages/concurrency.  Each method of the    *)
(* two handles runs to its end without an await, so it is one step.        *)
(* "reading" and "writing" are history variables: the activities whose     *)
(* acquire() promise was resolved and that have not released.              *)
(***************************************************************************)
EXTENDS Naturals, Sequences, FiniteSets, Functions

CONSTANT Lockers    \* the activities that lock, each for reading or writing

VARIABLES readers,     \* _readers
          writer,      \* _writer
          readQueue,   \* _readQueue
          writeQueue,  \* _writeQueue
          reading,
          writing

lockVars == <<readers, writer, readQueue, writeQueue, reading, writing>>

Outside(c) == c \notin reading \cup writing \cup Range(readQueue) \cup Range(writeQueue)

LockInit ==
  /\ readers = 0
  /\ writer = FALSE
  /\ readQueue = <<>>
  /\ writeQueue = <<>>
  /\ reading = {}
  /\ writing = {}

-----------------------------------------------------------------------------
\* Faulty variants.
EnterIgnoringWaitingWriters(c) ==
  /\ ~writer
  /\ readers' = readers + 1
  /\ reading' = reading \cup {c}
  /\ UNCHANGED <<writer, readQueue, writeQueue, writing>>

ReaderNotCounted(c) ==
  /\ ~writer
  /\ writeQueue = <<>>
  /\ reading' = reading \cup {c}
  /\ UNCHANGED <<readers, writer, readQueue, writeQueue, writing>>

WriterEntersAmongReaders(c) ==
  /\ ~writer
  /\ writer' = TRUE
  /\ writing' = writing \cup {c}
  /\ UNCHANGED <<readers, readQueue, writeQueue, reading>>

WriterNeverWoken(left) == UNCHANGED <<writer, writeQueue, writing>>

FlagForgotten ==
  /\ writer' = TRUE
  /\ writing' = {}
  /\ readers' = readers + Len(readQueue)
  /\ reading' = reading \cup Range(readQueue)
  /\ readQueue' = <<>>
  /\ UNCHANGED writeQueue

-----------------------------------------------------------------------------
\* readLock.acquire(): a reader enters unless a writer is inside or waits.
ReaderEnters(c) ==
  /\ ~writer
  /\ writeQueue = <<>>
  /\ readers' = readers + 1
  /\ reading' = reading \cup {c}
  /\ UNCHANGED <<writer, readQueue, writeQueue, writing>>

ReaderWaits(c) ==
  /\ writer \/ writeQueue # <<>>
  /\ readQueue' = Append(readQueue, c)
  /\ UNCHANGED <<readers, writer, writeQueue, reading, writing>>

AcquireRead(c) == Outside(c) /\ (ReaderEnters(c) \/ ReaderWaits(c))

\* The reader that leaves nobody behind lets the oldest writer in.
WakeWriter(left) ==
  IF left = 0 /\ writeQueue # <<>>
    THEN /\ writeQueue' = Tail(writeQueue)
         /\ writer' = TRUE
         /\ writing' = {Head(writeQueue)}
    ELSE UNCHANGED <<writer, writeQueue, writing>>

\* readLock.release()
ReleaseRead(c) ==
  /\ c \in reading
  /\ readers' = readers - 1
  /\ reading' = reading \ {c}
  /\ WakeWriter(readers - 1)
  /\ UNCHANGED readQueue

\* writeLock.acquire(): a writer enters when nobody is inside.
WriterEnters(c) ==
  /\ ~writer
  /\ readers = 0
  /\ writer' = TRUE
  /\ writing' = writing \cup {c}
  /\ UNCHANGED <<readers, readQueue, writeQueue, reading>>

WriterWaits(c) ==
  /\ writer \/ readers # 0
  /\ writeQueue' = Append(writeQueue, c)
  /\ UNCHANGED <<readers, writer, readQueue, reading, writing>>

AcquireWrite(c) == Outside(c) /\ (WriterEnters(c) \/ WriterWaits(c))

\* writeLock.release(): the next writer goes first ...
NextWriter ==
  /\ writer' = TRUE
  /\ writing' = {Head(writeQueue)}
  /\ writeQueue' = Tail(writeQueue)
  /\ UNCHANGED <<readers, readQueue, reading>>

\* ... and otherwise every waiting reader enters.
AllReaders ==
  /\ writer' = FALSE
  /\ writing' = {}
  /\ readers' = readers + Len(readQueue)
  /\ reading' = reading \cup Range(readQueue)
  /\ readQueue' = <<>>
  /\ UNCHANGED writeQueue

ReleaseWrite(c) ==
  /\ c \in writing
  /\ \/ writeQueue # <<>> /\ NextWriter
     \/ writeQueue = <<>> /\ AllReaders

LockNext == \E c \in Lockers :
  AcquireRead(c) \/ ReleaseRead(c) \/ AcquireWrite(c) \/ ReleaseWrite(c)

\* Whoever is inside releases in the end (callers release in a finally block).
LockFairness == \A c \in Lockers : WF_lockVars(ReleaseRead(c) \/ ReleaseWrite(c))

SafeLockSpec == LockInit /\ [][LockNext]_lockVars
LockSpec == SafeLockSpec /\ LockFairness

-----------------------------------------------------------------------------
LockTypeOK ==
  /\ readers \in Nat
  /\ writer \in BOOLEAN
  /\ readQueue \in Seq(Lockers)
  /\ writeQueue \in Seq(Lockers)
  /\ reading \in SUBSET Lockers
  /\ writing \in SUBSET Lockers

\* A writer is alone: never two writers, never a writer among readers, however
\* the locks are handed from one to the next.
Exclusion ==
  /\ \A c, d \in writing : c = d
  /\ writing # {} => reading = {}

\* Nobody waits for a release that will not come: a waiting writer waits for
\* somebody inside, a waiting reader for a writer inside or ahead of it.
NobodyStranded ==
  /\ writeQueue # <<>> => writing \cup reading # {}
  /\ readQueue # <<>> => writing # {} \/ writeQueue # <<>>

\* While a writer waits no further reader gets in, so that a stream of readers
\* cannot keep it out.
NoReaderOvertakesWriter == [][writeQueue # <<>> => reading' \subseteq reading]_lockVars

\* Every writer that waits is let in.
WriterAdmitted == \A c \in Lockers : (c \in Range(writeQueue)) ~> (c \in writing)

\* A waiting reader is let in once the writers stop queueing (writers that keep
\* coming do starve the readers).
ReaderAdmittedAfterWriters ==
  <>[](writeQueue = <<>>) =>
    \A c \in Lockers : (c \in Range(readQueue)) ~> (c \in reading)
=============================================================================
