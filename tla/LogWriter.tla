----------------------------- MODULE LogWriter -----------------------------
(***************************************************************************)
(* The two buffering writers of packages/log.  BufferedAsyncWriter hands   *)
(* its buffer to a writer function when it is full, when an interval       *)
(* elapses or when it is asked to; BatchedHttpWriter posts it, and has no  *)
(* interval.  One flush at a time is in flight: those asked for meanwhile  *)
(* return at once, close() included.  A failed flush puts its entries back *)
(* in front of the buffer.  BatchedHttpWriter serializes the entries       *)
(* before its first await: when that throws, its finally block clears      *)
(* flushPromise before the assignment sets it, and no flush happens again. *)
(*                                                                         *)
(* Entries are numbered as they are accepted.  "accepted", "written" and   *)
(* "late" are history variables.                                           *)
(***************************************************************************)
EXTENDS Naturals, Sequences, Functions

CONSTANTS BufferSize,   \* options.bufferSize, options.batchSize
          MaxEntries,   \* bound: entries accepted
          Unserializable  \* the entries that JSON cannot represent

SizesOK ==
  BufferSize \in Nat \ {0} /\ MaxEntries \in Nat /\ Unserializable \subseteq 1..MaxEntries

VARIABLES kind,      \* "interval" or "http"
          buffer,    \* buffer
          inflight,  \* toWrite of the flush that flushPromise stands for, <<>> if none
          stuck,     \* flushPromise stands for a flush that has ended
          closed,    \* closed
          closing,   \* a close() waits for the flush that it began
          ticking,   \* the interval is set
          accepted, written,
          late       \* some close() came while a flush was in flight

vars == <<kind, buffer, inflight, stuck, closed, closing, ticking, accepted, written, late>>

Init ==
  /\ kind \in {"interval", "http"}
  /\ buffer = <<>> /\ inflight = <<>>
  /\ stuck = FALSE /\ closed = FALSE /\ closing = FALSE
  /\ ticking = (kind = "interval")
  /\ accepted = 0 /\ written = <<>>
  /\ late = FALSE

-----------------------------------------------------------------------------
CanFlush(entries) == entries # <<>> /\ inflight = <<>> /\ ~stuck
Throws(entries) == kind = "http" /\ Range(entries) \intersect Unserializable # {}
Starts(entries) == CanFlush(entries) /\ ~Throws(entries)

\* flush(), on the buffer so far.
StartFlush(entries) ==
  /\ stuck' = (stuck \/ (CanFlush(entries) /\ Throws(entries)))
  /\ IF Starts(entries) THEN inflight' = entries /\ buffer' = <<>>
                        ELSE buffer' = entries /\ UNCHANGED inflight

\* Faulty variants.
CloseClearsFirst ==
  /\ closed' = TRUE
  /\ late' = (late \/ inflight # <<>>)
  /\ closing' = (closing \/ Starts(buffer))
  /\ ticking' = FALSE
  /\ StartFlush(buffer)
  /\ UNCHANGED <<kind, accepted, written>>

-----------------------------------------------------------------------------
Write ==
  LET entries == Append(buffer, accepted + 1)
  IN  /\ ~closed
      /\ accepted < MaxEntries
      /\ accepted' = accepted + 1
      /\ IF Len(entries) >= BufferSize THEN StartFlush(entries)
                                       ELSE buffer' = entries /\ UNCHANGED <<inflight, stuck>>
      /\ UNCHANGED <<kind, closed, closing, ticking, written, late>>

\* flush() by the interval, and by anybody else.
Tick ==
  /\ ticking /\ CanFlush(buffer)
  /\ StartFlush(buffer)
  /\ UNCHANGED <<kind, closed, closing, ticking, accepted, written, late>>

Flush ==
  /\ CanFlush(buffer)
  /\ StartFlush(buffer)
  /\ UNCHANGED <<kind, closed, closing, ticking, accepted, written, late>>

\* The writer takes the entries; a close() that waited for it clears the interval.
WriteSucceeds ==
  /\ inflight # <<>>
  /\ written' = written \o inflight
  /\ inflight' = <<>>
  /\ closing' = FALSE
  /\ ticking' = (ticking /\ ~closing)
  /\ UNCHANGED <<kind, buffer, stuck, closed, accepted, late>>

\* The error leaves a close() that waited before it clears the interval; the
\* HTTP writer, which has none, swallows it.
WriteFails ==
  /\ inflight # <<>>
  /\ buffer' = inflight \o buffer
  /\ inflight' = <<>>
  /\ closing' = FALSE
  /\ UNCHANGED <<kind, stuck, closed, ticking, accepted, written, late>>

\* Its flush() returns at once when another one is in flight.
Close ==
  /\ closed' = TRUE
  /\ late' = (late \/ inflight # <<>>)
  /\ closing' = (closing \/ Starts(buffer))
  /\ ticking' = (ticking /\ Starts(buffer))
  /\ StartFlush(buffer)
  /\ UNCHANGED <<kind, accepted, written>>

Next == Write \/ Tick \/ Flush \/ WriteSucceeds \/ WriteFails \/ Close

\* The interval elapses, and a writer that is tried again and again succeeds.
Fairness == WF_vars(Tick) /\ SF_vars(WriteSucceeds)

Spec == Init /\ [][Next]_vars /\ Fairness

-----------------------------------------------------------------------------
TypeOK ==
  /\ kind \in {"interval", "http"}
  /\ buffer \in Seq(1..MaxEntries) /\ inflight \in Seq(1..MaxEntries)
  /\ stuck \in BOOLEAN /\ closed \in BOOLEAN /\ closing \in BOOLEAN
  /\ ticking \in BOOLEAN /\ late \in BOOLEAN
  /\ accepted \in 0..MaxEntries
  /\ written \in Seq(1..MaxEntries)

\* What was written, is being written and waits is what was accepted: failed
\* flushes, and whatever was added during them, lose, repeat and swap nothing.
InOrder == written \o inflight \o buffer = [i \in 1..accepted |-> i]

\* The interval is given up with entries unwritten only by a close() that came
\* while a flush was in flight.
ClosedEmpty == kind = "interval" /\ ~ticking /\ ~late => buffer = <<>> /\ inflight = <<>>

\* Both: the log keeps what it accepted, also across a close().
LogKept == InOrder /\ ClosedEmpty

\* Every entry that BufferedAsyncWriter accepts is written in the end, also one
\* whose write fails while the writer closes, unless a close() came too early.
EntriesWritten ==
  \A n \in 1..MaxEntries :
     (kind = "interval" /\ accepted >= n) ~> (Len(written) >= n \/ late)
=============================================================================
