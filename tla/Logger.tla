-------------------------------- MODULE Logger --------------------------------
(***************************************************************************)
(* Logger and StructuredLogger of packages/log.  A logger and its child    *)
(* have one array of transports between them; the writers that Logger      *)
(* puts in front of transports are each logger's own.  log() is async and  *)
(* nobody waits for it: it goes through the array as it is at each step,   *)
(* waits after each writer, and then hands the entry to the aggregator.    *)
(*                                                                         *)
(* A writer either takes an entry or, once it is closed, drops it          *)
(* (LogWriter), and may reject; a transport takes what it is given         *)
(* (LogTransports).  An entry that the sampler drops leaves no trace; the  *)
(* others are numbered as they are logged.                                 *)
(* "given", "astray" and "queried", and what a call knows and has given,   *)
(* are history variables.                                                  *)
(***************************************************************************)
EXTENDS Naturals, Sequences, SequencesExt, FiniteSetsExt, Functions

CONSTANTS Transports,   \* numbered from one on
          MaxEntries,   \* bound: entries logged
          MaxKept,      \* maxEntries of the aggregator
          MaxChanges    \* bound: changes of the array, and of levels

OptionsOK ==
  /\ Transports \subseteq Nat \ {0} /\ \A n \in Transports : 1 .. n \subseteq Transports
  /\ MaxEntries \in Nat /\ MaxKept \in Nat \ {0} /\ MaxChanges \in Nat

Loggers == {"parent", "child"}
Entries == 1 .. MaxEntries
Levels == {1, 2}   \* those of the entries: low and high

VARIABLES structured,   \* StructuredLogger, not Logger
          transports,   \* transports, which the two share
          writers,      \* asyncWriters of each
          shut,         \* the writers that are closed: <<logger, transport>>
          level,        \* level of each transport
          own,          \* level of each logger
          children,     \* the child was made
          logged,       \* how many entries were
          tasks,        \* the log() calls that wait for a writer
          kept,         \* entries of the aggregator
          changes,
          given,        \* what the aggregator was given
          astray,       \* an undisturbed log() gave its entry twice, or not to all it knew
          queried       \* somebody asked the aggregator for all entries

loggerVars == <<structured, transports, writers, shut, level, own, children, logged, tasks, kept,
                changes, given, astray, queried>>
arrayVars == <<structured, transports, writers, shut, level, own, children, changes, queried>>
logVars == <<logged, kept, given, astray>>

\* known: the transports there were, at its level, when the call began; got: those that
\* have its entry.  What happened to a call that has ended is in "astray".
Idle == [phase |-> "idle", by |-> "parent", level |-> 1, next |-> 1,
         known |-> {}, got |-> {}, disturbed |-> FALSE]

Init ==
  /\ structured \in BOOLEAN
  /\ transports \in {[i \in 1 .. n |-> i] : n \in Transports \cup {0}}
  /\ \E async \in BOOLEAN :
       /\ structured => ~async
       /\ writers = [g \in Loggers |-> IF async /\ g = "parent" THEN ToSet(transports) ELSE {}]
  /\ shut = {} /\ level = [t \in Transports |-> 1] /\ own = [by \in Loggers |-> 1] /\ children = FALSE
  /\ logged = 0 /\ tasks = [e \in Entries |-> Idle] /\ changes = 0
  /\ kept = [by \in Loggers |-> <<>>] /\ given = kept /\ astray = FALSE /\ queried = FALSE

Waiting == {e \in Entries : tasks[e].phase = "loop"}
-----------------------------------------------------------------------------
(* log() *)

Takes(t, by, lv) == lv >= level[t] /\ (t \in writers[by] => <<by, t>> \notin shut)

\* Where the loop stops that goes on at place i: at the first transport that takes
\* the entry through a writer, which is waited for, or behind the last.
Stop(i, by, lv) ==
  LET waits == {j \in i .. Len(transports) :
                  transports[j] \in writers[by] /\ lv >= level[transports[j]]}
  IN  IF waits = {} THEN Len(transports) + 1 ELSE Min(waits)

Reached(i, stop) == {transports[j] : j \in {j \in DOMAIN transports : i <= j /\ j <= stop}}

\* A child of Logger has its parent's aggregator.
Aggregator(by) == IF structured THEN by ELSE "parent"

\* push() and slice(): the last ones in the array, whatever its order.
Aggregate(e, a) ==
  LET all == Append(kept[a], e)
  IN  /\ kept' = [kept EXCEPT ![a] = SubSeq(all, Max({1, Len(all) - MaxKept + 1}), Len(all))]
      /\ given' = [given EXCEPT ![a] = Append(@, e)]

\* The loop of the call from its next place on, and aggregate() if it comes to the end;
\* emit("log") follows.
Proceed(e, call) ==
  LET stop == Stop(call.next, call.by, call.level)
      ended == stop > Len(transports)
      gets == {t \in Reached(call.next, stop) : Takes(t, call.by, call.level)}
      wrong == gets \cap call.got # {} \/ (ended /\ ~(call.known \subseteq call.got \cup gets))
  IN  /\ astray' = (astray \/ (wrong /\ ~call.disturbed))
      /\ tasks' = [tasks EXCEPT ![e] =
           IF ended THEN Idle ELSE [call EXCEPT !.next = stop + 1, !.got = @ \cup gets]]
      /\ IF ended THEN Aggregate(e, Aggregator(call.by)) ELSE UNCHANGED <<kept, given>>

\* What a sampler drops leaves no trace.
Log(by, lv) ==
  LET e == logged + 1
  IN  /\ e <= MaxEntries /\ logged' = e /\ (by = "child" => children) /\ lv >= own[by]
      /\ Proceed(e, [Idle EXCEPT !.phase = "loop", !.by = by, !.level = lv,
                       !.known = {t \in ToSet(transports) : Takes(t, by, lv)}])
      /\ UNCHANGED arrayVars

\* The writer has answered.
Resume(e) ==
  /\ tasks[e].phase = "loop" /\ Proceed(e, tasks[e]) /\ UNCHANGED <<arrayVars, logged>>

\* It has rejected: nobody handles it, and no further transport gets the entry.
WriterRejects(e) ==
  /\ tasks[e].phase = "loop" /\ tasks' = [tasks EXCEPT ![e] = Idle]
  /\ UNCHANGED <<arrayVars, logVars>>
-----------------------------------------------------------------------------
(* The array, the levels and the child *)

Change ==
  /\ changes < MaxChanges /\ changes' = changes + 1
  /\ UNCHANGED <<structured, logVars, queried>>

Disturb == tasks' = [e \in Entries |-> IF e \in Waiting THEN [tasks[e] EXCEPT !.disturbed = TRUE]
                                       ELSE tasks[e]]

\* A logger that has writers gets one for the new transport, in place of any old one.
AppendTransport(t) == transports' = Append(transports, t)

addTransport(by, t) ==
  /\ ~structured /\ ~Contains(transports, t) /\ (by = "child" => children) /\ Change
  /\ AppendTransport(t)
  /\ LET writes == writers[by] # {}
     IN  /\ writers' = IF writes THEN [writers EXCEPT ![by] = @ \cup {t}] ELSE writers
         /\ shut' = IF writes THEN shut \ {<<by, t>>} ELSE shut
  /\ UNCHANGED <<level, own, children, tasks>>

\* The other logger keeps its writer for the transport.
removeTransport(by, t) ==
  /\ ~structured /\ Contains(transports, t) /\ (by = "child" => children) /\ Change
  /\ \E i \in DOMAIN transports : transports[i] = t /\ transports' = RemoveAt(transports, i)
  /\ writers' = [writers EXCEPT ![by] = @ \ {t}]
  /\ shut' = shut \ {<<by, t>>} /\ Disturb
  /\ UNCHANGED <<level, own, children>>

\* setLevel() of Logger also sets the transports' levels, which the two share.
setLevel(by, lv) ==
  /\ (by = "child" => children) /\ Change /\ own' = [own EXCEPT ![by] = lv]
  /\ level' = [t \in Transports |->
                 IF Contains(transports, t) /\ ~structured THEN lv ELSE level[t]]
  /\ Disturb
  /\ UNCHANGED <<transports, writers, shut, children>>

\* child() of Logger; that of StructuredLogger has no writers to make.
child ==
  /\ ~children /\ children' = TRUE /\ own' = [own EXCEPT !["child"] = own["parent"]]
  /\ writers' = IF writers["parent"] # {} THEN [writers EXCEPT !["child"] = ToSet(transports)]
                ELSE writers
  /\ UNCHANGED <<structured, transports, shut, level, tasks, logVars, changes, queried>>

\* close() closes the writers of this logger only; they stay where they are.
close(by) ==
  /\ ~structured /\ (by = "child" => children) /\ writers[by] # {} /\ Change
  /\ shut' = shut \cup {<<by, t>> : t \in writers[by]}
  /\ Disturb
  /\ UNCHANGED <<transports, writers, level, own, children>>

\* query() without a filter sorts the entries themselves, the latest first.
query(a) ==
  /\ Len(kept[a]) > 1
  /\ \E sorted \in [DOMAIN kept[a] -> ToSet(kept[a])] :
       /\ \A i, j \in DOMAIN sorted : i < j => sorted[i] > sorted[j]
       /\ kept' = [kept EXCEPT ![a] = sorted]
  /\ queried' = TRUE
  /\ UNCHANGED <<structured, transports, writers, shut, level, own, children, logged, tasks,
                 changes, given, astray>>

Next ==
  \/ \E by \in Loggers, lv \in Levels : Log(by, lv)
  \/ \E e \in Entries : Resume(e) \/ WriterRejects(e)
  \/ \E by \in Loggers :
       \/ \E t \in Transports : addTransport(by, t) \/ removeTransport(by, t)
       \/ \E lv \in Levels : setLevel(by, lv)
       \/ close(by) \/ query(by)
  \/ child

Spec == Init /\ [][Next]_loggerVars
-----------------------------------------------------------------------------
TypeOK ==
  /\ structured \in BOOLEAN /\ transports \in Seq(Transports) /\ IsInjective(transports)
  /\ writers \in [Loggers -> SUBSET Transports] /\ shut \subseteq Loggers \X Transports
  /\ level \in [Transports -> Levels] /\ own \in [Loggers -> Levels]
  /\ children \in BOOLEAN /\ logged \in 0 .. MaxEntries
  /\ tasks \in [Entries -> [phase : {"idle", "loop"}, by : Loggers, level : Levels, next : Nat,
                            known : SUBSET Transports, got : SUBSET Transports, disturbed : BOOLEAN]]
  /\ kept \in [Loggers -> Seq(Entries)] /\ given \in [Loggers -> Seq(Entries)] /\ changes \in 0 .. MaxChanges
  /\ astray \in BOOLEAN /\ queried \in BOOLEAN

\* Whatever is logged and added in the middle of a log() call, no transport gets its entry
\* twice; and those that were there when it began get it, if no writer failed.  Only
\* transports that are removed, closed or silenced meanwhile make a difference.
HandedOnce == ~astray

\* The aggregator keeps the last entries that it was given, in their order, for as long
\* as nobody asks it for all of them; then, it may drop the latest instead.
AggregatedInTurn ==
  \A a \in Loggers :
    /\ Len(kept[a]) = Min({MaxKept, Len(given[a])}) /\ IsInjective(kept[a])
    /\ ToSet(kept[a]) \subseteq ToSet(given[a])
    /\ ~queried => IsSuffix(kept[a], given[a])
=============================================================================
