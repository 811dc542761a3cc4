---------------------------- MODULE LogTransports ----------------------------
(***************************************************************************)
(* The transports of packages/log that keep entries before they pass them  *)
(* on.  FileTransport collects lines and appends them to its file once a   *)
(* second; RotatingFileTransport also renames the file when a line does    *)
(* not fit in it; HttpTransport posts its entries in batches.              *)
(*                                                                         *)
(* Files are written synchronously.  What a rotation awaits is resolved    *)
(* already, so its parts are microtasks, run in the order in which they    *)
(* are queued ("jobs") and before any timer; the caller of the transport   *)
(* does not wait for them, and may write between them.                     *)
(*                                                                         *)
(* Entries are numbered as they come.  "rotations", "born", "deleted",     *)
(* "hasty" and "disturbed" are history variables.                          *)
(***************************************************************************)
EXTENDS Naturals, Sequences, SequencesExt, FiniteSetsExt

CONSTANTS MaxEntries,   \* bound: entries written
          Big,          \* the entries whose line takes two units, not one
          MaxSize,      \* maxSize, in units
          FileCounts,   \* the values of maxFiles
          BatchSize     \* batchSize

OptionsOK ==
  /\ MaxEntries \in Nat /\ Big \subseteq 1 .. MaxEntries
  /\ MaxSize \in Nat \ {0} /\ BatchSize \in Nat \ {0}
  /\ FileCounts \subseteq Nat \ {0} /\ FileCounts # {}

VARIABLES kind,         \* "file", "rotating" or "http"
          maxFiles,
          accepted,     \* how many entries the transport was given
          buffer,       \* buffer, or batch
          open,         \* fd is set
          ticking,      \* the interval is set
          files,        \* files[0]: the lines at filePath; files[i]: at filePath.i
          exists,       \* the numbers of the files that exist
          currentSize,
          jobs,         \* microtasks: <<what, entry>>
          posts,        \* HTTP: the batches that are being posted
          posted,       \* HTTP: the entries that the endpoint took
          rotations,    \* rotations so far
          born,         \* the rotation that made each file
          deleted,      \* the entries whose files are gone
          hasty,        \* a file went that was to be kept
          disturbed     \* an entry came during a rotation, or a rotation's flush failed

transportVars == <<kind, maxFiles, accepted, buffer, open, ticking, files, exists, currentSize,
                   jobs, posts, posted, rotations, born, deleted, hasty, disturbed>>
rotationVars == <<exists, rotations, born, deleted, hasty>>
httpVars == <<posts, posted>>

Slots == UNION {0 .. n : n \in FileCounts \cup {1}}
Size(e) == IF e \in Big THEN 2 ELSE 1
SizeOf(lines) == Len(lines) + Cardinality({i \in DOMAIN lines : lines[i] \in Big})

Init ==
  /\ kind \in {"file", "rotating", "http"} /\ maxFiles \in FileCounts
  /\ (kind # "rotating" => maxFiles = Min(FileCounts))
  /\ accepted = 0 /\ buffer = <<>> /\ open = (kind # "http") /\ ticking = TRUE
  /\ files = [i \in Slots |-> <<>>] /\ exists = (IF kind = "http" THEN {} ELSE {0})
  /\ currentSize = 0 /\ jobs = <<>> /\ posts = <<>> /\ posted = {}
  /\ rotations = 0 /\ born = [i \in Slots |-> 0] /\ deleted = {}
  /\ hasty = FALSE /\ disturbed = FALSE
-----------------------------------------------------------------------------
(* Files *)

\* flush() of FileTransport: all lines are appended, or they all go back.
FlushFile(lines) ==
  \/ /\ open /\ lines # <<>>
     /\ files' = [files EXCEPT ![0] = @ \o lines] /\ buffer' = <<>>
  \/ buffer' = lines /\ UNCHANGED files

\* writeEntry() of the two.  One that rotates flushes at once, and goes on two
\* microtasks later.
WriteLine ==
  LET e == accepted + 1
      rotates == kind = "rotating" /\ currentSize + Size(e) > MaxSize
  IN  /\ kind # "http" /\ e <= MaxEntries /\ accepted' = e
      /\ IF rotates
         THEN /\ FlushFile(buffer) /\ jobs' = Append(jobs, <<"rotate", e>>)
              /\ disturbed' = (disturbed \/ jobs # <<>> \/ buffer' # <<>>) /\ UNCHANGED currentSize
         ELSE /\ buffer' = Append(buffer, e) /\ UNCHANGED <<files, jobs>>
              /\ disturbed' = (disturbed \/ jobs # <<>>)
              /\ currentSize' = IF kind = "rotating" THEN currentSize + Size(e) ELSE currentSize
      /\ UNCHANGED <<kind, maxFiles, open, ticking, rotationVars, httpVars>>

\* The loop deletes the last but one file and moves those before it; if there was no
\* place for the first one, the rename that follows puts it over the next.
LastSlot == IF maxFiles = 1 THEN 1 ELSE maxFiles - 2

RotateUpwards ==  \* faulty: the loop from the first file to the last moves one all the way
  /\ exists' = {0} /\ files' = [i \in Slots |-> <<>>]
  /\ born' = [i \in Slots |-> rotations + 1]
  /\ deleted' = deleted \cup UNION {ToSet(files[i]) : i \in exists}
  /\ hasty' = (hasty \/ \E i \in exists : rotations < born[i] + LastSlot)

RotateFiles ==
  /\ exists' = {0} \cup {i + 1 : i \in {i \in exists : i < LastSlot}}
  /\ files' = [i \in Slots |-> IF i > 0 /\ i - 1 \in exists /\ i <= LastSlot THEN files[i - 1] ELSE <<>>]
  /\ born' = [i \in Slots |-> IF i \in exists' \ {0} THEN born[i - 1] ELSE rotations + 1]
  /\ deleted' = deleted \cup UNION {ToSet(files[i]) : i \in exists \cap {LastSlot}}
  /\ hasty' = (hasty \/ (LastSlot \in exists /\ rotations < born[LastSlot] + LastSlot))

rotate ==
  /\ jobs # <<>> /\ Head(jobs)[1] = "rotate"
  /\ jobs' = Append(Tail(jobs), <<"push", Head(jobs)[2]>>)
  /\ RotateFiles /\ rotations' = rotations + 1 /\ open' = TRUE /\ currentSize' = 0
  /\ UNCHANGED <<kind, maxFiles, accepted, buffer, ticking, httpVars, disturbed>>

PushRotated ==
  LET e == Head(jobs)[2]
  IN  /\ jobs # <<>> /\ Head(jobs)[1] = "push" /\ jobs' = Tail(jobs)
      /\ currentSize' = currentSize + Size(e) /\ buffer' = Append(buffer, e)
      /\ UNCHANGED <<kind, maxFiles, accepted, open, ticking, files, rotationVars, httpVars, disturbed>>

\* By the interval, which waits for the microtasks, and by anybody else.
flush ==
  /\ kind # "http" /\ FlushFile(buffer)
  /\ UNCHANGED <<kind, maxFiles, accepted, open, ticking, currentSize, jobs, rotationVars,
                 httpVars, disturbed>>

\* The file is closed a microtask later, and opened again by a rotation queued behind.
\* The second of two close() calls finds nothing to do.
close ==
  /\ kind # "http" /\ ticking /\ ticking' = FALSE
  /\ FlushFile(buffer) /\ jobs' = Append(jobs, <<"close", 0>>)
  /\ UNCHANGED <<kind, maxFiles, accepted, open, currentSize, rotationVars, httpVars, disturbed>>

CloseFile ==
  /\ jobs # <<>> /\ Head(jobs)[1] = "close" /\ jobs' = Tail(jobs) /\ open' = FALSE
  /\ UNCHANGED <<kind, maxFiles, accepted, buffer, ticking, files, currentSize, rotationVars,
                 httpVars, disturbed>>
-----------------------------------------------------------------------------
(* HTTP *)

PostBatch(entries) ==
  LET n == Min({BatchSize, Len(entries)})
  IN  /\ posts' = Append(posts, SubSeq(entries, 1, n))
      /\ buffer' = SubSeq(entries, n + 1, Len(entries))

\* Nothing keeps a full batch from being posted while others are.
WriteBatched ==
  LET entries == Append(buffer, accepted + 1)
  IN  /\ kind = "http" /\ accepted < MaxEntries /\ accepted' = accepted + 1
      /\ IF Len(entries) >= BatchSize THEN PostBatch(entries) ELSE buffer' = entries /\ posts' = posts
      /\ UNCHANGED <<kind, maxFiles, open, ticking, files, currentSize, jobs, rotationVars, posted,
                     disturbed>>

\* flush(), by the interval, by the end of the stream, and by anybody else.
FlushBatch ==
  /\ kind = "http" /\ buffer # <<>> /\ PostBatch(buffer)
  /\ UNCHANGED <<kind, maxFiles, accepted, open, ticking, files, currentSize, jobs, rotationVars,
                 posted, disturbed>>

\* Any answer will do; without one, the batch goes in front of what came meanwhile.
PostSettles(i, answered) ==
  /\ posts' = RemoveAt(posts, i)
  /\ posted' = (IF answered THEN posted \cup ToSet(posts[i]) ELSE posted)
  /\ buffer' = (IF answered THEN buffer ELSE posts[i] \o buffer)
  /\ UNCHANGED <<kind, maxFiles, accepted, open, ticking, files, currentSize, jobs, rotationVars,
                 disturbed>>

Next ==
  \/ WriteLine \/ rotate \/ PushRotated \/ flush \/ close \/ CloseFile
  \/ WriteBatched \/ FlushBatch
  \/ \E i \in 1 .. Len(posts), answered \in BOOLEAN : PostSettles(i, answered)

Spec == Init /\ [][Next]_transportVars
-----------------------------------------------------------------------------
Entries == 1 .. MaxEntries

TypeOK ==
  /\ kind \in {"file", "rotating", "http"} /\ maxFiles \in FileCounts /\ accepted \in 0 .. MaxEntries
  /\ buffer \in Seq(Entries) /\ open \in BOOLEAN /\ ticking \in BOOLEAN
  /\ files \in [Slots -> Seq(Entries)] /\ exists \subseteq Slots /\ currentSize \in Nat
  /\ jobs \in Seq({"rotate", "push", "close"} \X (0 .. MaxEntries))
  /\ posts \in Seq(Seq(Entries)) /\ posted \subseteq Entries
  /\ rotations \in Nat /\ born \in [Slots -> Nat] /\ deleted \subseteq Entries
  /\ hasty \in BOOLEAN /\ disturbed \in BOOLEAN

\* The places where an entry is.
Copies(e) ==
  LET In(lines) == {j \in DOMAIN lines : lines[j] = e}
  IN  UNION {{<<"buffer", 0>>} \X In(buffer),
             UNION {{<<"file", i>>} \X In(files[i]) : i \in Slots},
             {<<"job", 0>>} \X {i \in DOMAIN jobs : jobs[i][2] = e},
             UNION {{<<"post", i>>} \X In(posts[i]) : i \in DOMAIN posts},
             {<<"deleted", 0>>} \X (deleted \cap {e}),
             {<<"posted", 0>>} \X (posted \cap {e})}

\* Failed flushes and posts, posts that overlap, and rotations in the middle of other
\* calls neither lose an entry nor repeat it, unless its file is deleted in its turn;
\* FileTransport keeps their order as well.
EntriesKept ==
  /\ \A e \in 1 .. accepted : Cardinality(Copies(e)) = 1
  /\ kind = "file" => files[0] \o buffer = [i \in 1 .. accepted |-> i]

\* A file outlives as many rotations as there are places for it; and if no entry comes
\* in the middle of a rotation, then newer entries are in newer files, the oldest are
\* those that are deleted, and no file is larger than it may be, unless one line is.
RotationInOrder ==
  LET present == {i \in exists : files[i] # <<>>}
      newest == ToSet(files[0] \o buffer)
  IN  /\ ~hasty
      /\ kind = "rotating" /\ ~disturbed =>
           /\ \A i, j \in present : i < j =>
                \A x \in ToSet(files[i]), y \in ToSet(files[j]) : y < x
           /\ \A x \in deleted, i \in present : \A y \in ToSet(files[i]) : x < y
           /\ \A x \in deleted, y \in newest : x < y
           /\ \A i \in present : SizeOf(files[i]) > MaxSize => Len(files[i]) = 1
=============================================================================
