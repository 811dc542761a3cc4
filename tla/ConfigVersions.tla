---------------------------- MODULE ConfigVersions ----------------------------
(***************************************************************************)
(* ConfigVersionManager with its memory and file storages                  *)
(* (packages/config/src/versioning.ts).  A call awaits the storage several *)
(* times, and nothing serializes the calls.  The file storage changes its  *)
(* memory and then rewrites its whole file; the write may fail, or be torn *)
(* by a crash, and a file that does not parse counts as an empty history.  *)
(***************************************************************************)
EXTENDS Naturals, FiniteSets, FiniteSetsExt

CONSTANTS
  Callers,
  Configs,      \* configurations
  Nothing,      \* no version under a number
  MaxVersions,  \* options.maxVersions (autoCleanup is on)
  MaxNumber,    \* version numbers handed out (a bound)
  MaxMishaps    \* crashes and failed writes (a bound)

VARIABLES
  storage,   \* "memory" or "file"
  versions,  \* the configuration stored under each number, or Nothing
  highest,   \* currentVersion of the memory storage, which deletions leave alone
  current,   \* currentVersion and currentConfig of the manager
  calls,     \* what each caller's call awaits
  disk,      \* the file
  crashes,
  errors,    \* writes of the file that failed
  overlapped,  \* history: two calls have been under way at a time
  extras,      \* history: versions that were stored, since the last cleanup, without one
  failed       \* history: what the last write of the file was for, if it failed

versionVars == <<storage, versions, highest, current, calls, disk, crashes, errors, overlapped, extras, failed>>

OptionsOK == MaxVersions \in Nat \ {0} /\ MaxNumber \in Nat /\ Nothing \notin Configs

VersionNumbers == 1 .. MaxNumber
NoVersions == [n \in VersionNumbers |-> Nothing]
Present(history) == {n \in VersionNumbers : history[n] # Nothing}
IdleCall == [stage |-> "idle", number |-> 0, config |-> Nothing, cleans |-> FALSE,
             left |-> {}, write |-> NoVersions]
Busy(p) == calls[p].stage # "idle"

\* getLatest(): the file storage sorts, the memory storage trusts its counter.
LatestOf(history) == IF Present(history) = {} THEN 0 ELSE Max(Present(history))
GetLatest ==
  IF storage = "memory"
  THEN IF highest \in Present(versions) THEN highest ELSE 0
  ELSE LatestOf(versions)

\* slice(maxVersions) of the list, newest first.
ToDelete == {n \in Present(versions) :
               Cardinality({m \in Present(versions) : m > n}) >= MaxVersions}
Init ==
  /\ storage \in {"memory", "file"}
  /\ versions = NoVersions /\ highest = 0 /\ current = [number |-> 0, config |-> Nothing]
  /\ calls = [p \in Callers |-> IdleCall]
  /\ disk = NoVersions /\ crashes = 0 /\ errors = 0 /\ overlapped = FALSE /\ extras = 0
  /\ failed = "nothing"

\* The latest number is read, and awaited.
ReadLatest(p, call) ==
  /\ GetLatest < MaxNumber
  /\ calls' = [calls EXCEPT ![p] = [call EXCEPT !.stage = "save", !.number = GetLatest + 1]]

CreateVersion(p, config) ==
  /\ ~Busy(p)
  /\ ReadLatest(p, [IdleCall EXCEPT !.config = config, !.cleans = TRUE])
  /\ overlapped' = (overlapped \/ \E q \in Callers : Busy(q))
  /\ UNCHANGED <<storage, versions, highest, current, disk, crashes, errors, extras, failed>>

\* rollback() loads and awaits its target before the latest number; it fails if
\* there is no such version.
Rollback(p, n) ==
  /\ ~Busy(p) /\ n \in Present(versions)
  /\ calls' = [calls EXCEPT ![p] = [IdleCall EXCEPT !.stage = "loaded", !.config = versions[n]]]
  /\ overlapped' = (overlapped \/ \E q \in Callers : Busy(q))
  /\ UNCHANGED <<storage, versions, highest, current, disk, crashes, errors, extras, failed>>

TargetLoaded(p) ==
  /\ calls[p].stage = "loaded"
  /\ ReadLatest(p, calls[p])
  /\ UNCHANGED <<storage, versions, highest, current, disk, crashes, errors, overlapped, extras, failed>>

\* storage.save.  The file storage then persists: it awaits the file module, takes
\* what the cache holds by then, and writes.
Save(p) ==
  /\ calls[p].stage = "save"
  /\ versions' = [versions EXCEPT ![calls[p].number] = calls[p].config]
  /\ highest' = IF calls[p].number > highest THEN calls[p].number ELSE highest
  /\ calls' = [calls EXCEPT ![p].stage = IF storage = "file" THEN "stored" ELSE "saving"]
  /\ UNCHANGED <<storage, current, disk, crashes, errors, overlapped, extras, failed>>

Persist(p) ==
  /\ calls[p].stage \in {"stored", "removed"}
  /\ calls' = [calls EXCEPT ![p].write = versions,
        ![p].stage = IF @ = "stored" THEN "saving" ELSE "deleting"]
  /\ UNCHANGED <<storage, versions, highest, current, disk, crashes, errors, overlapped, extras, failed>>

\* save() returns: the manager adopts the version, createVersion lists what is to
\* be cleaned up.
Saved(p) ==
  /\ calls[p].stage = "saving"
  /\ disk' = IF storage = "file" THEN calls[p].write ELSE disk
  /\ current' = [number |-> calls[p].number, config |-> calls[p].config]
  /\ calls' = [calls EXCEPT ![p] =
        IF calls[p].cleans /\ ToDelete # {}
        THEN [IdleCall EXCEPT !.stage = "delete", !.left = ToDelete]
        ELSE IdleCall]
  /\ extras' = IF calls[p].cleans THEN 0 ELSE extras + 1
  /\ failed' = "nothing"
  /\ UNCHANGED <<storage, versions, highest, crashes, errors, overlapped>>

Delete(p) ==
  /\ calls[p].stage = "delete"
  /\ versions' = [versions EXCEPT ![Max(calls[p].left)] = Nothing]
  /\ calls' = [calls EXCEPT ![p].stage = IF storage = "file" THEN "removed" ELSE "deleting"]
  /\ UNCHANGED <<storage, highest, current, disk, crashes, errors, overlapped, extras, failed>>

Deleted(p) ==
  LET left == calls[p].left \ {Max(calls[p].left)}
  IN  /\ calls[p].stage = "deleting"
      /\ disk' = IF storage = "file" THEN calls[p].write ELSE disk
      /\ calls' = [calls EXCEPT ![p] =
            IF left = {} THEN IdleCall ELSE [IdleCall EXCEPT !.stage = "delete", !.left = left]]
      /\ failed' = "nothing"
      /\ UNCHANGED <<storage, versions, highest, current, crashes, errors, overlapped, extras>>

\* fs.writeFile rejects, before it has opened the file or after it has emptied it,
\* and so does the call: a version that was stored in memory is not adopted, the
\* rest of a cleanup is not done, and memory keeps what it was changed to.
WriteFails(p) ==
  LET undone == calls[p].left \ {Max(calls[p].left)}
  IN  /\ calls[p].stage \in {"saving", "deleting"} /\ storage = "file"
      /\ crashes + errors < MaxMishaps /\ errors' = errors + 1
      /\ disk' \in {disk, NoVersions}
      /\ calls' = [calls EXCEPT ![p] = IdleCall]
      /\ \/ calls[p].stage = "saving" /\ failed' = "save" /\ extras' = extras + 1
         \/ calls[p].stage = "deleting" /\ failed' = "delete" /\ extras' = extras + Cardinality(undone)
      /\ UNCHANGED <<storage, versions, highest, current, crashes, overlapped>>

\* The process ends and starts again: initialize() adopts the latest version the
\* storage has.  A write under way may have been done, not done, or torn.
Crash ==
  LET writes == {calls[p].write : p \in {q \in Callers : calls[q].stage \in {"saving", "deleting"}}}
  IN  /\ storage = "file" /\ crashes + errors < MaxMishaps
      /\ disk' \in {disk} \cup writes \cup (IF writes = {} THEN {} ELSE {NoVersions})
      /\ versions' = disk' /\ highest' = LatestOf(disk')
      /\ current' = [number |-> LatestOf(disk'), config |->
            IF Present(disk') = {} THEN Nothing ELSE disk'[LatestOf(disk')]]
      /\ calls' = [p \in Callers |-> IdleCall]
      /\ crashes' = crashes + 1
      /\ failed' = "nothing"
      /\ UNCHANGED <<storage, errors, overlapped, extras>>

Next ==
  \/ \E p \in Callers :
       \/ \E config \in Configs : CreateVersion(p, config)
       \/ \E n \in VersionNumbers : Rollback(p, n)
       \/ TargetLoaded(p) \/ Save(p) \/ Persist(p) \/ Saved(p) \/ Delete(p) \/ Deleted(p)
       \/ WriteFails(p)
  \/ Crash

Spec == Init /\ [][Next]_versionVars
-----------------------------------------------------------------------------
TypeOK ==
  /\ versions \in [VersionNumbers -> Configs \cup {Nothing}] /\ disk \in [VersionNumbers -> Configs \cup {Nothing}]
  /\ highest \in 0 .. MaxNumber /\ current.number \in 0 .. MaxNumber /\ extras \in Nat
  /\ failed \in {"nothing", "save", "delete"}
  /\ \A p \in Callers : calls[p].left \subseteq VersionNumbers /\ calls[p].number \in 0 .. MaxNumber

\* However cleanups overlap with each other and with new versions, a version
\* below the highest one is only missing while maxVersions newer ones are stored.
\* (A crash may leave a file of any age.)
KeepsTheNewest ==
  crashes = 0 => \A n \in 1 .. highest :
    versions[n] = Nothing =>
      Cardinality({m \in Present(versions) : m > n}) >= MaxVersions

\* Calls one at a time: between them the manager's version is one that is stored
\* with the configuration the manager has, and no more is kept than maxVersions and
\* what was stored without a cleanup.  It is the latest one unless the last write
\* failed to save another, and the file says what memory says unless the last write
\* failed: the next one that succeeds repairs both.  Overlapping calls void all this.
SerialHistory ==
  ~overlapped /\ (\A p \in Callers : ~Busy(p)) =>
    /\ current.number # 0 => versions[current.number] = current.config
    /\ failed # "save" => current.number = LatestOf(versions)
    /\ storage = "file" /\ failed = "nothing" => disk = versions
    /\ crashes = 0 => Cardinality(Present(versions)) <= MaxVersions + extras

\* What the documentation says ("Immutable version history"): what is stored under
\* a number is never replaced by something else.
ImmutableHistory ==
  [][\A n \in VersionNumbers :
       versions[n] # Nothing /\ versions'[n] # Nothing => versions'[n] = versions[n]]_versionVars
=============================================================================
