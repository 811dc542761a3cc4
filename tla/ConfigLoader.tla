----------------------------- MODULE ConfigLoader -----------------------------
(***************************************************************************)
(* The ConfigLoader of packages/config over a file and a remote source     *)
(* (etcd, consul).  A configuration has a key "p" and a key "n" inside of  *)
(* an object; zero says that a key is absent or has its default.  The      *)
(* object is shared: handleConfigChange() copies the configuration, but    *)
(* merges into the object that the old one, a listener or the last content *)
(* of a file may hold, too, and whoever shares it sees the change.         *)
(***************************************************************************)
EXTENDS Naturals, Sequences, FiniteSets

CONSTANTS
  Loads,     \* calls of load() and reload(), numbered as they come
  Tasks,     \* loadAndNotify() of the remote source, one at each event
  Values,
  Invalid,   \* values of "p" that the schema refuses
  RemoteKeys,  \* those of the remote source
  MaxEdits   \* a bound

VARIABLES
  order,     \* the sources, by priority: the highest first
  backend,   \* of the remote source
  listening, \* somebody listens to "error"
  content,   \* of each source
  edits,
  phase,     \* of each load: the number of the source it waits for, 0 before, 3 when it is over, 4 when it threw
  read,      \* of each load or task, what it has of the remote source
  merged,    \* of each load
  undisturbed,  \* the loads during which nothing changed or failed (of those to come, or under way)
  current, loaded,
  view,      \* what a listener knows: the last "loaded", and each "change" since
  viewShares,   \* the listener holds the object of the current configuration
  silent,    \* the configuration was replaced without "loaded": it is not valid
  watchers,  \* the calls of startWatching() whose watchers stopWatching() will stop
  started,   \* how many there were
  files,     \* those whose file is watched
  last, sharers,  \* lastConfig of each; those for whom it holds the object of the current one
  pending, on,    \* of each, the remote keys not watched yet, and those that are
  hasty,     \* those of etcd that were stopped before all their keys were watched
  destroyed

sourceVars == <<content, edits>>
loadVars == <<phase, read, merged, undisturbed>>
configVars == <<current, loaded, view, viewShares, silent>>
watchVars == <<watchers, started, files, last, sharers, pending, on, hasty>>
loaderVars == <<order, backend, listening, sourceVars, loadVars, configVars, watchVars, destroyed>>

OptionsOK ==
  /\ Loads \subseteq Nat /\ IsFiniteSet(Loads) /\ Loads \cap Tasks = {} /\ MaxEdits \in Nat
  /\ Values \subseteq Nat \ {0} /\ Invalid \subseteq Values
  /\ RemoteKeys \subseteq {"p", "n"}

Sources == {"file", "remote"}
ConfigKeys == {"p", "n"}
Generations == 1 .. Cardinality(Loads)
Empty == [k \in ConfigKeys |-> 0]
Unread == [listed |-> FALSE, keys |-> {}, got |-> Empty]

Init ==
  /\ order \in {<<"file", "remote">>, <<"remote", "file">>}
  /\ backend \in {"etcd", "consul"} /\ listening \in BOOLEAN
  /\ content = [s \in Sources |-> Empty] /\ edits = 0
  /\ phase = [l \in Loads |-> 0] /\ merged = [l \in Loads |-> Empty]
  /\ read = [r \in Loads \cup Tasks |-> Unread] /\ undisturbed = Loads
  /\ current = Empty /\ loaded = FALSE /\ view = Empty /\ viewShares = FALSE /\ silent = FALSE
  /\ watchers = {} /\ started = 0 /\ files = {} /\ last = [g \in Generations |-> Empty]
  /\ sharers = {} /\ pending = [g \in Generations |-> {}] /\ on = [g \in Generations |-> {}]
  /\ hasty = {} /\ destroyed = FALSE

DeepMerge(target, source) == [k \in ConfigKeys |-> IF source[k] = 0 THEN target[k] ELSE source[k]]

Has(config) == {k \in ConfigKeys : config[k] # 0}
Active(l) == phase[l] \in {1, 2}

Edit(s, k, v) ==
  /\ edits < MaxEdits /\ edits' = edits + 1 /\ (s = "remote" => k \in RemoteKeys)
  /\ content' = [content EXCEPT ![s][k] = v]
  /\ undisturbed' = {l \in undisturbed : phase[l] = 0}
  /\ UNCHANGED <<order, backend, listening, phase, read, merged, configVars, watchVars, destroyed>>

-----------------------------------------------------------------------------
(* The remote source lists its keys and asks for one value after another; a  *)
(* value that cannot be had is left out.  (Its connection is left out.)      *)

RemoteList(r) ==
  /\ ~read[r].listed
  /\ read' = [read EXCEPT ![r] = [listed |-> TRUE, keys |-> Has(content["remote"]), got |-> Empty]]

RemoteGet(r) ==
  \E k \in read[r].keys :
    /\ k = "p" \/ "p" \notin read[r].keys
    /\ \E v \in {0, content["remote"][k]} :
         /\ read' = [read EXCEPT ![r].keys = @ \ {k}, ![r].got[k] = v]
         /\ undisturbed' = IF v = 0 THEN undisturbed \ {r} ELSE undisturbed

RemoteDone(r) == read[r].listed /\ read[r].keys = {}

-----------------------------------------------------------------------------
(* load() *)

Source(l) == order[phase[l]]
Valid(config) == config["p"] \notin Invalid

\* reload() while another one is under way is one more load().
Load(l) ==
  /\ phase[l] = 0 /\ \A m \in Loads : m < l => phase[m] # 0
  /\ phase' = [phase EXCEPT ![l] = 1]
  /\ UNCHANGED <<order, backend, listening, sourceVars, read, merged, undisturbed, configVars, watchVars, destroyed>>

WaitsForRemote(l) == Active(l) /\ Source(l) = "remote"

RemoteStep(l) ==
  /\ WaitsForRemote(l)
  /\ \/ RemoteList(l) /\ undisturbed' = undisturbed
     \/ RemoteGet(l)
  /\ UNCHANGED <<order, backend, listening, sourceVars, phase, merged, configVars, watchVars, destroyed>>

\* A source has answered or failed.
Answer(l) ==
  IF Source(l) = "file" THEN content["file"] ELSE read[l].got

Answered(l) == Active(l) /\ (Source(l) = "remote" => RemoteDone(l))

NextSource(l) ==
  /\ Answered(l) /\ phase[l] = 1
  /\ phase' = [phase EXCEPT ![l] = 2]
  /\ merged' = [merged EXCEPT ![l] = DeepMerge(@, Answer(l))]
  /\ read' = [read EXCEPT ![l] = Unread]
  /\ UNCHANGED <<order, backend, listening, sourceVars, undisturbed, configVars, watchVars, destroyed>>

\* A file that is not there is not watched; one that has nothing may be there.  The
\* remote keys are listed and watched one by one, later; those made after that never.
startWatching(g) ==
  /\ started' = g /\ watchers' = watchers \cup {g}
  /\ files' = files \cup {g} \/ (Has(content["file"]) = {} /\ files' = files)
  /\ last' = [last EXCEPT ![g] = Empty]
  /\ pending' = [pending EXCEPT ![g] = Has(content["remote"])]
  /\ UNCHANGED <<on, hasty>>

\* All is done at once when the last source has answered.  A configuration that is not
\* valid is the current one, all the same.
Publish(l, config) ==
  /\ current' = config /\ sharers' = {}
  /\ merged' = [merged EXCEPT ![l] = Empty]
  /\ IF Valid(config)
     THEN /\ phase' = [phase EXCEPT ![l] = 3]
          /\ loaded' = TRUE /\ silent' = FALSE
          /\ view' = IF destroyed THEN view ELSE config
          /\ viewShares' = ~destroyed
          /\ startWatching(started + 1)
     ELSE /\ phase' = [phase EXCEPT ![l] = 4]
          /\ silent' = TRUE /\ viewShares' = FALSE
          /\ UNCHANGED <<loaded, view, watchers, started, files, last, pending, on, hasty>>

Loaded(l) ==
  /\ Answered(l) /\ phase[l] = 2
  /\ Publish(l, DeepMerge(merged[l], Answer(l)))
  /\ read' = [read EXCEPT ![l] = Unread]
  /\ UNCHANGED <<order, backend, listening, sourceVars, undisturbed, destroyed>>

\* emit("error") throws when nobody listens, and so does load().
SourceFails(l) ==
  /\ Active(l) /\ undisturbed' = undisturbed \ {l}
  /\ IF ~listening
     THEN phase' = [phase EXCEPT ![l] = 4] /\ UNCHANGED <<merged, configVars, watchVars>>
     ELSE IF phase[l] = 1 THEN phase' = [phase EXCEPT ![l] = 2] /\ UNCHANGED <<merged, configVars, watchVars>>
     ELSE Publish(l, merged[l])
  /\ read' = [read EXCEPT ![l] = Unread]
  /\ UNCHANGED <<order, backend, listening, sourceVars, destroyed>>

-----------------------------------------------------------------------------
(* Watching *)

HandleInPlace(new, by) ==  \* faulty: without the copy, nothing seems to have changed
  /\ current' = DeepMerge(current, new) /\ sharers' = sharers \ by
  /\ last' = [g \in Generations |-> IF g \in by THEN new ELSE last[g]]
  /\ UNCHANGED <<view, viewShares>>

\* The configuration is copied, and the new one merged into the copy.  The object is
\* replaced only if there was none; its changes are nobody's "change".
Handle(new, by) ==
  LET shared == current["n"] # 0
      made == new["n"] # 0 /\ ~shared
  IN  /\ current' = DeepMerge(current, new)
      /\ sharers' = IF made THEN by ELSE sharers \ by
      /\ last' = [g \in Generations |->
           IF g \in by THEN new
           ELSE IF shared /\ g \in sharers THEN [last[g] EXCEPT !["n"] = current'["n"]] ELSE last[g]]
      /\ view' = IF destroyed THEN view
                 ELSE [p |-> IF current'["p"] # current["p"] THEN current'["p"] ELSE view["p"],
                       n |-> IF made \/ viewShares THEN current'["n"] ELSE view["n"]]
      /\ viewShares' = (viewShares \/ (made /\ ~destroyed))

handleConfigChange(new, by) ==
  /\ Handle(new, by)
  /\ UNCHANGED <<order, backend, listening, sourceVars, phase, merged, undisturbed, loaded, silent,
                 watchers, started, files, pending, on, hasty, destroyed>>

\* Events of the file come when they like; a content that was seen is not news, nor
\* is that of a file that cannot be read or parsed.
FileEvent(g) ==
  /\ g \in files /\ content["file"] # last[g]
  /\ handleConfigChange(content["file"], {g}) /\ read' = read

WatchKey(g, k) ==
  /\ k \in pending[g]
  /\ pending' = [pending EXCEPT ![g] = @ \ {k}] /\ on' = [on EXCEPT ![g] = @ \cup {k}]
  /\ UNCHANGED <<order, backend, listening, sourceVars, loadVars, configVars,
                 watchers, started, files, last, sharers, hasty, destroyed>>

\* At an event of a key, or of none that consul answers its poll with, everything is
\* loaded again.
TaskStep(t) ==
  /\ \/ (\E g \in Generations : on[g] # {}) /\ RemoteList(t) /\ undisturbed' = undisturbed
     \/ RemoteGet(t)
  /\ UNCHANGED <<order, backend, listening, sourceVars, phase, merged, configVars, watchVars, destroyed>>

TaskDone(t) ==
  /\ RemoteDone(t) /\ handleConfigChange(read[t].got, {})
  /\ read' = [read EXCEPT ![t] = Unread]

\* Only the keys that are watched by now are unwatched, and none of consul, whose
\* watchers cannot be stopped: they go on polling.  What a closed file watcher
\* remembers is of no use any more.
stopWatching ==
  /\ watchers' = {} /\ files' = files \ watchers
  /\ last' = [g \in Generations |-> IF g \in watchers THEN Empty ELSE last[g]]
  /\ sharers' = sharers \ watchers
  /\ on' = [g \in Generations |-> IF backend = "etcd" /\ g \in watchers THEN {} ELSE on[g]]
  /\ hasty' = hasty \cup {g \in watchers : backend = "etcd" /\ pending[g] # {}}
  /\ UNCHANGED <<order, backend, sourceVars, loadVars, current, loaded, silent, started, pending>>

StopWatching ==
  /\ watchers # {} /\ stopWatching /\ UNCHANGED <<view, viewShares, listening, destroyed>>

\* The listeners are removed, and know nothing any more.
destroy ==
  /\ ~destroyed /\ destroyed' = TRUE /\ listening' = FALSE
  /\ view' = Empty /\ viewShares' = FALSE /\ stopWatching

Next ==
  \/ \E s \in Sources, k \in ConfigKeys, v \in Values \cup {0} : content[s][k] # v /\ Edit(s, k, v)
  \/ \E l \in Loads : Load(l) \/ RemoteStep(l) \/ NextSource(l) \/ Loaded(l) \/ SourceFails(l)
  \/ \E g \in Generations : FileEvent(g) \/ \E k \in ConfigKeys : WatchKey(g, k)
  \/ \E t \in Tasks : TaskStep(t) \/ TaskDone(t)
  \/ StopWatching \/ destroy

Spec == Init /\ [][Next]_loaderVars
-----------------------------------------------------------------------------
TypeOK ==
  /\ edits \in 0 .. MaxEdits /\ started \in 0 .. Cardinality(Loads)
  /\ \A k \in ConfigKeys : {current[k], view[k]} \subseteq Values \cup {0}
  /\ watchers \cup files \cup sharers \cup hasty \subseteq 1 .. started
  /\ \A l \in Loads : phase[l] \in 0 .. 4

\* Who listens to "loaded" and "change" knows the current configuration, although the
\* changes of the object are not announced; unless one that is not valid has replaced
\* it, or destroy() has removed the listener.
ListenersFollow == ~silent /\ ~destroyed => view = current

\* Every file watcher will be stopped by the next stopWatching(), however many loads
\* have started watching; and so will every key of etcd, if stopWatching() has not
\* overtaken its registration.  Nothing is said of consul, whose keys stay watched.
WatchersKnown ==
  /\ files \subseteq watchers
  /\ backend = "etcd" => \A g \in Generations : on[g] # {} => g \in watchers \/ g \in hasty

\* A load that nothing disturbed makes one configuration of what both sources have,
\* in which one of them has the last word on every key that both have, whatever
\* other loads, events and failures come between its steps.
SourcesMerged ==
  [][\A l \in Loads \cap undisturbed' :
       phase[l] = 2 /\ phase'[l] = 3
       => \E s, t \in Sources : s # t /\ current' = DeepMerge(content[s], content[t])]_loaderVars
===============================================================================
