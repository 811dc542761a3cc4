--------------------------- MODULE ConcurrentMap ---------------------------
(***************************************************************************)
(* The ConcurrentMap class of packages/concurrency: a map whose load()     *)
(* shares one computation among concurrent callers, next to set(),         *)
(* delete() and clear(), which may come while a computation is in flight.  *)
(*                                                                         *)
(* A computation is one call of a loader; computations are numbered, and   *)
(* the value one yields is its number.  A value stored by set() is its own *)
(* distinct value.  A value is never undefined.                            *)
(***************************************************************************)
EXTENDS Naturals, Sequences, FiniteSets

CONSTANTS Keys,
          Callers,   \* the activities that call load()
          Given,     \* the value stored by set()
          Nothing,   \* no value under a key
          MaxLoads,  \* bound: how many computations are started
          MaxDeletes \* bound: how often each key is deleted

VARIABLES store,     \* _store
          loading,   \* _loading: the number of the computation, 0 for none
          loads,     \* the computations so far: [key, state, age]
          awaits,    \* the computation each caller awaits, 0 for none
          age        \* history: how often each key was deleted

\* A value is never undefined.
ValuesDistinct == Given # Nothing /\ Nothing \notin Nat

vars == <<store, loading, loads, awaits, age>>

LoadIds == DOMAIN loads
InFlight(k) == {l \in LoadIds : loads[l].key = k /\ loads[l].state = "running"}

Init ==
  /\ store = [k \in Keys |-> Nothing]
  /\ loading = [k \in Keys |-> 0]
  /\ loads = <<>>
  /\ awaits = [c \in Callers |-> 0]
  /\ age = [k \in Keys |-> 0]

-----------------------------------------------------------------------------
\* load() of a key that has a value: answered at once.
Hit(c, k) ==
  /\ store[k] # Nothing
  /\ UNCHANGED vars

\* load() of a key that is being computed, or whose computation has failed:
\* the promise that is remembered is handed out.
Join(c, k) ==
  /\ store[k] = Nothing
  /\ loading[k] # 0
  /\ awaits' = [awaits EXCEPT ![c] =
       IF loads[loading[k]].state = "running" THEN loading[k] ELSE 0]
  /\ UNCHANGED <<store, loading, loads, age>>

\* load() that calls its loader.
Start(c, k) ==
  /\ Len(loads) < MaxLoads
  /\ loads' = Append(loads, [key |-> k, state |-> "running", age |-> age[k]])
  /\ loading' = [loading EXCEPT ![k] = Len(loads) + 1]
  /\ awaits' = [awaits EXCEPT ![c] = Len(loads) + 1]
  /\ UNCHANGED <<store, age>>

Load(c, k) ==
  /\ awaits[c] = 0
  /\ \/ Hit(c, k)
     \/ Join(c, k)
     \/ store[k] = Nothing /\ loading[k] = 0 /\ Start(c, k)

\* The then() callback of computation l: it stores its value and removes the
\* marker of its key, without asking whether either is still its own.
Resolve(l) ==
  /\ loads[l].state = "running"
  /\ loads' = [loads EXCEPT ![l].state = "resolved"]
  /\ store' = [store EXCEPT ![loads[l].key] = l]
  /\ loading' = [loading EXCEPT ![loads[l].key] = 0]
  /\ awaits' = [c \in Callers |-> IF awaits[c] = l THEN 0 ELSE awaits[c]]
  /\ UNCHANGED age

\* A loader that fails: the rejected promise stays in _loading.
Reject(l) ==
  /\ loads[l].state = "running"
  /\ loads' = [loads EXCEPT ![l].state = "rejected"]
  /\ awaits' = [c \in Callers |-> IF awaits[c] = l THEN 0 ELSE awaits[c]]
  /\ UNCHANGED <<store, loading, age>>

Set(k) ==
  /\ store' = [store EXCEPT ![k] = Given]
  /\ UNCHANGED <<loading, loads, awaits, age>>

\* delete(k) and clear() forget the values and the computations of some keys.
Forget(ks) ==
  /\ store' = [k \in Keys |-> IF k \in ks THEN Nothing ELSE store[k]]
  /\ loading' = [k \in Keys |-> IF k \in ks THEN 0 ELSE loading[k]]
  /\ age' = [k \in Keys |-> IF k \in ks THEN age[k] + 1 ELSE age[k]]
  /\ UNCHANGED <<loads, awaits>>

Delete(k) == age[k] < MaxDeletes /\ Forget({k})
Clear == (\A k \in Keys : age[k] < MaxDeletes) /\ Forget(Keys)

Next ==
  \/ \E c \in Callers, k \in Keys : Load(c, k)
  \/ \E l \in LoadIds : Resolve(l) \/ Reject(l)
  \/ \E k \in Keys : Set(k) \/ Delete(k)
  \/ Clear

\* Every loader settles.
Fairness == \A l \in 1..MaxLoads : WF_vars(l \in LoadIds /\ (Resolve(l) \/ Reject(l)))

Spec == Init /\ [][Next]_vars /\ Fairness

-----------------------------------------------------------------------------
TypeOK ==
  /\ store \in [Keys -> {Nothing, Given} \cup 1..Len(loads)]
  /\ loading \in [Keys -> 0..Len(loads)]
  /\ loads \in Seq([key : Keys, state : {"running", "resolved", "rejected"}, age : 0..MaxDeletes])
  /\ awaits \in [Callers -> {l \in 0..Len(loads) : l = 0 \/ loads[l].state = "running"}]
  /\ age \in [Keys -> 0..MaxDeletes]

\* However loads, completions and deletions are interleaved, two computations
\* of one key are in flight together only if a deletion came between their
\* starts, also after an older computation has removed the marker of a newer.
NoDuplicateBetweenDeletions ==
  \A k \in Keys : \A l, m \in InFlight(k) : loads[l].age = loads[m].age => l = m

\* A marker stands for a computation of its own key that is in flight or has
\* failed, never for one that has delivered its value.
MarkersAreLive ==
  \A k \in Keys : loading[k] # 0 =>
    loads[loading[k]].key = k /\ loads[loading[k]].state # "resolved"

\* What load() keeps of its promise to compute a key once.
SingleFlight == NoDuplicateBetweenDeletions /\ MarkersAreLive

\* Every caller of load() gets an answer, also when the key is deleted while it
\* waits.
EveryLoadAnswered == \A c \in Callers : (awaits[c] # 0) ~> (awaits[c] = 0)
=============================================================================
