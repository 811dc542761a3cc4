----------------------------- MODULE LoadBalancer -----------------------------
(***************************************************************************)
(* The load balancers of packages/discovery/src/load-balancer.ts, fed by   *)
(* the discovery of a Resolver (resolver.ts).  Both live in a registry by  *)
(* name: a resolver that is removed and created again has a discovery of   *)
(* its own but finds the balancer of the old one.                          *)
(***************************************************************************)
EXTENDS Integers, FiniteSets, Sequences, SequencesExt, FiniteSetsExt

CONSTANTS
  Ids,            \* instance ids of the service
  Weight,         \* metadata.weight of each
  VirtualNodes,   \* the hashes of each instance's nodes on the ring
  KeyHashes,      \* the hashes of the keys asked for
  MaxPicks,       \* picks (a bound)
  MaxEdits,       \* changes of the members or of an offer (a bound)
  MaxGenerations  \* resolvers created for the name (a bound)

VARIABLES
  strategy,
  members,         \* instances
  currentIndex, connectionCounts, weights, currentWeights,
  ring,            \* pairs of a hash and the instance it stands for
  offers,          \* what the discovery of each resolver publishes
  generation,      \* the resolver in use
  feed,            \* the resolver whose discovery updates its balancer
  inRegistry,      \* loadBalancerRegistry has the balancer
  edits,           \* changes made so far
  touched,         \* history: addInstance or removeInstance since the last update
  tally            \* history: picks of each since the members last changed

balancerVars == <<strategy, members, currentIndex, connectionCounts, weights,
                  currentWeights, ring, offers, generation, feed, inRegistry, edits, touched, tally>>

\* Two nodes with one hash would make the ring depend on the order of the list.
OptionsOK ==
  /\ Weight \in [Ids -> Nat \ {0}]
  /\ \A i, j \in Ids : i # j => VirtualNodes[i] \cap VirtualNodes[j] = {}

\* A discovery can be given to all but the consistent-hash balancer: the base
\* constructor calls its rebuildRing before the ring exists, which throws.
Watching == strategy # "consistent-hash"

Strategies == {"round-robin", "weighted-round-robin", "least-connections", "p2c",
               "consistent-hash", "random", "ip-hash"}
Members == ToSet(members)
NoPicks == [i \in Ids |-> 0]

\* The weight pick() uses: a member added by hand counts 1 until the next update.
WeightOf(i) == IF i \in weights THEN Weight[i] ELSE 1
TotalWeight == MapThenSumSet(WeightOf, Members)

Init ==
  /\ strategy \in Strategies
  /\ members = <<>> /\ currentIndex = 0
  /\ connectionCounts = NoPicks /\ weights = {} /\ currentWeights = NoPicks
  /\ ring = {}
  /\ offers = [g \in 1 .. MaxGenerations |-> {}]
  /\ generation = 1 /\ feed = 1 /\ inRegistry = TRUE
  /\ edits = 0 /\ touched = FALSE /\ tally = NoPicks
Edit == edits < MaxEdits /\ edits' = edits + 1

RingOf(list) == UNION {VirtualNodes[i] \X {i} : i \in list}

UpdateByAppending(list) ==  \* faulty: the list is added to the members
  /\ members' = members \o SetToSeq(list)
  /\ touched' = FALSE /\ tally' = NoPicks
  /\ UNCHANGED <<weights, currentWeights, ring>>

\* The members become the list; the weighted balancer starts its members afresh,
\* the consistent-hash one builds its ring anew.
UpdateInstances(list) ==
  /\ members' = SetToSeq(list)
  /\ IF strategy = "weighted-round-robin"
     THEN /\ weights' = weights \cup list
          /\ currentWeights' = [i \in Ids |-> IF i \in list THEN 0 ELSE currentWeights[i]]
     ELSE UNCHANGED <<weights, currentWeights>>
  /\ ring' = IF strategy = "consistent-hash" THEN RingOf(list) ELSE ring
  /\ touched' = FALSE /\ tally' = NoPicks

\* The callback given to discovery.watch().
Publish(g, list) ==
  /\ Watching /\ list # offers[g] /\ Edit
  /\ offers' = [offers EXCEPT ![g] = list]
  /\ IF g = feed THEN UpdateInstances(list)
     ELSE UNCHANGED <<members, weights, currentWeights, ring, touched, tally>>
  /\ UNCHANGED <<strategy, currentIndex, connectionCounts, generation, feed, inRegistry>>

UpdateByHand(list) ==
  /\ ~Watching /\ list # Members /\ Edit
  /\ UpdateInstances(list)
  /\ UNCHANGED <<strategy, currentIndex, connectionCounts, offers, generation, feed, inRegistry>>

\* addInstance and removeInstance know nothing of weights and ring.
AddInstance(i) ==
  /\ i \notin Members /\ Edit
  /\ members' = Append(members, i)
  /\ touched' = TRUE /\ tally' = NoPicks
  /\ UNCHANGED <<strategy, currentIndex, connectionCounts, weights, currentWeights, ring,
                 offers, generation, feed, inRegistry>>

RemoveInstance(i) ==
  /\ i \in Members /\ Edit
  /\ members' = Remove(members, i)
  /\ connectionCounts' = [connectionCounts EXCEPT ![i] = 0]
  /\ touched' = TRUE /\ tally' = NoPicks
  /\ UNCHANGED <<strategy, currentIndex, weights, currentWeights, ring,
                 offers, generation, feed, inRegistry>>

\* Every balancer counts a pick as a connection; nothing ever counts one down.
Picked(i) ==
  /\ SumFunction(connectionCounts) < MaxPicks
  /\ connectionCounts' = [connectionCounts EXCEPT ![i] = @ + 1]
  /\ tally' = [tally EXCEPT ![i] = @ + 1]
  /\ UNCHANGED <<strategy, members, weights, ring, offers, generation, feed, inRegistry, edits, touched>>

PickRoundRobin ==
  /\ strategy = "round-robin" /\ members # <<>>
  /\ Picked(members[(currentIndex % Len(members)) + 1])
  /\ currentIndex' = (currentIndex + 1) % Len(members)
  /\ UNCHANGED currentWeights

PickUnpaid ==  \* faulty: the one taken does not pay the total
  LET grown == [i \in Ids |-> currentWeights[i] + IF i \in Members THEN WeightOf(i) ELSE 0]
      best == Max({grown[i] : i \in Members} \cup {-1})
  IN  /\ strategy = "weighted-round-robin" /\ members # <<>>
      /\ currentWeights' = grown
      /\ Picked(SelectSeq(members, LAMBDA m : grown[m] = best)[1])
      /\ UNCHANGED currentIndex

\* Each member's current weight grows by its weight; the first with the largest
\* one is taken and pays the total.  All of them below zero: nobody is taken.
PickWeighted ==
  LET grown == [i \in Ids |-> currentWeights[i] + IF i \in Members THEN WeightOf(i) ELSE 0]
      best == Max({grown[i] : i \in Members} \cup {-1})
  IN  /\ strategy = "weighted-round-robin" /\ members # <<>>
      /\ IF best = -1
         THEN /\ currentWeights' = grown
              /\ UNCHANGED <<strategy, members, connectionCounts, weights, ring, offers,
                             generation, feed, inRegistry, edits, touched, tally>>
         ELSE LET i == SelectSeq(members, LAMBDA m : grown[m] = best)[1]
              IN  /\ currentWeights' = [grown EXCEPT ![i] = @ - TotalWeight]
                  /\ Picked(i)
      /\ UNCHANGED currentIndex

PickLeast ==
  LET least == Min({connectionCounts[i] : i \in Members})
  IN  /\ strategy = "least-connections" /\ members # <<>>
      /\ Picked(SelectSeq(members, LAMBDA m : connectionCounts[m] = least)[1])
      /\ UNCHANGED <<currentIndex, currentWeights>>

\* Two random members are compared by their counts, or there is only one.
PickTwoRandom ==
  /\ strategy = "p2c"
  /\ \E a, b \in Members :
       /\ a = b => Len(members) = 1
       /\ Picked(IF connectionCounts[a] <= connectionCounts[b] THEN a ELSE b)
  /\ UNCHANGED <<currentIndex, currentWeights>>

\* The first node at or after the hash, or the first of all.
OnRing(nodes, hash) ==
  LET after == {n \in nodes : n[1] >= hash}
      from == IF after = {} THEN nodes ELSE after
  IN  (CHOOSE n \in from : \A m \in from : n[1] <= m[1])[2]

PickConsistentHash(hash) ==
  /\ strategy = "consistent-hash" /\ ring # {}
  /\ Picked(OnRing(ring, hash))
  /\ UNCHANGED <<currentIndex, currentWeights>>

PickIPHash(hash) ==
  /\ strategy = "ip-hash" /\ members # <<>>
  /\ Picked(members[(hash % Len(members)) + 1])
  /\ UNCHANGED <<currentIndex, currentWeights>>

PickRandom ==
  /\ strategy = "random"
  /\ \E i \in Members : Picked(i)
  /\ UNCHANGED <<currentIndex, currentWeights>>

\* ResolverRegistry.remove and create; createLoadBalancer takes the balancer of
\* that name if there is one, whatever discovery it was made with.
RecreateResolver ==
  /\ Watching /\ generation < MaxGenerations
  /\ generation' = generation + 1
  /\ IF inRegistry
     THEN UNCHANGED <<members, currentIndex, connectionCounts, weights, currentWeights,
                      ring, feed, inRegistry, touched, tally>>
     ELSE /\ members' = <<>> /\ currentIndex' = 0 /\ connectionCounts' = NoPicks
          /\ weights' = {} /\ currentWeights' = NoPicks /\ ring' = {}
          /\ feed' = generation + 1 /\ inRegistry' = TRUE
          /\ touched' = FALSE /\ tally' = NoPicks
  /\ UNCHANGED <<strategy, offers, edits>>

RemoveBalancer ==
  /\ Watching /\ inRegistry /\ generation < MaxGenerations
  /\ inRegistry' = FALSE
  /\ UNCHANGED <<strategy, members, currentIndex, connectionCounts, weights, currentWeights,
                 ring, offers, generation, feed, edits, touched, tally>>

Next ==
  \/ \E list \in SUBSET Ids :
       \/ UpdateByHand(list)
       \/ \E g \in 1 .. generation : Publish(g, list)
  \/ \E i \in Ids : AddInstance(i) \/ RemoveInstance(i)
  \/ PickRoundRobin \/ PickWeighted \/ PickLeast \/ PickTwoRandom \/ PickRandom
  \/ \E hash \in KeyHashes : PickConsistentHash(hash) \/ PickIPHash(hash)
  \/ RecreateResolver \/ RemoveBalancer

Spec == Init /\ [][Next]_balancerVars
-----------------------------------------------------------------------------
TypeOK ==
  /\ strategy \in Strategies
  /\ Members \subseteq Ids /\ IsInjective(members) /\ weights \subseteq Ids
  /\ currentIndex \in Nat /\ {connectionCounts, tally} \subseteq [Ids -> 0 .. MaxPicks]
  /\ currentWeights \in [Ids -> Int]
  /\ ring \subseteq RingOf(Ids)
  /\ feed \in 1 .. generation /\ {inRegistry, touched} \subseteq BOOLEAN

\* Shares of the picks since the members last changed.  Round robin: none is two
\* picks ahead of another.  Weighted, unless changed by hand: never a whole round
\* off the share of its weight, so that each round is exact.  Least connections:
\* one picked is not two ahead of any.
FairShares ==
  \A i, j \in Members :
    /\ strategy = "round-robin" => tally[i] <= tally[j] + 1
    /\ strategy = "weighted-round-robin" /\ ~touched =>
         LET ahead == tally[i] * TotalWeight - SumFunction(tally) * WeightOf(i)
         IN  -TotalWeight < ahead /\ ahead < TotalWeight
    /\ strategy = "least-connections" /\ tally[i] > 0 =>
         connectionCounts[i] <= connectionCounts[j] + 1

\* The balancer has the list of the discovery it was made with, which need not be
\* that of the resolver in use; only changes by hand set it apart.
FollowsItsDiscovery == Watching /\ ~touched => Members = offers[feed]

\* Consistent hashing: when the ring changes, a key moves only from an instance
\* that has gone or to one that is new.
FewKeysMove ==
  [][\A hash \in KeyHashes :
       ring # {} /\ ring' # {} =>
         LET old == OnRing(ring, hash)
             new == OnRing(ring', hash)
         IN  old = new \/ old \notin Members' \/ new \notin {n[2] : n \in ring}]_balancerVars
=============================================================================
