------------------------------ MODULE Services ------------------------------
(***************************************************************************)
(* The other classes whose correctness is a matter of safety alone:        *)
(* balancers, limiters, containers, and the application that starts what   *)
(* handles requests.  They share nothing, so one of them is under test in  *)
(* each behaviour ("subject").                                             *)
(***************************************************************************)
EXTENDS Naturals, TLC

CONSTANTS Subjects,                                                                               \* under test
          Ids, Weight, VirtualNodes, KeyHashes, MaxPicks, MaxEdits, MaxGenerations,               \* balancers
          Limits, Windows, Costs, Stores, SeenMax, SeenWindow, MaxTime, MaxCalls, MaxResets,      \* rate limits
          Keys, MaxEntries, Ttl, Numbers, Elements, Capacity, MaxSteps,                           \* containers
          Items, Priorities, MaxHeap,                                                             \* heaps
          Hashes, Bits, HashFunctions, MaxCounter,                                                \* filters
          ImportGraphs, RootModules, Wirings, Closers                                             \* application

VARIABLES subject,
          strategy, members, currentIndex, connectionCounts, weights, currentWeights, ring, offers,
          generation, feed, inRegistry, edits, touched, tally,
          algorithm, now, max, windowMs, window, requests, bucket, entries, turn, asked, resets, granted,
          lastAsked,
          container, ttl, accessOrder, accessIndex, element, buffer, head, size, heap, steps, used,
          added, queued, data, counters, contents, damaged,
          style, imports, wiring, order, stage, waitsFor, provided, made, served, guards, inited,
          started, closer, ended, exited

Lb == INSTANCE LoadBalancer
Rl == INSTANCE RateLimit WITH calls <- asked
Co == INSTANCE Collections WITH left <- ttl
Ap == INSTANCE Application WITH phase <- stage, at <- waitsFor

ASSUME BalancerAssumption == Lb!OptionsOK
ASSUME LimitsAssumption == Rl!OptionsOK
ASSUME ContainersAssumption == Co!OptionsOK
ASSUME ModulesAssumption == Ap!OptionsOK

balancerVars == <<strategy, members, currentIndex, connectionCounts, weights, currentWeights, ring,
                  offers, generation, feed, inRegistry, edits, touched, tally>>
limitVars == <<algorithm, now, max, windowMs, window, requests, bucket, entries, turn, asked, resets,
               granted, lastAsked>>
containerVars == <<container, ttl, accessOrder, accessIndex, element, buffer, head, size, heap, steps,
                   used, added, queued, data, counters, contents, damaged>>
applicationVars == <<style, imports, wiring, order, stage, waitsFor, provided, made, served, guards,
                     inited, started, closer, ended, exited>>

vars == <<subject, balancerVars, limitVars, containerVars, applicationVars>>

Unless(tested, option) == IF subject = tested THEN TRUE ELSE option

\* The options of the classes that are not under test do not matter.
Init ==
  /\ subject \in Subjects
  /\ Unless("LoadBalancer", strategy = "random")
  /\ Unless("RateLimit", algorithm = "fixed" /\ max = (CHOOSE limit \in Limits : TRUE)
                              /\ windowMs = CHOOSE length \in Windows : TRUE)
  /\ Unless("Collections", container = "cache")
  /\ Unless("Application", style = "http" /\ imports = (CHOOSE graph \in ImportGraphs : TRUE)
                             /\ wiring = CHOOSE wires \in Wirings : TRUE)
  /\ Lb!Init /\ Rl!Init /\ Co!Init /\ Ap!Init

BalancerStep ==
  /\ subject = "LoadBalancer" /\ Lb!Next
  /\ UNCHANGED <<subject, limitVars, containerVars, applicationVars>>

LimitStep ==
  /\ subject = "RateLimit" /\ Rl!Next
  /\ UNCHANGED <<subject, balancerVars, containerVars, applicationVars>>

ContainerStep ==
  /\ subject = "Collections" /\ Co!Next
  /\ UNCHANGED <<subject, balancerVars, limitVars, applicationVars>>

ApplicationStep ==
  /\ subject = "Application" /\ Ap!Next
  /\ UNCHANGED <<subject, balancerVars, limitVars, containerVars>>

Next == BalancerStep \/ LimitStep \/ ContainerStep \/ ApplicationStep

Spec == Init /\ [][Next]_vars
-----------------------------------------------------------------------------
(* Each property is about one subject; the others rest.                    *)

TypeOK ==
  CASE subject = "LoadBalancer" -> Lb!TypeOK
    [] subject = "RateLimit"    -> Rl!TypeOK
    [] subject = "Collections"  -> Co!TypeOK
    [] subject = "Application"  -> Ap!TypeOK

\* The balancers give each instance its share, among the instances of the discovery
\* they were made with; when the ring of the consistent one changes, few keys move.
BalancersFair ==
  /\ [](subject = "LoadBalancer" => Lb!FairShares /\ Lb!FollowsItsDiscovery)
  /\ Lb!FewKeysMove

\* No limiter grants more in a window, wherever it lies, than its algorithm allows, with
\* max more for each reset() in Redis; who has not asked for a window gets what they ask
\* for, unless it is by ioredis; and get() foretells it.
LimitsHold ==
  /\ [](subject = "RateLimit" => Rl!GrantsBounded)
  /\ Rl!RestRestores /\ Rl!AnswersForetold

\* What a container derives from its contents (order of use, index, head and size,
\* heap order, bits of a filter) always fits them.
ContainersHold ==
  subject = "Collections" =>
    Co!OrderOfUse /\ Co!RingHoldsTheLast /\ Co!HeapIsQueue /\ Co!NoFalseNegatives

\* The modules of an application come up after what they import, with one of each
\* singleton, and all go down before the process does, unless a hook throws.
UpAndDown ==
  subject = "Application" =>
    Ap!ImportsFirst /\ Ap!Wired /\ Ap!GuardsInOrder /\ Ap!ExitIsClean /\ Ap!DestroyedLast
-----------------------------------------------------------------------------
(* Instances for TLC: balanced instances of weights one and two, whose     *)
(* nodes on the ring interleave, and modules with a diamond of imports and *)
(* with two circles.                                                       *)

MCWeight == "i1" :> 1 @@ "i2" :> 2 @@ "i3" :> 1
MCNodes == "i1" :> {1, 5} @@ "i2" :> {2, 4} @@ "i3" :> {3}
MCHashes == 0 .. 6

MCNumbers == {1, 200, 40000}

MCFilterHashes == "a" :> <<0, 2>> @@ "b" :> <<1, 0>> @@ "c" :> <<4, 1>>

MCRootModules == <<"app", "users">>
MCImports ==
  {"app" :> <<"users", "db">> @@ "users" :> <<"db">> @@ "db" :> <<>>,
   "app" :> <<"users">> @@ "users" :> <<"db">> @@ "db" :> <<"users">>,
   "app" :> <<>> @@ "users" :> <<"app">> @@ "db" :> <<>>}

\* Services that need each other in turn, that two others need, that two modules provide,
\* and that nobody does; a class that needs one and is no singleton.
MCWirings ==
  LET Provider(name, sort, needed, isGuard, scope) ==
        [token |-> name, sort |-> sort, needs |-> needed, guard |-> isGuard, scope |-> scope]
      Class(name, isGuard) == Provider(name, "class", <<>>, isGuard, "singleton")
      Value(name) == Provider(name, "value", <<>>, FALSE, "singleton")
      Factory(name, needed) == Provider(name, "factory", needed, FALSE, "singleton")
      InApp(ofApp, ofUsers, ofDb) == "app" :> ofApp @@ "users" :> ofUsers @@ "db" :> ofDb
  IN  {[providers |-> InApp(<<Class("auth", TRUE)>>, <<Factory("repo", <<"pool">>)>>,
                            <<Class("limit", TRUE), Factory("pool", <<"url">>), Value("url")>>),
        controllers |-> InApp(<<<<"auth", "repo">>, <<"pool">>>>, <<<<"repo", "auth">>>>, <<>>)],
       [providers |-> InApp(<<Value("pool")>>, <<Factory("repo", <<"pool">>), Class("repo", TRUE)>>,
                            <<Factory("pool", <<"nobody">>)>>),
        controllers |-> InApp(<<<<"repo">>>>, <<<<"pool", "repo", "pool">>>>, <<>>)],
       [providers |-> InApp(<<>>, <<Factory("repo", <<"pool">>)>>, <<Factory("pool", <<"repo">>)>>),
        controllers |-> InApp(<<>>, <<<<"repo">>>>, <<>>)],
       [providers |-> InApp(<<>>, <<Factory("repo", <<"pool">>)>>, <<Provider("pool", "class", <<"nobody">>, FALSE, "transient")>>),
        controllers |-> InApp(<<>>, <<<<"repo", "pool">>>>, <<<<>>>>)],
       [providers |-> InApp(<<>>, <<>>, <<>>), controllers |-> InApp(<<>>, <<<<>>>>, <<>>)]}
=============================================================================
