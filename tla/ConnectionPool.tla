--------------------------- MODULE ConnectionPool ---------------------------
(***************************************************************************)
(* The ConnectionPool class of packages/rpc.  createConnection() registers *)
(* an idle connection and returns through a promise, so acquire(), scale() *)
(* and the initialisation go on in a later microtask: "creating", toInit   *)
(* and toAdd are those that have one pending.  Timers (the cleanup and the *)
(* polls of waiting clients) only run when no microtask is pending.        *)
(*                                                                         *)
(* Connections are numbered in the order of creation, which is the order   *)
(* of the Map.  Clock readings are replaced by a choice of the connections *)
(* that have been idle or alive for too long.                              *)
(***************************************************************************)
EXTENDS Naturals, FiniteSets, FiniteSetsExt

CONSTANTS Clients,
          MinConnections,
          MaxConnections,
          MaxCreated      \* bound: how many connections are ever created

\* The options that a pool is made with.
OptionsOK ==
  /\ MinConnections \in Nat \ {0}
  /\ MaxConnections \in Nat /\ MaxConnections >= MinConnections
  /\ MaxCreated \in Nat /\ MaxCreated >= MinConnections

VARIABLES conns,    \* the state of each connection
          created,  \* history: how many were created
          phase,    \* where each client is
          conn,     \* the connection it is given or holds, 0 for none
          toInit,   \* what initializePool has still to create
          toAdd,    \* what scale has still to create
          open      \* the cleanup interval has not been cleared by close()

vars == <<conns, created, phase, conn, toInit, toAdd, open>>

Ids == 1..MaxCreated
InState(s) == {i \in Ids : conns[i] = s}
Idle == InState("idle")
Present == InState("idle") \cup InState("busy")   \* the entries of connections
Size == Cardinality(Present)

NoMicrotask == toInit = 0 /\ toAdd = 0 /\ \A c \in Clients : phase[c] # "creating"

\* The constructor has created one connection when it returns.
Init ==
  /\ conns = [i \in Ids |-> IF i = 1 THEN "idle" ELSE "none"]
  /\ created = 1
  /\ phase = [c \in Clients |-> "outside"]
  /\ conn = [c \in Clients |-> 0]
  /\ toInit = MinConnections - 1
  /\ toAdd = 0
  /\ open = TRUE

-----------------------------------------------------------------------------
\* createConnection(), up to the return of its promise.
Create ==
  /\ created < MaxCreated
  /\ created' = created + 1
  /\ conns' = [conns EXCEPT ![created + 1] = "idle"]

CloseAll(ids) == conns' = [i \in Ids |-> IF i \in ids THEN "closed" ELSE conns[i]]

\* The scan of acquire() and of the polls: the first idle connection is taken.
Take(c) ==
  /\ Idle # {}
  /\ conns' = [conns EXCEPT ![Min(Idle)] = "busy"]
  /\ phase' = [phase EXCEPT ![c] = "holding"]
  /\ conn' = [conn EXCEPT ![c] = Min(Idle)]
  /\ UNCHANGED <<created, toInit, toAdd, open>>

\* acquire() below the limit: the connection is idle while the client waits
\* for the promise of createConnection().
TakeNew(c) ==
  /\ Idle = {} /\ Size < MaxConnections
  /\ Create
  /\ phase' = [phase EXCEPT ![c] = "creating"]
  /\ conn' = [conn EXCEPT ![c] = created + 1]
  /\ UNCHANGED <<toInit, toAdd, open>>

StartPolling(c) ==
  /\ Idle = {} /\ Size >= MaxConnections
  /\ phase' = [phase EXCEPT ![c] = "polling"]
  /\ UNCHANGED <<conns, created, conn, toInit, toAdd, open>>

Acquire(c) == phase[c] = "outside" /\ (Take(c) \/ TakeNew(c) \/ StartPolling(c))

\* The rest of acquire(): the connection is marked whatever its state is by
\* now; if it is gone, acquire() throws.
FinishAcquire(c) ==
  /\ phase[c] = "creating"
  /\ \/ /\ conn[c] \in Present
        /\ conns' = [conns EXCEPT ![conn[c]] = "busy"]
        /\ phase' = [phase EXCEPT ![c] = "holding"]
        /\ UNCHANGED conn
     \/ /\ conn[c] \notin Present
        /\ phase' = [phase EXCEPT ![c] = "outside"]
        /\ conn' = [conn EXCEPT ![c] = 0]
        /\ UNCHANGED conns
  /\ UNCHANGED <<created, toInit, toAdd, open>>

\* The timer of a client that waits; when nothing is idle it is armed again.
Poll(c) ==
  /\ phase[c] = "polling"
  /\ NoMicrotask
  /\ Take(c)

\* release(): the connection becomes idle if it is still there.
Release(c) ==
  /\ phase[c] = "holding"
  /\ conns' = [conns EXCEPT ![conn[c]] = IF conn[c] \in Present THEN "idle" ELSE @]
  /\ phase' = [phase EXCEPT ![c] = "outside"]
  /\ conn' = [conn EXCEPT ![c] = 0]
  /\ UNCHANGED <<created, toInit, toAdd, open>>

\* One more round of the loop of initializePool, which asks for no limit.
InitStep ==
  /\ toInit > 0
  /\ Create
  /\ toInit' = toInit - 1
  /\ UNCHANGED <<phase, conn, toAdd, open>>

\* scale() to a larger size: what is to be added is computed once.  One call of
\* scale() that adds is under way at a time.
ScaleUp(target) ==
  /\ toAdd = 0
  /\ target > Size /\ Size < MaxConnections
  /\ Create
  /\ toAdd' = Min({target - Size, MaxConnections - Size}) - 1
  /\ UNCHANGED <<phase, conn, toInit, open>>

ScaleStep ==
  /\ toAdd > 0
  /\ Create
  /\ toAdd' = toAdd - 1
  /\ UNCHANGED <<phase, conn, toInit, open>>

\* The k first of a set of connections, in the order of the Map.
First(k, ids) == {i \in ids : Cardinality({j \in ids : j < i}) < k}

\* scale() to a smaller size: idle connections go first, then busy ones.
ScaleDown(target) ==
  /\ target < Size
  /\ LET idle == First(Size - target, Idle)
         busy == First((Size - target) - Cardinality(idle), InState("busy"))
     IN  CloseAll(idle \cup busy)
  /\ UNCHANGED <<created, phase, conn, toInit, toAdd, open>>

\* The cleanup timer: connections past their lifetime are closed, busy or not;
\* those idle for too long are closed while there are more than the minimum.
Cleanup ==
  /\ open /\ NoMicrotask
  /\ \E old \in SUBSET Present, unused \in SUBSET Idle :
       /\ \A i \in unused \ old :
            Size - Cardinality({j \in old \cup unused : j < i}) > MinConnections
       /\ CloseAll(old \cup unused)
  /\ UNCHANGED <<created, phase, conn, toInit, toAdd, open>>

\* close()
Close ==
  /\ CloseAll(Present)
  /\ open' = FALSE
  /\ UNCHANGED <<created, phase, conn, toInit, toAdd>>

Next ==
  \/ \E c \in Clients : Acquire(c) \/ FinishAcquire(c) \/ Poll(c) \/ Release(c)
  \/ \E target \in 0..(MaxConnections + 1) : ScaleUp(target) \/ ScaleDown(target)
  \/ InitStep \/ ScaleStep \/ Cleanup \/ Close

Spec == Init /\ [][Next]_vars

-----------------------------------------------------------------------------
TypeOK ==
  /\ conns \in [Ids -> {"none", "idle", "busy", "closed"}]
  /\ created \in 1..MaxCreated
  /\ \A i \in Ids : conns[i] = "none" <=> i > created
  /\ phase \in [Clients -> {"outside", "creating", "polling", "holding"}]
  /\ conn \in [Clients -> 0..created]
  /\ \A c \in Clients : conn[c] = 0 <=> phase[c] \in {"outside", "polling"}
  /\ toInit \in 0..MinConnections /\ toAdd \in 0..MaxConnections
  /\ open \in BOOLEAN

\* No connection is lost to the pool: one that is marked busy is in the hands
\* of some client, also when two clients were given it.
BusyMeansHeld == \A i \in InState("busy") : \E c \in Clients : phase[c] = "holding" /\ conn[c] = i

\* A connection that cleanup, scale() or close() has closed is never used again:
\* no late release brings it back, and no client is given it after its await.
ClosedForGood ==
  [][/\ \A i \in Ids : conns[i] = "closed" => conns'[i] = "closed"
     /\ \A c \in Clients :
          phase'[c] = "holding" /\ phase[c] # "holding" => conns'[conn'[c]] = "busy"]_vars

\* However acquire(), the initialisation and scale() interleave, the pool
\* exceeds its maximum by no more than what the two loops, which do not ask
\* again, may have left to create.
OvershootBounded ==
  Size + toInit + toAdd <= MaxConnections + (MinConnections - 1) + (MaxConnections - 1)

\* What acquire() promises: it finds an idle connection, so that no two clients
\* hold the same.
HandedOutOnce ==
  \A c, d \in Clients :
    c # d /\ phase[c] = "holding" /\ phase[d] = "holding" => conn[c] # conn[d]
=============================================================================
