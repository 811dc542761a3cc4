------------------------------- MODULE SqlStore -------------------------------
(***************************************************************************)
(* The transactions of SqlStore (packages/store) over a pool of            *)
(* connections and a PostgreSQL server.  What pool and server do is not in *)
(* the repository: a pool hands out an idle client, release() takes it     *)
(* back or throws if it is not out; a server ends the transaction of the   *)
(* session at COMMIT or ROLLBACK, and answers the COMMIT of a transaction  *)
(* in which a query has failed by rolling it back.                         *)
(***************************************************************************)
EXTENDS FiniteSets

CONSTANTS Calls, Clients, NoClient

VARIABLES
  connected, ending,  \* of the store; of its pool
  out,        \* the clients that are handed out
  broken,     \* the clients whose connection is lost
  session,    \* of each client at the server: what it is in, and who has written in it
  committed,  \* the calls whose writes last
  phase, client, outcome,  \* of each call of transaction()
  wrote, swallowed, lost,  \* calls with writes; that ignored a failed query; whose COMMIT got no answer
  byHand      \* calls whose function has called commit() or rollback() itself

poolVars == <<ending, out>>
serverVars == <<broken, session, committed>>
callVars == <<phase, client, outcome, wrote, swallowed, lost, byHand>>
storeVars == <<connected, poolVars, serverVars, callVars>>

NoSession == [state |-> "none", writes |-> {}]

Init ==
  /\ connected = FALSE /\ ending = FALSE /\ out = {} /\ broken = {} /\ committed = {}
  /\ session = [c \in Clients |-> NoSession]
  /\ phase = [t \in Calls |-> "none"] /\ client = [t \in Calls |-> NoClient]
  /\ outcome = [t \in Calls |-> "none"]
  /\ wrote = {} /\ swallowed = {} /\ lost = {} /\ byHand = {}

Go(t, next) == phase' = [phase EXCEPT ![t] = next]
End(t, result) == Go(t, "over") /\ outcome' = [outcome EXCEPT ![t] = result]
InSession(t) == session[client[t]]
SetSession(t, state, writes) == session' = [session EXCEPT ![client[t]] = [state |-> state, writes |-> writes]]
Works(t) == client[t] \notin broken

\* A query fails, and the connection with it or not.
Breaks(t) == broken' = broken \cup {client[t]} /\ session' = [session EXCEPT ![client[t]] = NoSession]

connect ==
  /\ ~connected /\ ~ending /\ connected' = TRUE
  /\ UNCHANGED <<poolVars, serverVars, callVars>>

\* pool.end() stops handing out clients and waits for those that are out; it is then
\* that the store is not connected.
close ==
  /\ connected /\ ~ending /\ ending' = TRUE
  /\ UNCHANGED <<connected, out, serverVars, callVars>>

Closed ==
  /\ connected /\ ending /\ out = {} /\ connected' = FALSE
  /\ UNCHANGED <<poolVars, serverVars, callVars>>

beginTransaction(t) ==
  /\ phase[t] = "none"
  /\ IF connected /\ ~ending THEN Go(t, "connecting") /\ outcome' = outcome ELSE End(t, "error")
  /\ UNCHANGED <<connected, poolVars, serverVars, client, wrote, swallowed, lost, byHand>>

\* The pool has a client, or the call has waited for connectionTimeoutMs.
PoolConnect(t) ==
  /\ phase[t] = "connecting"
  /\ \/ /\ ~ending
        /\ \E c \in Clients \ out : out' = out \cup {c} /\ client' = [client EXCEPT ![t] = c]
        /\ Go(t, "begin") /\ outcome' = outcome
     \/ End(t, "error") /\ UNCHANGED <<out, client>>
  /\ UNCHANGED <<connected, ending, serverVars, wrote, swallowed, lost, byHand>>

\* When BEGIN fails nobody has the client any more, nor releases it.
Begin(t) ==
  /\ phase[t] = "begin"
  /\ \/ Works(t) /\ SetSession(t, "open", {}) /\ Go(t, "fn") /\ UNCHANGED <<outcome, broken>>
     \/ Breaks(t) /\ End(t, "error")
  /\ UNCHANGED <<connected, poolVars, committed, client, wrote, swallowed, lost, byHand>>

\* A write by the function.  Out of a transaction it lasts at once.
Write(t) ==
  /\ phase[t] = "fn" /\ Works(t) /\ t \notin wrote
  /\ CASE InSession(t).state = "open" -> SetSession(t, "open", InSession(t).writes \cup {t}) /\ committed' = committed
       [] InSession(t).state = "none" -> committed' = committed \cup {t} /\ session' = session
       [] OTHER -> FALSE
  /\ wrote' = wrote \cup {t}
  /\ UNCHANGED <<connected, poolVars, broken, phase, client, outcome, swallowed, lost, byHand>>

\* A query fails.  The function throws, or goes on as if nothing had happened.
QueryFails(t) ==
  /\ phase[t] = "fn" /\ t \notin swallowed
  /\ \/ Breaks(t)
     \/ /\ Works(t) /\ broken' = broken
        /\ IF InSession(t).state = "open" THEN SetSession(t, "aborted", {}) ELSE session' = session
  /\ \/ Go(t, "rollback") /\ swallowed' = swallowed
     \/ swallowed' = swallowed \cup {t} /\ phase' = phase
  /\ UNCHANGED <<connected, poolVars, committed, client, outcome, wrote, lost, byHand>>

FnEnds(t) ==
  /\ phase[t] = "fn" /\ (Go(t, "commit") \/ Go(t, "rollback"))
  /\ UNCHANGED <<connected, poolVars, serverVars, client, outcome, wrote, swallowed, lost, byHand>>

\* The function ends the transaction itself, which transaction() does not notice.
ByHand(t) ==
  /\ phase[t] = "fn" /\ Works(t) /\ client[t] \in out /\ t \notin byHand /\ byHand' = byHand \cup {t}
  /\ \/ committed' = committed \cup InSession(t).writes
     \/ committed' = committed
  /\ SetSession(t, "none", {}) /\ out' = out \ {client[t]}
  /\ UNCHANGED <<connected, ending, broken, phase, client, outcome, wrote, swallowed, lost>>

\* COMMIT is done, and the client goes back; or it is back already, and release throws.
Commit(t) ==
  /\ phase[t] = "commit" /\ Works(t)
  /\ committed' = committed \cup InSession(t).writes
  /\ SetSession(t, "none", {})
  /\ IF client[t] \in out THEN End(t, "ok") /\ out' = out \ {client[t]}
     ELSE Go(t, "rollback") /\ UNCHANGED <<outcome, out>>
  /\ UNCHANGED <<connected, ending, broken, client, wrote, swallowed, lost, byHand>>

\* COMMIT fails: refused by the server, or the connection is lost before or after the
\* server has done it.
CommitFails(t) ==
  /\ phase[t] = "commit" /\ Go(t, "rollback")
  /\ \/ Works(t) /\ SetSession(t, "none", {}) /\ UNCHANGED <<broken, committed, lost>>
     \/ /\ Breaks(t) /\ lost' = IF Works(t) THEN lost \cup {t} ELSE lost
        /\ \/ committed' = committed
           \/ Works(t) /\ committed' = committed \cup InSession(t).writes
  /\ UNCHANGED <<connected, poolVars, client, outcome, wrote, swallowed, byHand>>

RollbackForgives(t) ==  \* faulty: the error is not thrown again
  /\ phase[t] = "rollback" /\ UNCHANGED committed
  /\ Works(t) /\ SetSession(t, "none", {}) /\ broken' = broken /\ out' = out \ {client[t]}
  /\ End(t, "ok")
  /\ UNCHANGED <<connected, ending, client, wrote, swallowed, lost, byHand>>

\* When ROLLBACK fails, the client is not released, and its error is the one thrown.
Rollback(t) ==
  /\ phase[t] = "rollback" /\ UNCHANGED committed
  /\ \/ Works(t) /\ SetSession(t, "none", {}) /\ broken' = broken /\ out' = out \ {client[t]}
     \/ Breaks(t) /\ out' = out
  /\ End(t, "error")
  /\ UNCHANGED <<connected, ending, client, wrote, swallowed, lost, byHand>>

Next ==
  \/ connect \/ close \/ Closed
  \/ \E t \in Calls : \/ beginTransaction(t) \/ PoolConnect(t) \/ Begin(t) \/ Write(t)
                      \/ QueryFails(t) \/ FnEnds(t) \/ ByHand(t) \/ Commit(t) \/ CommitFails(t)
                      \/ Rollback(t)

Spec == Init /\ [][Next]_storeVars
-----------------------------------------------------------------------------
Phases == {"none", "connecting", "begin", "fn", "commit", "rollback", "over"}
Holding == {t \in Calls : phase[t] \in {"begin", "fn", "commit", "rollback"}}

TypeOK ==
  /\ {connected, ending} \subseteq BOOLEAN /\ out \cup broken \subseteq Clients
  /\ \A c \in Clients : session[c].state \in {"none", "open", "aborted"} /\ session[c].writes \subseteq Calls
  /\ \A t \in Calls : /\ phase[t] \in Phases /\ client[t] \in Clients \cup {NoClient}
                      /\ outcome[t] \in {"none", "ok", "error"}
  /\ committed \subseteq wrote /\ wrote \cup swallowed \cup lost \cup byHand \subseteq Calls

\* transaction() resolves only if what its function wrote lasts, and throws only if it
\* does not: but for a COMMIT whose answer was lost, a function that went on after a
\* failed query, and one that ended a transaction itself.
ResultsAreTrue ==
  byHand = {} =>
    \A t \in Calls :
      /\ outcome[t] = "ok" /\ t \in wrote \ swallowed => t \in committed
      /\ outcome[t] = "error" /\ t \notin lost => t \notin committed

\* While no function ends a transaction itself, no two transactions are on the same
\* client, nobody's writes are in another's session, and a client that is out is in use
\* or its connection was lost on the way: who fails with the connection in order has
\* given it back.
ClientsReturn ==
  byHand = {} =>
    /\ \A t, u \in Holding : client[t] = client[u] => t = u
    /\ \A t \in Holding : InSession(t).writes \subseteq {t}
    /\ out = {client[t] : t \in Holding} \cup broken
===============================================================================
