---------------------------- MODULE TimeoutBudget ----------------------------
(***************************************************************************)
(* Deadlines and the timeout budget of packages/resilience: a chain of     *)
(* services, each of which makes the deadline of the next call from its    *)
(* own, in place (createDownstream) or from the headers it was sent        *)
(* (fromHeaders), which name the time that was left when they were         *)
(* written, not the moment it ends.  Time is counted in ticks; a timer     *)
(* comes when its time has come, or later.  (_expired remembers that the   *)
(* time has passed, which makes no difference to a clock that only goes    *)
(* forward.)                                                               *)
(***************************************************************************)
EXTENDS Integers, Sequences, FiniteSetsExt

CONSTANTS
  MaxDeadlines,  \* a bound
  Timeouts,      \* timeoutMs of the first one
  Buffer,        \* bufferMs of createDownstream
  HeaderBuffer,  \* bufferMs of fromHeaders
  MaxTransit, MaxNow  \* bounds

VARIABLES
  now,
  deadlines,  \* the deadlines made, in order
  tracked,    \* those the budget of the first service knows of
  headers,    \* the headers that are under way
  racing      \* the deadlines whose race() is pending

budgetVars == <<now, deadlines, tracked, headers, racing>>

OptionsOK ==
  /\ \A n \in Timeouts \cup {HeaderBuffer, MaxTransit, MaxNow, MaxDeadlines} : n \in Nat
  /\ Buffer \in Nat \ {0}

NoParent == 0
NoHeaders == [from |-> NoParent, remaining |-> 0, cascade |-> 0, age |-> 0]

Init ==
  /\ now = 0 /\ deadlines = <<>> /\ tracked = {} /\ headers = NoHeaders /\ racing = {}

Made == DOMAIN deadlines
Latest == Len(deadlines) + 1  \* the one that is made next
Positive(n) == IF n > 0 THEN n ELSE 0

remainingMs(d) == Positive(deadlines[d].expiresAt - now)
isExpired(d) == now >= deadlines[d].expiresAt

\* transit: the time that the headers it comes from were under way.
New(timeout, parent, remote, transit, cascade) ==
  /\ Latest <= MaxDeadlines
  /\ deadlines' = Append(deadlines,
       [expiresAt |-> now + timeout, parent |-> parent, remote |-> remote,
        transit |-> transit, cascade |-> cascade])

Create(timeout) ==
  /\ Made = {}
  /\ New(timeout, NoParent, FALSE, 0, 0)
  /\ tracked' = {Latest}
  /\ UNCHANGED <<now, headers, racing>>

DownstreamUnbuffered(p) ==  \* faulty: the buffer is not taken off
  /\ p \in Made /\ remainingMs(p) > Buffer
  /\ New(remainingMs(p), p, FALSE, 0, deadlines[p].cascade + 1)
  /\ tracked' = IF p \in tracked THEN tracked \cup {Latest} ELSE tracked
  /\ UNCHANGED <<now, headers, racing>>

\* createDownstream throws when the buffer is all that is left.  That of the budget
\* is for deadlines it knows of, and tracks the new one.
CreateDownstream(p) ==
  /\ p \in Made /\ remainingMs(p) > Buffer
  /\ New(remainingMs(p) - Buffer, p, FALSE, 0, deadlines[p].cascade + 1)
  /\ \/ tracked' = tracked
     \/ p \in tracked /\ tracked' = tracked \cup {Latest}
  /\ UNCHANGED <<now, headers, racing>>

ToHeaders(p) ==
  /\ p \in Made /\ headers = NoHeaders
  /\ headers' = [from |-> p, remaining |-> remainingMs(p), cascade |-> deadlines[p].cascade, age |-> 0]
  /\ UNCHANGED <<now, deadlines, tracked, racing>>

\* The receiver may find that it has no time left, which the middleware answers
\* with 504.
FromHeaders ==
  /\ headers # NoHeaders
  /\ New(Positive(headers.remaining - HeaderBuffer), headers.from, TRUE, headers.age,
         headers.cascade + 1)
  /\ headers' = NoHeaders
  /\ UNCHANGED <<now, tracked, racing>>

\* getOrCreateFromHeaders of the budget that knows the id, which every hop by headers
\* keeps: the deadline is found, and none is made.  Or the headers are lost.
FindTracked ==
  /\ headers # NoHeaders /\ headers' = NoHeaders
  /\ UNCHANGED <<now, deadlines, tracked, racing>>

\* race() throws when there is no time left.
Race(d) ==
  /\ d \in Made \ racing /\ ~isExpired(d)
  /\ racing' = racing \cup {d}
  /\ UNCHANGED <<now, deadlines, tracked, headers>>

\* The promise settles, or the timer comes.
RaceEnds(d) ==
  /\ d \in racing /\ racing' = racing \ {d}
  /\ UNCHANGED <<now, deadlines, tracked, headers>>

\* getRemainingBudget: the least of what is tracked, which is nothing, too, when a
\* call that is over has used its time.
RemainingBudget == IF tracked = {} THEN 0 ELSE Min({remainingMs(d) : d \in tracked})

Cleanup ==
  /\ \E d \in tracked : isExpired(d)
  /\ tracked' = {d \in tracked : ~isExpired(d)}
  /\ UNCHANGED <<now, deadlines, headers, racing>>

Tick ==
  /\ now < MaxNow /\ now' = now + 1
  /\ headers # NoHeaders => headers.age < MaxTransit
  /\ headers' = IF headers = NoHeaders THEN headers ELSE [headers EXCEPT !.age = @ + 1]
  /\ UNCHANGED <<deadlines, tracked, racing>>

Next ==
  \/ \E timeout \in Timeouts : Create(timeout)
  \/ \E d \in Made : CreateDownstream(d) \/ ToHeaders(d) \/ Race(d) \/ RaceEnds(d)
  \/ FromHeaders \/ FindTracked \/ Cleanup \/ Tick

Spec == Init /\ [][Next]_budgetVars
-----------------------------------------------------------------------------
TypeOK ==
  /\ now \in 0 .. MaxNow /\ tracked \subseteq Made /\ racing \subseteq Made
  /\ RemainingBudget \in Nat /\ \E timeout \in Timeouts \cup {0} : RemainingBudget <= timeout
  /\ \A d \in Made : deadlines[d].parent < d /\ deadlines[d].cascade < d

\* The chain shrinks: a call in the same process ends at least the buffer before the
\* call that makes it; one that comes by headers ends later than it by the time the
\* headers were under way at most, less the buffer, or at once if that is more than
\* was left.
ChainShrinks ==
  \A d \in Made : deadlines[d].parent # NoParent =>
    LET p == deadlines[d].parent
        slack == deadlines[d].transit - HeaderBuffer
    IN  IF deadlines[d].remote
        THEN deadlines[d].expiresAt <= deadlines[p].expiresAt + slack \/ isExpired(d)
        ELSE deadlines[d].expiresAt + Buffer <= deadlines[p].expiresAt

InPlace(d) == deadlines[d].parent # NoParent /\ ~deadlines[d].remote

\* The calls of the same process above a call: whatever goes on from a call to the one
\* that made it in place comes to them.
Above(d) ==
  {a \in Made \ {d} : \A chain \in SUBSET Made :
     d \in chain /\ (\A e \in chain : InPlace(e) => deadlines[e].parent \in chain) => a \in chain}

\* "If expired, all downstream calls fail fast": when a race begins, each call of the
\* same process above it has more than the buffer left, however deep it is; and no
\* deadline is made in place below one that has passed.
FailsFast ==
  [][/\ \A d \in racing' \ racing : \A a \in Above(d) : remainingMs(a) > Buffer
     /\ Latest' > Latest =>
          LET new == deadlines'[Latest]
          IN  new.parent = NoParent \/ new.remote \/ ~isExpired(new.parent)]_budgetVars
=============================================================================
