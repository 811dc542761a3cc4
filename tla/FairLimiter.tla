---------------------------- MODULE FairLimiter ----------------------------
(***************************************************************************)
(* What every concurrency limiter of the framework promises: at most K     *)
(* clients are inside, a free slot is never left idle while somebody       *)
(* waits, and a slot that is given back goes to whoever has waited         *)
(* longest.  Semaphore and Mutex are shown to implement this               *)
(* specification; nothing here is taken from one of them in particular.    *)
(***************************************************************************)
EXTENDS Naturals, Sequences, FiniteSets, Functions

CONSTANTS Clients,  \* whoever competes for the slots
          K         \* the number of slots

VARIABLES inside,   \* the clients that own a slot
          line      \* the clients that wait, the oldest first

vars == <<inside, line>>

Init ==
  /\ inside = {}
  /\ line = <<>>

\* A client that finds a free slot takes it; nobody is in line then.
Enter(c) ==
  /\ c \notin inside \cup Range(line)
  /\ Cardinality(inside) < K
  /\ line = <<>>
  /\ inside' = inside \cup {c}
  /\ UNCHANGED line

\* A client that finds every slot taken joins the line at its end.
Queue(c) ==
  /\ c \notin inside \cup Range(line)
  /\ Cardinality(inside) = K
  /\ line' = Append(line, c)
  /\ UNCHANGED inside

\* A client leaves and its slot stays free, since nobody waits for it.
Leave(c) ==
  /\ c \in inside
  /\ line = <<>>
  /\ inside' = inside \ {c}
  /\ UNCHANGED line

\* A client leaves and its slot passes to the head of the line.
HandOver(c) ==
  /\ c \in inside
  /\ line # <<>>
  /\ inside' = (inside \ {c}) \cup {Head(line)}
  /\ line' = Tail(line)

Next == \E c \in Clients : Enter(c) \/ Queue(c) \/ Leave(c) \/ HandOver(c)

\* Nobody stays inside for ever.
Fairness == \A c \in Clients : WF_vars(Leave(c) \/ HandOver(c))

SafeSpec == Init /\ [][Next]_vars
Spec == SafeSpec /\ Fairness
=============================================================================
