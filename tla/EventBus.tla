------------------------------- MODULE EventBus -------------------------------
(***************************************************************************)
(* The EventBus of packages/event for one event, and the listeners of the  *)
(* ConfigCenter of packages/governance for one key, which are the same     *)
(* loop.  A handler is called in the middle of that loop and may call the  *)
(* bus again: subscribe, unsubscribe, emit.  The loop goes over the live   *)
(* Set, so that what is deleted before its turn is not visited, and what   *)
(* is added is.                                                            *)
(* The EventSource of the same package tells everyone, too: the clients    *)
(* whose HTTP responses it keeps, until a write to one of them throws.     *)
(***************************************************************************)
EXTENDS Integers, Sequences, FiniteSets

CONSTANTS
  Handlers,
  MaxSubscriptions, MaxDepth, MaxEmits  \* bounds

VARIABLES
  role,      \* "bus", "center" or "source": which of the three classes it is
  sets,      \* each Set made: its entries in order, deleted ones included
  at,        \* the Set that the map holds, if any
  frames,    \* the loops that run, the inner one last
  emits,     \* how many events, which are their data, too: config.set(key, emits)
  heard,     \* the data that each listener of the centre, or response, got last
  ran,       \* <<set, index>> of the wrappers of once() that have been called
  streams,   \* the clients of a source by their numbers: response and whether it is kept
  gone,      \* responses that throw when they are written to
  broadcast, \* the last event that was for every client
  confused   \* an emission began or was abandoned inside another one since all was quiet

sourceVars == <<streams, gone, broadcast>>
busVars == <<role, sets, at, frames, emits, heard, ran, confused, sourceVars>>

OptionsOK == \A n \in {MaxSubscriptions, MaxDepth, MaxEmits} : n \in Nat

NoSet == 0
Never == 0  \* what is heard before anything is

Init ==
  /\ role \in {"bus", "center", "source"}
  /\ sets = <<>> /\ at = NoSet /\ frames = <<>>
  /\ emits = 0 /\ heard = [h \in Handlers |-> Never] /\ ran = {} /\ confused = FALSE
  /\ streams = <<>> /\ gone = {} /\ broadcast = Never

Live(set) == {i \in DOMAIN sets[set] : sets[set][i].live}
Current == IF at = NoSet THEN {} ELSE Live(at)
Subscribed == {sets[at][i].handler : i \in Current}

\* Who is subscribed directly, not through the wrapper of once().
EntryOf(h) == {i \in Current : sets[at][i].handler = h /\ ~sets[at][i].once}

Top == frames[Len(frames)]

\* Code that uses the bus: outside every handler, or the handler that was called last.
UserCode == role # "source" /\ (frames # <<>> => Top.inHandler)

EntryNames == UNION {{set} \X DOMAIN sets[set] : set \in DOMAIN sets}
Entries == Cardinality(EntryNames)

\* A Set is made when the map has none.  Adding what is there changes nothing.
Add(h, once) ==
  LET entry == [handler |-> h, once |-> once, live |-> TRUE]
  IN  /\ Entries < MaxSubscriptions
      /\ IF at = NoSet
         THEN sets' = Append(sets, <<entry>>) /\ at' = Len(sets) + 1
         ELSE sets' = [sets EXCEPT ![at] = Append(@, entry)] /\ at' = at

on(h) ==
  /\ UserCode /\ EntryOf(h) = {} /\ Add(h, FALSE)
  /\ UNCHANGED <<role, frames, emits, heard, ran, confused, sourceVars>>

\* A new wrapper each time.  ConfigCenter has no such thing.
once(h) ==
  /\ role = "bus" /\ UserCode /\ Add(h, TRUE)
  /\ UNCHANGED <<role, frames, emits, heard, ran, confused, sourceVars>>

\* A loop that runs no longer owes the entry its call.
Forgive(set, i) ==
  [f \in DOMAIN frames |-> IF frames[f].set = set THEN [frames[f] EXCEPT !.due = @ \ {i}] ELSE frames[f]]

DeleteShift(i) ==  \* faulty: handlers are a list, and the next one moves up
  /\ sets' = [sets EXCEPT ![at] = SubSeq(@, 1, i - 1) \o SubSeq(@, i + 1, Len(@))]
  /\ at' = IF role = "bus" /\ Current = {i} THEN NoSet ELSE at

\* off() drops the Set from the map when it is empty; removeListener() keeps it.
Delete(i) ==
  /\ sets' = [sets EXCEPT ![at][i].live = FALSE]
  /\ at' = IF role = "bus" /\ Current = {i} THEN NoSet ELSE at

\* Someone unsubscribes a handler, which finds no wrapper of once().
off(h) ==
  /\ UserCode
  /\ \E i \in EntryOf(h) : Delete(i) /\ frames' = Forgive(at, i)
  /\ UNCHANGED <<role, emits, heard, ran, confused, sourceVars>>

\* clear() drops the Set that a running loop still goes over.
clear ==
  /\ role = "bus" /\ UserCode /\ at # NoSet /\ at' = NoSet
  /\ UNCHANGED <<role, sets, frames, emits, heard, ran, confused, sourceVars>>

\* emit(), or set() and delete() of the centre, which have changed the value by then.
emit ==
  /\ UserCode /\ at # NoSet /\ emits < MaxEmits /\ Len(frames) < MaxDepth
  /\ emits' = emits + 1
  /\ frames' = Append(frames, [set |-> at, next |-> 1, data |-> emits', inHandler |-> FALSE,
                               due |-> Current])
  /\ confused' = (frames # <<>>)
  /\ UNCHANGED <<role, sets, at, heard, ran, sourceVars>>

\* The entries that the innermost loop has before it.
Ahead == {i \in Live(Top.set) : i >= Top.next}

ChangeTop(frame) == frames' = [frames EXCEPT ![Len(frames)] = frame]

\* The loop has come past entry i, and is in its handler.
Past(frame, i) == [frame EXCEPT !.next = i + 1, !.inHandler = TRUE, !.due = @ \ {i}]

UnwrapLate(i) ==  \* faulty: it unsubscribes afterwards, when a nested emit has found it
  /\ sets' = sets /\ at' = at

\* The wrapper of once() unsubscribes itself before it calls its handler: from the
\* map, where a clear() may have put another Set.
Unwrap(i) ==
  IF sets[Top.set][i].once /\ at = Top.set THEN Delete(i) ELSE UNCHANGED <<sets, at>>

call ==
  /\ frames # <<>> /\ ~Top.inHandler
  /\ \E i \in Ahead :
       /\ \A j \in Ahead : i <= j
       /\ Unwrap(i)
       /\ LET forgiven == IF sets[Top.set][i].once THEN Forgive(Top.set, i) ELSE frames
          IN  frames' = [forgiven EXCEPT ![Len(frames)] = Past(@, i)]
       /\ heard' = IF role = "center" THEN [heard EXCEPT ![sets[Top.set][i].handler] = Top.data] ELSE heard
       /\ ran' = IF sets[Top.set][i].once THEN ran \cup {<<Top.set, i>>} ELSE ran
  /\ UNCHANGED <<role, emits, confused, sourceVars>>

return ==
  /\ frames # <<>> /\ Top.inHandler
  /\ ChangeTop([Top EXCEPT !.inHandler = FALSE])
  /\ UNCHANGED <<role, sets, at, emits, heard, ran, confused, sourceVars>>

\* What a handler throws leaves the loop, into the handler that emitted, if any.
throw ==
  /\ frames # <<>> /\ Top.inHandler
  /\ frames' = SubSeq(frames, 1, Len(frames) - 1) /\ confused' = TRUE
  /\ UNCHANGED <<role, sets, at, emits, heard, ran, sourceVars>>

finish ==
  /\ frames # <<>> /\ ~Top.inHandler /\ Ahead = {}
  /\ frames' = SubSeq(frames, 1, Len(frames) - 1)
  /\ UNCHANGED <<role, sets, at, emits, heard, ran, confused, sourceVars>>

-----------------------------------------------------------------------------
(* EventSource.  A client's number is never given again. *)

Connected == {i \in DOMAIN streams : streams[i].kept}
Refusing == {i \in Connected : streams[i].response \in gone}
Without(clients) ==
  [i \in DOMAIN streams |-> [streams[i] EXCEPT !.kept = @ /\ i \notin clients]]
Hear(clients) ==
  heard' = [h \in Handlers |-> IF \E i \in clients : streams[i].response = h THEN emits' ELSE heard[h]]

\* The first write may throw, out of addClient(), and the client is not kept.
addClient(h) ==
  /\ role = "source" /\ Len(streams) < MaxSubscriptions
  /\ streams' = Append(streams, [response |-> h, kept |-> h \notin gone, since |-> emits])
  /\ UNCHANGED <<role, sets, at, frames, emits, heard, ran, confused, gone, broadcast>>

\* send() drops whom it cannot reach and goes on.
send ==
  /\ role = "source" /\ emits < MaxEmits /\ emits' = emits + 1 /\ broadcast' = emits'
  /\ streams' = Without(Refusing) /\ Hear(Connected \ Refusing)
  /\ UNCHANGED <<role, sets, at, frames, ran, confused, gone>>

sendTo(i) ==
  /\ i \in Connected /\ emits < MaxEmits /\ emits' = emits + 1
  /\ streams' = Without({i} \cap Refusing) /\ Hear({i} \ Refusing)
  /\ UNCHANGED <<role, sets, at, frames, ran, confused, gone, broadcast>>

removeClient(i) ==
  /\ i \in Connected /\ streams' = Without({i})
  /\ UNCHANGED <<role, sets, at, frames, emits, heard, ran, confused, gone, broadcast>>

\* Everyone is told that it is over, as far as they can be.
closeAll ==
  /\ Connected # {} /\ emits < MaxEmits /\ emits' = emits + 1
  /\ streams' = Without(Connected) /\ Hear(Connected \ Refusing)
  /\ UNCHANGED <<role, sets, at, frames, ran, confused, gone, broadcast>>

Disconnect(h) ==
  /\ role = "source" /\ h \notin gone /\ gone' = gone \cup {h}
  /\ UNCHANGED <<role, sets, at, frames, emits, heard, ran, confused, streams, broadcast>>

Next ==
  \/ \E h \in Handlers : on(h) \/ once(h) \/ off(h) \/ addClient(h) \/ Disconnect(h)
  \/ \E i \in DOMAIN streams : sendTo(i) \/ removeClient(i)
  \/ send \/ closeAll
  \/ clear \/ emit \/ call \/ return \/ throw \/ finish

Spec == Init /\ [][Next]_busVars
-----------------------------------------------------------------------------
TypeOK ==
  /\ role \in {"bus", "center", "source"} /\ at \in 0 .. Len(sets)
  /\ Entries <= MaxSubscriptions
  /\ Len(frames) <= MaxDepth /\ emits \in 0 .. MaxEmits
  /\ \A h \in Handlers : heard[h] \in 0 .. emits

\* The map has no empty Set of a bus, which is what hasListeners() and eventNames()
\* read.
NamesAreLive == role = "bus" /\ at # NoSet => Current # {}

\* When a loop has come to its end, nobody who was subscribed when it began and has
\* been ever since is still waiting for the call.
NobodyIsSkipped == \A f \in DOMAIN frames :
  \A i \in frames[f].due : frames[f].next <= i /\ i \in Live(frames[f].set)

\* Every client that a source keeps, and had before it sent the last event to all, got
\* that event, whoever else was gone.
EveryoneIsTold ==
  \A i \in Connected : streams[i].since < broadcast => heard[streams[i].response] >= broadcast

\* A handler subscribed with once() is not called again, by whatever loop: not by the
\* emit that its own call makes, nor by a loop that was under way.  But a clear() in
\* between leaves the wrapper in the old Set, where such a loop finds it again.
OnceIsOnce ==
  [][\A f \in DOMAIN frames' :
       LET set == frames[f].set
           i == frames'[f].next - 1
       IN  f \in DOMAIN frames /\ frames'[f].next > frames[f].next /\ set = at /\ sets[set][i].once
           => <<set, i>> \notin ran]_busVars

\* Unless a listener sets the value again, or throws, all listeners agree with the
\* centre when it is quiet.
ListenersAgree ==
  [][/\ role = "center" /\ Len(frames) = 1 /\ frames' = <<>> /\ ~confused'
     => \A h \in Subscribed : \A i \in EntryOf(h) : heard[h] = emits]_busVars
===============================================================================
