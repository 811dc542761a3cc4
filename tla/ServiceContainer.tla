-------------------------- MODULE ServiceContainer --------------------------
(***************************************************************************)
(* The ServiceContainer class of packages/core.  get() hands out the       *)
(* singleton, or makes it of the registered value, or awaits the factory.  *)
(* While a factory runs its key is in "resolving", and another get() of    *)
(* that key throws "Circular dependency detected": be it from a factory    *)
(* that needs its own service, or from an unrelated caller.  delete() and  *)
(* clear() do not stop the factories that run.                             *)
(*                                                                         *)
(* Instances are numbered as they are made.  A factory first gets the      *)
(* service it needs, if any.                                               *)
(***************************************************************************)
EXTENDS Naturals, Sequences, SequencesExt

CONSTANTS Callers, Keys,
          Needs, Nothing,  \* ways in which the factory of k may need a service, or Nothing
          MaxMade,         \* bound: values and instances made
          MaxClears        \* bound: calls of clear()

NeedsOK == Needs \subseteq [Keys -> Keys \union {Nothing}] /\ MaxMade \in Nat /\ MaxClears \in Nat

VARIABLES providers, factories, singletons,  \* 0 where a key has no value
          resolving,                         \* resolving
          stack,   \* stack[c]: the factories that run for a get() of c, innermost last
          needs,   \* needs[k]: the service that the factory of k gets
          made, clears

vars == <<providers, factories, singletons, resolving, stack, needs, made, clears>>

Frames == [key : Keys, began : 0..MaxMade, ready : BOOLEAN]
KeysOf(frames) == {frames[i].key : i \in DOMAIN frames}

Init ==
  /\ providers = [k \in Keys |-> 0]
  /\ factories = {}
  /\ singletons = [k \in Keys |-> 0]
  /\ resolving = {}
  /\ stack = [c \in Callers |-> <<>>]
  /\ needs \in Needs
  /\ made = 0
  /\ clears = 0

-----------------------------------------------------------------------------
\* What is left of a stack when its innermost get() is answered: the factory
\* that waited for it, if any, has what it needs.
Answered(frames) ==
  IF frames = <<>> THEN <<>> ELSE [frames EXCEPT ![Len(frames)].ready = TRUE]

\* An error runs through all the factories that wait, and each finally block
\* removes its key.
Unwind(c) ==
  /\ resolving' = resolving \ KeysOf(stack[c])
  /\ stack' = [stack EXCEPT ![c] = <<>>]
  /\ UNCHANGED singletons

\* Faulty variant.
FactoryFirst(c, k) ==
  \/ /\ singletons[k] # 0 /\ k \notin factories
     /\ stack' = [stack EXCEPT ![c] = Answered(@)]
     /\ UNCHANGED <<singletons, resolving>>
  \/ /\ k \in factories /\ k \notin resolving
     /\ resolving' = resolving \union {k}
     /\ stack' = [stack EXCEPT ![c] =
                    Append(@, [key |-> k, began |-> made, ready |-> needs[k] = Nothing])]
     /\ UNCHANGED singletons
  \/ /\ k \notin factories => singletons[k] = 0
     /\ k \in factories => k \in resolving
     /\ Unwind(c)

\* get(k), called by c or by its innermost factory.
Resolve(c, k) ==
  \/ /\ singletons[k] # 0
     /\ stack' = [stack EXCEPT ![c] = Answered(@)]
     /\ UNCHANGED <<singletons, resolving>>
  \/ /\ singletons[k] = 0 /\ providers[k] # 0
     /\ singletons' = [singletons EXCEPT ![k] = providers[k]]
     /\ stack' = [stack EXCEPT ![c] = Answered(@)]
     /\ UNCHANGED resolving
  \/ /\ singletons[k] = 0 /\ providers[k] = 0
     /\ k \in factories /\ k \notin resolving
     /\ resolving' = resolving \union {k}
     /\ stack' = [stack EXCEPT ![c] =
                    Append(@, [key |-> k, began |-> made, ready |-> needs[k] = Nothing])]
     /\ UNCHANGED singletons
  \/ /\ singletons[k] = 0 /\ providers[k] = 0
     /\ k \notin factories \/ k \in resolving
     /\ Unwind(c)

-----------------------------------------------------------------------------
\* register() with a function, and registerSingleton().
RegisterFactory(k) ==
  /\ k \notin factories
  /\ factories' = factories \union {k}
  /\ UNCHANGED <<providers, singletons, resolving, stack, needs, made, clears>>

\* register() with a value: a singleton that was made already stays.
RegisterValue(k) ==
  /\ made < MaxMade
  /\ made' = made + 1
  /\ providers' = [providers EXCEPT ![k] = made + 1]
  /\ UNCHANGED <<factories, singletons, resolving, stack, needs, clears>>

RegisterInstance(k) ==
  /\ made < MaxMade
  /\ made' = made + 1
  /\ providers' = [providers EXCEPT ![k] = made + 1]
  /\ singletons' = [singletons EXCEPT ![k] = made + 1]
  /\ UNCHANGED <<factories, resolving, stack, needs, clears>>

Get(c, k) ==
  /\ stack[c] = <<>>
  /\ Resolve(c, k)
  /\ UNCHANGED <<providers, factories, needs, made, clears>>

\* The innermost factory gets what it needs.
Ask(c) ==
  /\ stack[c] # <<>> /\ ~Last(stack[c]).ready
  /\ Resolve(c, needs[Last(stack[c]).key])
  /\ UNCHANGED <<providers, factories, needs, made, clears>>

FactoryReturns(c) ==
  /\ stack[c] # <<>> /\ Last(stack[c]).ready
  /\ made < MaxMade
  /\ made' = made + 1
  /\ LET k == Last(stack[c]).key
     IN  /\ singletons' = [singletons EXCEPT ![k] = made + 1]
         /\ resolving' = resolving \ {k}
  /\ stack' = [stack EXCEPT ![c] = Answered(Front(@))]
  /\ UNCHANGED <<providers, factories, needs, clears>>

FactoryFails(c) ==
  /\ stack[c] # <<>> /\ Last(stack[c]).ready
  /\ Unwind(c)
  /\ UNCHANGED <<providers, factories, needs, made, clears>>

Delete(k) ==
  /\ providers' = [providers EXCEPT ![k] = 0]
  /\ factories' = factories \ {k}
  /\ singletons' = [singletons EXCEPT ![k] = 0]
  /\ UNCHANGED <<resolving, stack, needs, made, clears>>

Clear ==
  /\ clears < MaxClears
  /\ clears' = clears + 1
  /\ providers' = [k \in Keys |-> 0]
  /\ factories' = {}
  /\ singletons' = [k \in Keys |-> 0]
  /\ resolving' = {}
  /\ UNCHANGED <<stack, needs, made>>

Next ==
  \/ \E k \in Keys : RegisterFactory(k) \/ RegisterValue(k) \/ RegisterInstance(k) \/ Delete(k)
  \/ \E c \in Callers : \/ \E k \in Keys : Get(c, k)
                        \/ Ask(c) \/ FactoryReturns(c) \/ FactoryFails(c)
  \/ Clear

\* Factories go on and settle.
Fairness == \A c \in Callers : WF_vars(Ask(c)) /\ WF_vars(FactoryReturns(c) \/ FactoryFails(c))

Spec == Init /\ [][Next]_vars /\ Fairness

-----------------------------------------------------------------------------
TypeOK ==
  /\ providers \in [Keys -> 0..MaxMade] /\ singletons \in [Keys -> 0..MaxMade]
  /\ factories \subseteq Keys /\ resolving \subseteq Keys
  /\ stack \in [Callers -> Seq(Frames)]
  /\ needs \in Needs
  /\ made \in 0..MaxMade /\ clears \in 0..MaxClears

Running(k) == {c \in Callers : k \in KeysOf(stack[c])}

\* A key that is refused as circular has a factory running, so that no failure
\* blocks it for ever; and until clear() is called, each factory runs for one
\* caller at a time, and once in it.
ResolvingIsRunning ==
  /\ \A k \in resolving : Running(k) # {}
  /\ clears = 0 => /\ \A k \in Keys : k \in resolving <=> Running(k) # {}
                   /\ \A k \in Keys : \A c, d \in Running(k) : c = d
                   /\ \A c \in Callers : IsInjective([i \in DOMAIN stack[c] |-> stack[c][i].key])

\* The error says "Circular dependency detected": a factory that is about to be
\* given it would be waiting for itself.
RefusedIsCircular ==
  \A c \in Callers : stack[c] # <<>> /\ ~Last(stack[c]).ready =>
     (needs[Last(stack[c]).key] \in resolving => needs[Last(stack[c]).key] \in KeysOf(stack[c]))

\* A singleton that was handed out is replaced only by registerInstance(), or by
\* a factory that was called before that singleton was there: one that delete()
\* or clear() forgot, or that a registration overtook.
ReplacedByTheOldOnly ==
  [][\A k \in Keys :
       singletons[k] # 0 /\ singletons'[k] \notin {0, singletons[k]} =>
          \/ RegisterInstance(k)
          \/ \E c \in Running(k) : /\ FactoryReturns(c)
                                   /\ Last(stack[c]).began < singletons[k]]_vars

\* A get() is answered, also when factories need one another in a circle.
GetsAnswered == \A c \in Callers : (stack[c] # <<>>) ~> (stack[c] = <<>>)
=============================================================================
