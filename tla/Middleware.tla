------------------------------ MODULE Middleware ------------------------------
(***************************************************************************)
(* The middlewares, guards, interceptors and pipes of packages/http, with  *)
(* the middlewares of packages/limit and packages/breaker.  A server gives *)
(* them to Fastify as hooks, so that next() is the `done` of a hook: it    *)
(* hands the request on and returns at once, with nothing.  What stands    *)
(* behind `await next()` therefore learns nothing of the handler: a race   *)
(* with a timer is won at once, a breaker counts a success, there is no    *)
(* error to try again.  What the limiter, the breaker, the handler and an  *)
(* interceptor of the user's answer is up to them.                         *)
(***************************************************************************)
EXTENDS Integers, Sequences, FiniteSets

CONSTANTS
  Requests,
  Chains,     \* sequences of kinds, in the order of their hooks
  Urls, Routes,   \* <<method, url>> of what is registered by route; the method may be "ALL"
  Ttl,        \* of the cache: 60 000 ms
  MaxNow      \* a bound

VARIABLES
  chain,
  now,
  store,      \* the cache's Map: for each url whose response is stored, and when it expires
  reqs        \* the requests

middlewareVars == <<chain, now, store, reqs>>

InterceptorKinds == {"logs", "transform", "cache", "own"}
Kinds == InterceptorKinds \cup
  {"headers", "log", "cors", "guard", "size", "limit", "limitByRoute", "breaker", "breakerByRoute",
   "retry", "timeout"}
Methods == {"GET", "OPTIONS"}   \* OPTIONS for all that are not GET
Status == [invalid |-> 400, denied |-> 401, large |-> 413, busy |-> 503, refused |-> 500, error |-> 500]

OptionsOK ==
  /\ Chains \subseteq Seq(Kinds) /\ Routes \subseteq (Methods \cup {"ALL"}) \X Urls
  /\ {Ttl, MaxNow} \subseteq Nat /\ Urls # {} /\ 0 \notin Requests

Nobody == 0
NoEntry == [by |-> Nobody, expires |-> 0]
NoRequest ==
  [phase |-> "none", method |-> "GET", url |-> CHOOSE u \in Urls : TRUE,
   at |-> 0,        \* the hook it is at
   step |-> 0,      \* the interceptor that this hook calls
   response |-> Nobody,   \* what the last of them returned: a response to whom
   answer |-> 0,    \* the status that was sent
   empty |-> FALSE, \* the handler returned nothing
   ran |-> 0]       \* how often it was started

Init ==
  /\ chain \in Chains /\ now = 0
  /\ store = [u \in Urls |-> NoEntry] /\ reqs = [r \in Requests |-> NoRequest]

Active(q) == q.phase \notin {"none", "over"}

\* Requests share nothing but the cache: in a chain without it they come one by one.
Arrive(r) ==
  /\ reqs[r].phase = "none"
  /\ (\E i \in DOMAIN chain : chain[i] = "cache") \/ \A s \in Requests : ~Active(reqs[s])
  /\ \E m \in Methods, u \in Urls :
       reqs' = [reqs EXCEPT ![r] = [@ EXCEPT !.phase = "hooks", !.at = 1, !.method = m, !.url = u]]
  /\ UNCHANGED <<chain, now, store>>

At(r, kind) == reqs[r].phase = "hooks" /\ reqs[r].at \in DOMAIN chain /\ chain[reqs[r].at] = kind
Becomes(r, q) == reqs' = [reqs EXCEPT ![r] = q] /\ UNCHANGED <<chain, now>>

-----------------------------------------------------------------------------
(* Hooks: next() is called, the reply is sent, or an error goes to the      *)
(* error handler, which sends it; nobody asks the filters that were added.  *)
(* A reply is sent once.                                                    *)

GoOn(r) == Becomes(r, [reqs[r] EXCEPT !.at = @ + 1]) /\ UNCHANGED store
Sent(q, status) == IF q.answer = 0 THEN [q EXCEPT !.answer = status] ELSE q
Answer(r, status) == Becomes(r, [Sent(reqs[r], status) EXCEPT !.phase = "over"]) /\ UNCHANGED store
Throw(r, error) == Answer(r, Status[error])

\* Those that set headers, and those that measure and write to the log.
Headers(r) == At(r, "headers") /\ GoOn(r)
Log(r) == At(r, "log") /\ GoOn(r)

\* preflightContinue has OPTIONS go on.
Cors(r) == At(r, "cors") /\ (GoOn(r) \/ (reqs[r].method = "OPTIONS" /\ Answer(r, 204)))

Guard(r) == At(r, "guard") /\ (GoOn(r) \/ Throw(r, "denied"))
Size(r) == At(r, "size") /\ (GoOn(r) \/ Throw(r, "large"))

\* The paths and methods that are excluded pass by.
Limited(r) == GoOn(r) \/ Answer(r, 429) \/ Throw(r, "error")
Limit(r) == At(r, "limit") /\ Limited(r)

\* Routes are looked up by their method: one that was registered for all is not found.
ByRoute(q) == <<q.method, q.url>> \in Routes
LimitByRoute(r) == At(r, "limitByRoute") /\ IF ByRoute(reqs[r]) THEN Limited(r) ELSE GoOn(r)

\* The error of a breaker that is open is not one that the middleware knows: it is thrown on.
Broken(r) == GoOn(r) \/ Throw(r, "refused")
Breaker(r) == At(r, "breaker") /\ Broken(r)
BreakerByRoute(r) == At(r, "breakerByRoute") /\ IF ByRoute(reqs[r]) THEN Broken(r) ELSE GoOn(r)

\* The timer is left behind: its error loses a race that is over.
Retry(r) == At(r, "retry") /\ GoOn(r)
StartTimer(r) == At(r, "timeout") /\ GoOn(r)

-----------------------------------------------------------------------------
(* Interceptors: each that is added adds a hook, and each of these hooks    *)
(* calls all of them in order.  Their next() returns what the one before    *)
(* returned.                                                                *)

Interceptors == SelectSeq(chain, LAMBDA kind : kind \in InterceptorKinds)

Intercept(r) ==
  /\ \E kind \in InterceptorKinds : At(r, kind)
  /\ Becomes(r, [reqs[r] EXCEPT !.phase = "intercepted", !.step = 1, !.response = Nobody])
  /\ UNCHANGED store

Asks(r, kind) ==
  reqs[r].phase = "intercepted" /\ reqs[r].step \in DOMAIN Interceptors /\ Interceptors[reqs[r].step] = kind

Returned(r, q, response) ==
  Becomes(r, [q EXCEPT !.phase = "intercepted", !.step = @ + 1, !.response = response])

Logs(r) == Asks(r, "logs") /\ Returned(r, reqs[r], reqs[r].response) /\ UNCHANGED store

\* Wrapped, it is still a response to the same request.
Transform(r) == Asks(r, "transform") /\ Returned(r, reqs[r], reqs[r].response) /\ UNCHANGED store

CacheAny(r) ==  \* faulty: of requests by all methods
  /\ Asks(r, "cache")
  /\ LET q == reqs[r]
         cached == store[q.url]
     IN  IF cached.expires > now THEN Returned(r, q, cached.by)
         ELSE Becomes(r, [q EXCEPT !.phase = "caching"])
  /\ UNCHANGED store

Cache(r) ==
  /\ Asks(r, "cache")
  /\ LET q == reqs[r]
         cached == store[q.url]
     IN  IF q.method = "GET"
         THEN IF cached.expires > now THEN Returned(r, q, cached.by)
              ELSE Becomes(r, [q EXCEPT !.phase = "caching"])
         ELSE Returned(r, q, q.response)
  /\ UNCHANGED store

\* A response is stored if the reply has not been sent meanwhile.
Stored(r) ==
  /\ reqs[r].phase = "caching"
  /\ LET q == reqs[r]
     IN  /\ store' = IF q.response # Nobody /\ q.answer = 0
                     THEN [store EXCEPT ![q.url] = [by |-> q.response, expires |-> now + Ttl]]
                     ELSE store
         /\ Returned(r, q, q.response)

\* One of the user's returns a response of its own, what next() returned, or nothing; it
\* may send the reply, and it may throw.
Own(r) ==
  /\ Asks(r, "own")
  /\ \/ \E response \in {r, reqs[r].response, Nobody}, q \in {reqs[r], Sent(reqs[r], 200)} :
          Returned(r, q, response)
     \/ Throw(r, "error")
  /\ UNCHANGED store

HookDone(r) ==
  /\ reqs[r].phase = "intercepted" /\ reqs[r].step \notin DOMAIN Interceptors
  /\ Becomes(r, [reqs[r] EXCEPT !.phase = IF reqs[r].answer = 0 THEN "hooks" ELSE "over", !.at = @ + 1])
  /\ UNCHANGED store

-----------------------------------------------------------------------------
(* The handler, with the pipe before it *)

Handle(r) ==
  /\ reqs[r].phase = "hooks" /\ reqs[r].at \notin DOMAIN chain
  /\ Becomes(r, [reqs[r] EXCEPT !.phase = "handler", !.ran = @ + 1]) /\ UNCHANGED store

Pipe(r) ==
  /\ reqs[r].phase = "hooks" /\ reqs[r].at \notin DOMAIN chain /\ Throw(r, "invalid")

\* What it returns is sent; it may have sent the reply itself, or return nothing.
HandlerEnds(r) ==
  /\ reqs[r].phase = "handler"
  /\ \/ Answer(r, 200)
     \/ \E error \in {"busy", "error"} : Throw(r, error)
     \/ Becomes(r, [reqs[r] EXCEPT !.phase = "over", !.empty = TRUE]) /\ UNCHANGED store

Tick ==
  /\ now < MaxNow /\ now' = now + 1 /\ UNCHANGED <<chain, store, reqs>>

Next ==
  \/ \E r \in Requests :
       \/ Arrive(r) \/ Headers(r) \/ Log(r) \/ Cors(r) \/ Guard(r) \/ Size(r)
       \/ Limit(r) \/ LimitByRoute(r) \/ Breaker(r) \/ BreakerByRoute(r) \/ Retry(r) \/ StartTimer(r)
       \/ Intercept(r) \/ Logs(r) \/ Transform(r) \/ Cache(r) \/ Stored(r) \/ Own(r) \/ HookDone(r)
       \/ Handle(r) \/ Pipe(r) \/ HandlerEnds(r)
  \/ Tick

Spec == Init /\ [][Next]_middlewareVars
-----------------------------------------------------------------------------
TypeOK ==
  /\ chain \in Chains /\ now \in 0 .. MaxNow
  /\ \A u \in Urls : store[u].by \in Requests \cup {Nobody}
  /\ \A r \in Requests :
       /\ reqs[r].phase \in {"none", "hooks", "intercepted", "caching", "handler", "over"}
       /\ reqs[r].response \in Requests \cup {Nobody} /\ reqs[r].ran \in 0 .. 1

\* A request that is over has been answered, unless its handler returned nothing; the
\* handler of a request that was answered on the way is not started, though the
\* interceptors of a hook go on.
EveryRequestAnswered ==
  \A r \in Requests :
    LET q == reqs[r]
    IN  /\ q.phase = "over" => q.answer # 0 \/ q.empty
        /\ q.phase \in {"hooks", "handler"} => q.answer = 0
        /\ q.ran = 0 => ~q.empty

\* What the cache keeps for a url is a response to a GET of that url, and a request is
\* given no response to another but from there, however requests and hooks overlap.
CacheServesAnswers ==
  /\ \A u \in Urls :
       store[u].by # Nobody => reqs[store[u].by].url = u /\ reqs[store[u].by].method = "GET"
  /\ \A r \in Requests :
       LET by == reqs[r].response
       IN  by \notin {r, Nobody} => reqs[r].method = "GET" /\ reqs[by].method = "GET" /\ reqs[by].url = reqs[r].url
===============================================================================
