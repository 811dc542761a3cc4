------------------------------ MODULE HealthCheck ------------------------------
(***************************************************************************)
(* HealthCheckManager and HealthCheckService of packages/http.  A run of   *)
(* check() asks the registered checks one after the other, each for the    *)
(* timeout at most, and walks the live map meanwhile.  Runs overlap when   *)
(* the interval is shorter than they are, or when somebody asks; the one   *)
(* that ends last is the published result of the manager.  The service     *)
(* computes its answer in the same way, and keeps none; so does the server *)
(* of packages/core/src/production.ts, which has no timeout.  What they ask*)
(* are functions; the indicators make theirs of what they find.            *)
(***************************************************************************)
EXTENDS Integers, Sequences, SequencesExt, FiniteSets

CONSTANTS
  Names,      \* of checks
  Assignments,  \* which indicator each name may have
  UsedAtMost, \* thresholds of the memory and disk indicators, in percent
  Runs,       \* check() calls that may be under way
  Threshold,  \* degradeThreshold, in percent
  MaxChanges  \* of what is registered, and how well it is (a bound)

VARIABLES
  checks,      \* the names registered, in the order of the map
  indicator,   \* of each name
  found,       \* what it would find
  runs,
  lastResult,
  periodic,    \* the interval is set
  changes,
  wasUp, wasDown  \* history, for each run: checks that were well, and that were not, at some
                  \* time since it began

healthVars == <<checks, indicator, found, runs, lastResult, periodic, changes, wasUp, wasDown>>

Kinds == {"memory", "heap", "disk", "ping", "http"}

OptionsOK ==
  /\ Threshold \in 1 .. 100 /\ UsedAtMost \in 0 .. 100 /\ MaxChanges \in Nat
  /\ Assignments \subseteq [Names -> Kinds]

NoRun == [busy |-> FALSE, asked |-> <<>>, passed |-> 0, warned |-> 0, failed |-> 0]
None == "none"

\* Percentages of what is used, with one for a disk that cannot be read.
Unreadable == 101

Findings(kind) ==
  CASE kind = "memory" -> {80, 93, 96}
    [] kind = "heap"   -> {60, 80, 93}
    [] kind = "disk"   -> {80, Unreadable}
    [] kind = "ping"   -> {"yes", "no"}
    [] kind = "http"   -> {"expected", "other", "no"}
AtFirst(kind) == CASE kind = "ping" -> "yes" [] kind = "http" -> "expected" [] OTHER -> 80

\* Of the two limits only the first can be set, even above the second.
MemoryStatus(percent) ==
  CASE percent > 95 -> "fail" [] percent > UsedAtMost /\ percent <= 95 -> "warn" [] OTHER -> "pass"

\* The memory check of the production server has limits of its own.
HeapStatus(percent) ==
  CASE percent > 90 -> "fail" [] percent > 70 /\ percent <= 90 -> "warn" [] OTHER -> "pass"

DiskStatus(percent) == IF percent = Unreadable THEN "fail" ELSE MemoryStatus(percent)

\* A database or Redis that answers wrongly, fails, or does not answer within the
\* indicator's own timeout is down; a page with another status is not quite well.
PingStatus(answer) == IF answer = "yes" THEN "pass" ELSE "fail"
HttpStatus(answer) ==
  CASE answer = "expected" -> "pass" [] answer = "other" -> "warn" [] OTHER -> "fail"

\* What the check of the name says.
Answer(n, f) ==
  CASE indicator[n] = "memory" -> MemoryStatus(f[n])
    [] indicator[n] = "heap"   -> HeapStatus(f[n])
    [] indicator[n] = "disk"   -> DiskStatus(f[n])
    [] indicator[n] = "ping"   -> PingStatus(f[n])
    [] indicator[n] = "http"   -> HttpStatus(f[n])

Init ==
  /\ indicator \in Assignments /\ found = [n \in Names |-> AtFirst(indicator[n])]
  /\ checks = <<>> /\ runs = [r \in Runs |-> NoRun]
  /\ lastResult = None /\ periodic = FALSE /\ changes = 0
  /\ wasUp = [r \in Runs |-> {}] /\ wasDown = [r \in Runs |-> {}]

Down(names, f) == {n \in names : Answer(n, f) = "fail"}
Edit == changes < MaxChanges /\ changes' = changes + 1

Observe(names, f) ==
  /\ wasUp' = [r \in Runs |-> wasUp[r] \cup (names \ Down(names, f))]
  /\ wasDown' = [r \in Runs |-> wasDown[r] \cup Down(names, f)]

\* A name that is registered again keeps its place in the map.
Register(n) ==
  /\ n \notin ToSet(checks) /\ Edit
  /\ checks' = Append(checks, n)
  /\ Observe({n}, found)
  /\ UNCHANGED <<indicator, found, runs, lastResult, periodic>>

\* A walk that is past the name does not miss it; one that is not will not ask it.
Unregister(n) ==
  /\ \E k \in DOMAIN checks : checks[k] = n /\ checks' = RemoveAt(checks, k)
  /\ Edit
  /\ UNCHANGED <<indicator, found, runs, lastResult, periodic, wasUp, wasDown>>

Clear ==
  /\ Edit /\ checks' = <<>> /\ lastResult' = None
  /\ UNCHANGED <<indicator, found, runs, periodic, wasUp, wasDown>>

HealthChanges(n, f) ==
  /\ f # found[n] /\ Edit
  /\ found' = [found EXCEPT ![n] = f]
  /\ Observe({n}, found')
  /\ UNCHANGED <<checks, indicator, runs, lastResult, periodic>>

\* check() is called by the interval or by somebody.
Check(r) ==
  /\ ~runs[r].busy
  /\ runs' = [runs EXCEPT ![r] = [NoRun EXCEPT !.busy = TRUE]]
  /\ wasUp' = [wasUp EXCEPT ![r] = ToSet(checks) \ Down(ToSet(checks), found)]
  /\ wasDown' = [wasDown EXCEPT ![r] = Down(ToSet(checks), found)]
  /\ UNCHANGED <<checks, indicator, found, lastResult, periodic, changes>>

\* The name the run's walk comes to next: names are only ever added at the end.
Asked(r) == ToSet(runs[r].asked)
ComesTo(r, n) ==
  \E k \in DOMAIN checks :
    checks[k] = n /\ n \notin Asked(r) /\ \A j \in 1 .. k - 1 : checks[j] \in Asked(r)

CountedAs(answer, r) ==
  [runs[r] EXCEPT !.passed = IF answer = "pass" THEN @ + 1 ELSE @,
                  !.warned = IF answer = "warn" THEN @ + 1 ELSE @,
                  !.failed = IF answer = "fail" THEN @ + 1 ELSE @]

\* The race of a check and its timeout ends: an exception or silence is a failure.
CheckAnswers(r) ==
  /\ runs[r].busy
  /\ \E n \in Names :
       /\ ComesTo(r, n)
       /\ runs' = [runs EXCEPT ![r] = [CountedAs(Answer(n, found), r) EXCEPT !.asked = Append(@, n)]]
  /\ UNCHANGED <<checks, indicator, found, lastResult, periodic, changes, wasUp, wasDown>>

Status(run) ==
  LET total == run.passed + run.warned + run.failed
  IN  CASE run.failed > 0 -> "unhealthy"
        [] run.failed = 0 /\ total > 0 /\ run.warned * 100 >= Threshold * total -> "degraded"
        [] OTHER -> "healthy"

\* The service is less patient with warnings: one is enough.
ServiceStatus(run) ==
  CASE run.failed > 0 -> "error"
    [] run.failed = 0 /\ run.warned > 0 -> "degraded"
    [] OTHER -> "ok"

ProductionStatus(run) ==
  CASE run.failed > 0 -> "unhealthy"
    [] run.failed = 0 /\ run.warned > 0 -> "degraded"
    [] OTHER -> "healthy"

CheckEnds(r) ==
  /\ runs[r].busy /\ ToSet(checks) \subseteq Asked(r)
  /\ lastResult' = Status(runs[r])
  /\ runs' = [runs EXCEPT ![r].busy = FALSE]
  /\ UNCHANGED <<checks, indicator, found, periodic, changes, wasUp, wasDown>>

StartPeriodicCheck ==
  /\ periodic' = TRUE
  /\ UNCHANGED <<checks, indicator, found, runs, lastResult, changes, wasUp, wasDown>>

StopPeriodicCheck ==
  /\ periodic /\ periodic' = FALSE
  /\ UNCHANGED <<checks, indicator, found, runs, lastResult, changes, wasUp, wasDown>>

Next ==
  \/ \E n \in Names :
       \/ Register(n) \/ Unregister(n)
       \/ \E f \in Findings(indicator[n]) : HealthChanges(n, f)
  \/ Clear \/ StartPeriodicCheck \/ StopPeriodicCheck
  \/ \E r \in Runs : Check(r) \/ CheckAnswers(r) \/ CheckEnds(r)

\* The interval fires, and every check is answered or times out.
Fairness ==
  \A r \in Runs :
    /\ WF_healthVars(periodic /\ Check(r))
    /\ WF_healthVars(CheckAnswers(r) \/ CheckEnds(r))

Spec == Init /\ [][Next]_healthVars /\ Fairness
-----------------------------------------------------------------------------
TypeOK ==
  /\ ToSet(checks) \subseteq Names /\ IsInjective(checks) /\ indicator \in Assignments
  /\ \A n \in Names : found[n] \in Findings(indicator[n])
  /\ lastResult \in {None, "healthy", "degraded", "unhealthy"}
  /\ \A r \in Runs : runs[r].passed + runs[r].warned + runs[r].failed = Len(runs[r].asked)

\* Whatever overlaps and whoever unregisters, the result a run publishes is what
\* its checks said while it ran: "unhealthy" only if one of them was down at some
\* time, anything else only if each that is registered to the end was well at some
\* time; the manager, the service and the production server agree on what is an error,
\* and on what is well when the manager has no patience.
ResultIsRegular ==
  [][\A r \in Runs :
       (runs[r].busy /\ ~runs'[r].busy) =>
         /\ lastResult' = "unhealthy" => wasDown[r] # {}
         /\ lastResult' # "unhealthy" => ToSet(checks) \subseteq wasUp[r]
         /\ (lastResult' = "unhealthy") = (ServiceStatus(runs[r]) = "error")
         /\ (lastResult' = "unhealthy") = (ProductionStatus(runs[r]) = "unhealthy")
         /\ lastResult' = "degraded" => ProductionStatus(runs[r]) = "degraded"]_healthVars

\* A check that stays down shows in the published result, for good, as long as the
\* interval is set and the check is registered.
FailureShows ==
  \A n \in Names :
    <>[](periodic /\ n \in ToSet(checks) /\ Answer(n, found) = "fail") => <>[](lastResult = "unhealthy")
=============================================================================
