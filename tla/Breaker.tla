-------------------------------- MODULE Breaker --------------------------------
(***************************************************************************)
(* The circuit breaker of one endpoint (dispatcher/breaker.go) as a record *)
(* and the functions its methods are on it. Each method runs under b.mu,   *)
(* so each is one atomic step of whoever calls it.                         *)
(*                                                                         *)
(* The clock is reduced to `cooling`: now is not after openUntil.          *)
(***************************************************************************)
EXTENDS Naturals

CONSTANTS
    Enabled,            \* breaker.enabled
    FailureThreshold,   \* breaker.failure_threshold
    HalfOpenProbes      \* breaker.half_open_probes

ASSUME BreakerAssumption ==
    /\ Enabled \in BOOLEAN
    /\ FailureThreshold \in Nat \ {0}
    /\ HalfOpenProbes \in Nat \ {0}

BreakerState == {"closed", "open", "half_open"}
Verdict == {"healthy", "unhealthy", "ignore"}

BreakerRecord == [state : BreakerState, consecutiveFailures : Nat,
                  cooling : BOOLEAN, probesInFlight : Nat, generation : Nat]

NewBreaker == [state |-> "closed", consecutiveFailures |-> 0, cooling |-> FALSE,
               probesInFlight |-> 0, generation |-> 0]

\* Every change of state starts a generation.
Enter(b, s) == [b EXCEPT !.state = s, !.generation = @ + 1]

Trip(b) == [Enter(b, "open") EXCEPT !.cooling = TRUE, !.probesInFlight = 0]

\* The first half of Allowance: an open breaker whose cooldown is over turns half-open.
CooledDown(b) ==
    IF Enabled /\ b.state = "open" /\ ~b.cooling
    THEN [Enter(b, "half_open") EXCEPT !.probesInFlight = 0]
    ELSE b

FreeProbes(b) ==
    IF b.probesInFlight >= HalfOpenProbes THEN 0 ELSE HalfOpenProbes - b.probesInFlight

Least(x, y) == IF x <= y THEN x ELSE y

\* Mutant: an allowance that ignores the free places.
AllowanceUnlimited(b, limit) ==
    CASE ~Enabled \/ b.state = "closed" -> limit
      [] Enabled /\ b.state = "half_open" -> FreeProbes(b)
      [] OTHER -> 0

\* The second half of Allowance: how many of `limit` requests may start.
Allowance(b, limit) ==
    CASE ~Enabled \/ b.state = "closed" -> limit
      [] Enabled /\ b.state = "half_open" -> Least(FreeProbes(b), limit)
      [] OTHER -> 0

\* Mutant: probes are not registered.
AcquireNothing(b, n) == b

Acquire(b, n) ==
    IF b.state = "half_open" THEN [b EXCEPT !.probesInFlight = @ + n] ELSE b

\* Mutant: the counter is not kept from going below zero.
ProbeReturnedBlindly(b) ==
    IF b.state = "half_open" THEN [b EXCEPT !.probesInFlight = @ - 1] ELSE b

\* Whatever the verdict and the generation, a report while half-open returns a probe.
ProbeReturned(b) ==
    IF b.state = "half_open" /\ b.probesInFlight > 0
    THEN [b EXCEPT !.probesInFlight = @ - 1]
    ELSE b

\* Mutant: the breaker waits for the last probe under way before it closes.
OnHealthyLastProbe(b) ==
    LET c == [b EXCEPT !.consecutiveFailures = 0]
    IN  IF b.state = "closed" \/ b.probesInFlight > 0 THEN c ELSE Enter(c, "closed")

OnHealthy(b) ==
    LET c == [b EXCEPT !.consecutiveFailures = 0]
    IN  IF b.state = "closed" THEN c ELSE Enter(c, "closed")

OnUnhealthy(b) ==
    LET c == [b EXCEPT !.consecutiveFailures = @ + 1]
    IN  IF \/ c.state = "half_open"
           \/ c.state = "closed" /\ c.consecutiveFailures >= FailureThreshold
        THEN Trip(c)
        ELSE c

\* Mutants: an ignored verdict returns before its probe does, and a report whose
\* generation is not looked at.
ReportLeakingProbe(b, verdict, generation) ==
    LET c == ProbeReturned(b)
    IN  CASE verdict = "ignore" -> b
          [] verdict # "ignore" /\ generation # b.generation -> c
          [] verdict = "healthy" /\ generation = b.generation -> OnHealthy(c)
          [] verdict = "unhealthy" /\ generation = b.generation -> OnUnhealthy(c)

ReportOfAnyGeneration(b, verdict, generation) ==
    LET c == ProbeReturned(b)
    IN  CASE verdict = "ignore" -> c
          [] verdict = "healthy" -> OnHealthy(c)
          [] verdict = "unhealthy" -> OnUnhealthy(c)

\* Report: a verdict of an earlier generation returns its probe and is dropped.
Report(b, verdict, generation) ==
    LET c == ProbeReturned(b)
    IN  CASE ~Enabled -> b
          [] Enabled /\ (verdict = "ignore" \/ generation # b.generation) -> c
          [] Enabled /\ verdict = "healthy" /\ generation = b.generation -> OnHealthy(c)
          [] Enabled /\ verdict = "unhealthy" /\ generation = b.generation -> OnUnhealthy(c)

================================================================================
