---------------------------- MODULE EndpointDispatch ----------------------------
(***************************************************************************)
(* One endpoint of the dispatcher: the dispatch goroutine, which asks the  *)
(* breaker for an allowance, claims, registers and starts workers in three *)
(* separate steps (dispatchEndpoint); the workers, which report and then   *)
(* release their semaphore slot after the write-back (deliverOne); and the *)
(* breaker all of them share. The queue is a number of claimable tasks     *)
(* chosen at each claim; the vendor is the verdicts it causes.             *)
(***************************************************************************)
EXTENDS Breaker, FiniteSets

CONSTANTS
    Slots,              \* the places of the semaphore; their number is ep.concurrency
    BatchSize,          \* dispatcher.batch_size
    MaxFaults           \* bound: unhealthy answers before the vendor stays healthy

ASSUME DispatchAssumption ==
    /\ IsFiniteSet(Slots)
    /\ BatchSize \in Nat \ {0}
    /\ MaxFaults \in Nat

VARIABLES
    breaker,        \* the endpoint's Breaker
    phase,          \* where the dispatch goroutine stands
    grant,          \* its local budget, then the number of tasks it claimed
    workers,        \* [Slots -> worker], the holder of each semaphore place
    faults,         \* history: unhealthy answers so far
    fresh,          \* history: unhealthy answers, since the breaker closed or last
                    \* heard good news, to requests started since it closed
    strays          \* history: answers of an earlier generation that arrived in the
                    \* present half-open period

vars == <<breaker, phase, grant, workers, faults, fresh, strays>>

\* A worker carries the generation Acquire returned. `old` is history: the breaker
\* has closed since the request was started.
Idle == [busy |-> FALSE, reported |-> FALSE, generation |-> 0, old |-> FALSE]
Worker == [busy : BOOLEAN, reported : BOOLEAN, generation : Nat, old : BOOLEAN]

IdleSlots == {s \in Slots : ~workers[s].busy}
Unreported == {s \in Slots : workers[s].busy /\ ~workers[s].reported}
Probes == {s \in Unreported : workers[s].generation = breaker.generation}

Init ==
    /\ breaker = NewBreaker
    /\ phase = "idle"
    /\ grant = 0
    /\ workers = [s \in Slots |-> Idle]
    /\ faults = 0
    /\ fresh = 0
    /\ strays = 0

-------------------------------------------------------------------------------
(* The dispatch goroutine. *)

\* free and Allowance: with no free place the breaker is not asked.
AskAllowance ==
    LET free == Cardinality(IdleSlots)
        cooled == CooledDown(breaker)
        budget == Least(Allowance(cooled, free), BatchSize)
    IN  /\ phase = "idle"
        /\ free > 0
        /\ breaker' = cooled
        /\ grant' = budget
        /\ phase' = IF budget > 0 THEN "granted" ELSE "idle"
        /\ UNCHANGED <<workers, faults, fresh, strays>>

\* ClaimForEndpoint returns k tasks; none when nothing is due or the claim fails.
Claim(k) ==
    /\ phase = "granted"
    /\ k <= grant
    /\ grant' = k
    /\ phase' = IF k > 0 THEN "claimed" ELSE "idle"
    /\ UNCHANGED <<breaker, workers, faults, fresh, strays>>

\* Acquire, then one place of the semaphore and one goroutine for each task.
Start(places) ==
    /\ phase = "claimed"
    /\ places \subseteq IdleSlots
    /\ Cardinality(places) = grant
    /\ breaker' = Acquire(breaker, grant)
    /\ workers' = [s \in Slots |->
                     IF s \in places
                     THEN [busy |-> TRUE, reported |-> FALSE,
                           generation |-> breaker.generation, old |-> FALSE]
                     ELSE workers[s]]
    /\ grant' = 0
    /\ phase' = "idle"
    /\ UNCHANGED <<faults, fresh, strays>>

-------------------------------------------------------------------------------
(* The workers. *)

Closes(b) == breaker.state # "closed" /\ b.state = "closed"

\* Deliver returns and the worker reports its verdict.
ReportVerdict(s, verdict) ==
    LET after == Report(breaker, verdict, workers[s].generation)
        young == ~workers[s].old
    IN  /\ s \in Unreported
        /\ verdict = "unhealthy" => faults < MaxFaults
        /\ breaker' = after
        /\ workers' = [p \in Slots |->
                         [workers[p] EXCEPT !.reported = @ \/ p = s,
                                            !.old = workers[p].busy
                                                    /\ (@ \/ Closes(after))]]
        /\ faults' = IF verdict = "unhealthy" THEN faults + 1 ELSE faults
        /\ fresh' = CASE Closes(after) \/ (verdict = "healthy" /\ young) -> 0
                      [] verdict = "unhealthy" /\ young /\ ~Closes(after) -> fresh + 1
                      [] OTHER -> fresh
        /\ strays' = CASE after.state # "half_open" -> 0
                       [] after.state = "half_open"
                             /\ workers[s].generation # breaker.generation -> strays + 1
                       [] OTHER -> strays
        /\ UNCHANGED <<phase, grant>>

\* The write-back is done: defer func() { <-sem }().
Release(s) ==
    /\ workers[s].busy
    /\ workers[s].reported
    /\ workers' = [workers EXCEPT ![s] = Idle]
    /\ UNCHANGED <<breaker, phase, grant, faults, fresh, strays>>

\* The clock passes openUntil.
CooldownElapses ==
    /\ breaker.state = "open"
    /\ breaker.cooling
    /\ breaker' = [breaker EXCEPT !.cooling = FALSE]
    /\ UNCHANGED <<phase, grant, workers, faults, fresh, strays>>

-------------------------------------------------------------------------------

Next ==
    \/ AskAllowance
    \/ \E k \in 0..BatchSize : Claim(k)
    \/ \E places \in SUBSET Slots : Start(places)
    \/ \E s \in Slots :
          \/ \E verdict \in Verdict : ReportVerdict(s, verdict)
          \/ Release(s)
    \/ CooldownElapses

Spec == Init /\ [][Next]_vars

\* The dispatch loop keeps turning, requests end by their timeout, write-backs by
\* theirs, and time passes.
Fairness ==
    /\ WF_vars(AskAllowance)
    /\ WF_vars(\E k \in 0..BatchSize : Claim(k))
    /\ WF_vars(\E places \in SUBSET Slots : Start(places))
    /\ \A s \in Slots :
          /\ WF_vars(\E verdict \in Verdict : ReportVerdict(s, verdict))
          /\ WF_vars(Release(s))
    /\ WF_vars(CooldownElapses)

FairSpec == Spec /\ Fairness

\* An environment that lets the endpoint recover: the queue does not stay empty, and
\* not every result is one the breaker must ignore.
Recovery ==
    /\ SF_vars(\E k \in 1..BatchSize : Claim(k))
    /\ \A s \in Slots : SF_vars(ReportVerdict(s, "healthy"))

-------------------------------------------------------------------------------
(* Properties. *)

\* Every variable has its type.
TypeOK ==
    /\ breaker \in BreakerRecord
    /\ phase \in {"idle", "granted", "claimed"}
    /\ grant \in Nat
    /\ workers \in [Slots -> Worker]
    /\ faults \in Nat
    /\ fresh \in Nat
    /\ strays \in Nat

\* The dispatch goroutine never blocks on the semaphore: the places it counted before
\* the claim are still free when it fills them, so a slow vendor cannot hold up the
\* goroutine that serves every other endpoint.
StartNeverBlocks ==
    phase # "idle" => grant <= Cardinality(IdleSlots)

\* While half-open, every probe counted in flight is a live worker of this generation
\* that will report: stale reports may return probes too early, but no probe is ever
\* leaked, which would close the endpoint for good.
ProbesHaveWorkers ==
    breaker.state = "half_open" => breaker.probesInFlight <= Cardinality(Probes)

\* half_open_probes is the number of concurrent probes of a half-open endpoint.
ProbeLimit ==
    breaker.state = "half_open" => Cardinality(Probes) <= HalfOpenProbes

\* What half_open_probes really bounds: a half-open endpoint runs more probes than that
\* only by one for each late answer of an earlier generation that came in since it
\* turned half-open, whatever the order of claims, answers and trips. A cooldown that
\* outlasts the requests under way when it began therefore keeps the limit.
ProbesExplained ==
    breaker.state = "half_open" => Cardinality(Probes) <= HalfOpenProbes + strays

\* A closed breaker opens only on failure_threshold unhealthy answers, with no healthy
\* one between them, to requests that were started after it closed: the late failures
\* of an outage that is over never reopen a breaker that has recovered.
OnlyFreshFailuresTrip ==
    [][breaker.state = "closed" /\ breaker'.state = "open"
          => fresh' >= FailureThreshold]_vars

\* A half-open endpoint with no free probe gets one back or changes state: it is not
\* stuck half-open whatever the verdicts are.
HalfOpenMoves ==
    (breaker.state = "half_open" /\ FreeProbes(breaker) = 0)
        ~> (breaker.state # "half_open" \/ FreeProbes(breaker) > 0)

\* In an environment that lets it recover the breaker closes and stays closed, from
\* wherever the outage, its late answers and the probes left it.
Recovers == Recovery => <>[](breaker.state = "closed")

================================================================================
