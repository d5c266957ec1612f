------------------------------- MODULE Dispatcher -------------------------------
(***************************************************************************)
(* The dispatch loop of one process (dispatcher.Run, tick, Wake): one      *)
(* goroutine visits every configured endpoint in turn and sleeps only when *)
(* a whole round claimed nothing, until a wake-up or the poll timer.       *)
(*                                                                         *)
(* A row is reduced to where it stands for the loop, and a breaker to      *)
(* whether it lets requests through: EndpointDispatch has the breaker      *)
(* itself, NotifyQueue the leases.                                         *)
(***************************************************************************)
EXTENDS Naturals, FiniteSets

CONSTANTS
    Count,              \* number of configured endpoints
    Names,              \* d.names: [0..Count-1 -> endpoint name]
    Notifications,
    Endpoint,           \* [Notifications -> endpoint name], configured or not
    Concurrency,        \* places of each endpoint's semaphore
    BatchSize,          \* dispatcher.batch_size
    Stuck,              \* endpoints whose vendor never answers
    MaxFaults           \* bound: breaker trips and failing claims, together

ASSUME NamesAssumption ==
    /\ Count \in Nat \ {0}
    /\ DOMAIN Names = 0..Count-1
ASSUME DispatcherAssumption ==
    /\ IsFiniteSet(Notifications)
    /\ Concurrency \in Nat \ {0}
    /\ BatchSize \in Nat \ {0}
    /\ MaxFaults \in Nat

VARIABLES
    place,          \* where each notification stands
    before,         \* pairs of due rows, by next_attempt_at
    busy,           \* places taken in each semaphore
    leaving,        \* of these, workers that have written back and not yet left
    open,           \* endpoints whose breaker lets nothing through
    wake,           \* d.wake holds its one token
    timer,          \* the poll timer: "armed", "fired" or "drained"
    phase,          \* the loop: about to tick, visiting, claiming or waiting
    rotation, at,   \* d.rotation, and the position in the round
    grant,          \* the budget of the visit
    dispatched,     \* this round has claimed something
    wakers,         \* writers that made rows due and have yet to call Wake
    faults,         \* history: trips and failing claims so far
    passed,         \* history: due rows the loop could not take when it looked
    silent          \* history: due rows that only the clock announces

workers == <<busy, leaving>>
loop == <<phase, rotation, at, grant, dispatched>>
ghosts == <<passed, silent>>
vars == <<place, before, workers, open, wake, timer, loop, wakers, faults, ghosts>>

Place == {"absent", "due", "later", "claimed", "lost", "dead", "settled"}
Phase == {"start", "visit", "claim", "waiting"}
Timer == {"armed", "fired", "drained"}

Configured == {Names[i] : i \in 0..Count-1}
Due == {n \in Notifications : place[n] = "due"}
DueAt(e) == {n \in Due : Endpoint[n] = e}

Init ==
    /\ place = [n \in Notifications |-> "absent"]
    /\ before = {}
    /\ busy = [e \in Configured |-> 0]
    /\ leaving = [e \in Configured |-> 0]
    /\ open = {}
    /\ wake = FALSE
    /\ timer = "armed"
    /\ phase = "start"
    /\ rotation = 0
    /\ at = 0
    /\ grant = 0
    /\ dispatched = FALSE
    /\ wakers = {}
    /\ faults = 0
    /\ passed = {}
    /\ silent = {}

-------------------------------------------------------------------------------
(* Rows become due, or stop being due. *)

\* ns become due, behind everything that is already.
BecomeDue(ns) ==
    /\ place' = [n \in Notifications |-> IF n \in ns THEN "due" ELSE place[n]]
    /\ before' = before \cup (Due \X ns)

NoLongerDue(ns, where) ==
    /\ place' = [n \in Notifications |-> IF n \in ns THEN where ELSE place[n]]
    /\ before' = {p \in before : p[1] \notin ns /\ p[2] \notin ns}

\* handleSubmit up to its commit; its call of Wake is still to come.
Submit(n) ==
    /\ place[n] = "absent"
    /\ BecomeDue({n})
    /\ wakers' = wakers \cup {{n}}
    /\ UNCHANGED <<workers, open, wake, timer, loop, faults, ghosts>>

\* handleRetry, likewise.
Requeue(n) ==
    /\ place[n] = "dead"
    /\ BecomeDue({n})
    /\ wakers' = wakers \cup {{n}}
    /\ UNCHANGED <<workers, open, wake, timer, loop, faults, ghosts>>

\* The reaper recovers the rows whose leases have expired; those without budget die.
Reap(expired, exhausted) ==
    /\ expired # {}
    /\ \A n \in expired : place[n] = "lost"
    /\ exhausted \subseteq expired
    /\ place' = [n \in Notifications |->
                   CASE n \in exhausted -> "dead"
                     [] n \in expired \ exhausted -> "due"
                     [] OTHER -> place[n]]
    /\ before' = before \cup (Due \X (expired \ exhausted))
    /\ wakers' = wakers \cup {expired \ exhausted}
    /\ UNCHANGED <<workers, open, wake, timer, loop, faults, ghosts>>

\* Mutant: a channel without a buffer, where Wake finds a receiver or is lost.
WakeUnbuffered(w) ==
    /\ w \in wakers
    /\ wakers' = wakers \ {w}
    /\ wake' = (phase = "waiting")
    /\ UNCHANGED <<place, before, workers, open, timer, loop, faults, ghosts>>

\* Wake: a token is put into the channel unless it holds one.
Wake(w) ==
    /\ w \in wakers
    /\ wakers' = wakers \ {w}
    /\ wake' = TRUE
    /\ UNCHANGED <<place, before, workers, open, timer, loop, faults, ghosts>>

\* next_attempt_at of a retry passes. Nobody calls Wake.
RetryComesDue(n) ==
    /\ place[n] = "later"
    /\ BecomeDue({n})
    /\ silent' = silent \cup {n}
    /\ UNCHANGED <<workers, open, wake, timer, loop, wakers, faults, passed>>

Cancel(n) ==
    /\ place[n] \in {"due", "later"}
    /\ NoLongerDue({n}, "settled")
    /\ passed' = passed \ {n}
    /\ silent' = silent \ {n}
    /\ UNCHANGED <<workers, open, wake, timer, loop, wakers, faults>>

-------------------------------------------------------------------------------
(* Workers and breakers. *)

\* Mutant: the place is given back at the write-back already, and again by the defer.
FinishReleasing(n, where) ==
    /\ place[n] = "claimed"
    /\ place' = [place EXCEPT ![n] = where]
    /\ busy' = [busy EXCEPT ![Endpoint[n]] = @ - 1]
    /\ leaving' = [leaving EXCEPT ![Endpoint[n]] = @ + 1]
    /\ UNCHANGED <<before, open, wake, timer, loop, wakers, faults, ghosts>>

\* A worker writes its result back, or fails to; its place is still taken.
Finish(n, where) ==
    /\ place[n] = "claimed"
    /\ place' = [place EXCEPT ![n] = where]
    /\ leaving' = [leaving EXCEPT ![Endpoint[n]] = @ + 1]
    /\ UNCHANGED <<before, busy, open, wake, timer, loop, wakers, faults, ghosts>>

\* defer func() { <-sem }(). Nobody calls Wake.
Leave(e) ==
    /\ leaving[e] > 0
    /\ leaving' = [leaving EXCEPT ![e] = @ - 1]
    /\ busy' = [busy EXCEPT ![e] = @ - 1]
    /\ UNCHANGED <<place, before, open, wake, timer, loop, wakers, faults, ghosts>>

Trip(e) ==
    /\ e \notin open
    /\ faults < MaxFaults
    /\ open' = open \cup {e}
    /\ faults' = faults + 1
    /\ UNCHANGED <<place, before, workers, wake, timer, loop, wakers, ghosts>>

\* The cooldown is over and a probe is free.
Readmit(e) ==
    /\ e \in open
    /\ open' = open \ {e}
    /\ UNCHANGED <<place, before, workers, wake, timer, loop, wakers, faults, ghosts>>

-------------------------------------------------------------------------------
(* The loop. *)

Here == Names[(rotation + at) % Count]

\* tick: the round starts one endpoint further on.
StartRound ==
    /\ phase = "start"
    /\ rotation' = (rotation + 1) % Count
    /\ at' = 0
    /\ dispatched' = FALSE
    /\ phase' = "visit"
    /\ UNCHANGED <<place, before, workers, open, wake, timer, grant, wakers, faults,
                   ghosts>>

Refused(e) == busy[e] >= Concurrency \/ e \in open

\* Mutant: the loop waits for a place instead of passing on.
SkipOnlyWhenOpen ==
    /\ phase = "visit"
    /\ at < Count
    /\ Here \in open /\ busy[Here] < Concurrency
    /\ at' = at + 1
    /\ passed' = passed \cup DueAt(Here)
    /\ UNCHANGED <<place, before, workers, open, wake, timer, phase, rotation, grant,
                   dispatched, wakers, faults, silent>>

\* dispatchEndpoint with no free place, or no allowance.
Skip ==
    /\ phase = "visit"
    /\ at < Count
    /\ Refused(Here)
    /\ at' = at + 1
    /\ passed' = passed \cup DueAt(Here)
    /\ UNCHANGED <<place, before, workers, open, wake, timer, phase, rotation, grant,
                   dispatched, wakers, faults, silent>>

\* dispatchEndpoint up to the claim. A half-open breaker grants less than is free.
Grant(g) ==
    /\ phase = "visit"
    /\ at < Count
    /\ ~Refused(Here)
    /\ g <= BatchSize
    /\ g <= Concurrency - busy[Here]
    /\ grant' = g
    /\ phase' = "claim"
    /\ UNCHANGED <<place, before, workers, open, wake, timer, rotation, at, dispatched,
                   wakers, faults, ghosts>>

\* ORDER BY next_attempt_at LIMIT grant.
First(batch, e) ==
    /\ batch \subseteq DueAt(e)
    /\ Cardinality(batch) <= grant
    /\ batch # DueAt(e) => Cardinality(batch) = grant
    /\ \A n \in batch, m \in DueAt(e) \ batch : <<m, n>> \notin before

\* The claim and the start of its workers.
Claim(batch) ==
    /\ phase = "claim"
    /\ First(batch, Here)
    /\ NoLongerDue(batch, "claimed")
    /\ busy' = [busy EXCEPT ![Here] = @ + Cardinality(batch)]
    /\ dispatched' = (dispatched \/ batch # {})
    /\ at' = at + 1
    /\ phase' = "visit"
    /\ passed' = passed \ batch
    /\ silent' = silent \ batch
    /\ grant' = 0
    /\ UNCHANGED <<leaving, open, wake, timer, rotation, wakers, faults>>

\* ClaimForEndpoint returns an error: it is logged and the round goes on.
ClaimFails ==
    /\ phase = "claim"
    /\ faults < MaxFaults
    /\ faults' = faults + 1
    /\ at' = at + 1
    /\ phase' = "visit"
    /\ grant' = 0
    /\ passed' = passed \cup DueAt(Here)
    /\ UNCHANGED <<place, before, workers, open, wake, timer, rotation, dispatched,
                   wakers, silent>>

\* After a round that claimed something comes another; otherwise the timer is stopped,
\* drained and reset.
EndRound ==
    /\ phase = "visit"
    /\ at = Count
    /\ phase' = IF dispatched THEN "start" ELSE "waiting"
    /\ timer' = IF dispatched THEN timer ELSE "armed"
    /\ at' = 0
    /\ dispatched' = FALSE
    /\ UNCHANGED <<place, before, workers, open, wake, rotation, grant, wakers, faults,
                   ghosts>>

TimerFires ==
    /\ timer = "armed"
    /\ timer' = "fired"
    /\ UNCHANGED <<place, before, workers, open, wake, loop, wakers, faults, ghosts>>

\* The select: either channel, when both are ready.
Woken ==
    /\ phase = "waiting"
    /\ wake
    /\ wake' = FALSE
    /\ phase' = "start"
    /\ UNCHANGED <<place, before, workers, open, timer, rotation, at, grant, dispatched,
                   wakers, faults, ghosts>>

Polled ==
    /\ phase = "waiting"
    /\ timer = "fired"
    /\ timer' = "drained"
    /\ phase' = "start"
    /\ UNCHANGED <<place, before, workers, open, wake, rotation, at, grant, dispatched,
                   wakers, faults, ghosts>>

LoopStep ==
    \/ StartRound
    \/ Skip
    \/ \E g \in 1..BatchSize : Grant(g)
    \/ \E batch \in SUBSET Notifications : Claim(batch)
    \/ ClaimFails
    \/ EndRound
    \/ Woken
    \/ Polled

-------------------------------------------------------------------------------

Next ==
    \/ \E n \in Notifications :
          \/ Submit(n)
          \/ Requeue(n)
          \/ RetryComesDue(n)
          \/ Cancel(n)
          \/ \E where \in {"settled", "dead", "later", "lost"} : Finish(n, where)
    \/ \E expired \in SUBSET Notifications :
          \E exhausted \in SUBSET expired : Reap(expired, exhausted)
    \/ \E w \in wakers : Wake(w)
    \/ \E e \in Configured : Leave(e) \/ Trip(e) \/ Readmit(e)
    \/ TimerFires
    \/ LoopStep

Spec == Init /\ [][Next]_vars

\* The loop's goroutine runs, the poll timer fires, cooldowns end, and workers end by
\* their timeout, those of the stuck endpoints excepted: these may take for ever.
Fairness ==
    /\ WF_vars(LoopStep)
    /\ WF_vars(TimerFires)
    /\ \A e \in Configured : WF_vars(Readmit(e)) /\ WF_vars(Leave(e))
    /\ \A n \in {m \in Notifications : Endpoint[m] \notin Stuck} :
          WF_vars(\E where \in {"settled", "dead", "later", "lost"} : Finish(n, where))

FairSpec == Spec /\ Fairness

-------------------------------------------------------------------------------
(* Properties. *)

\* Every variable has its type.
TypeOK ==
    /\ place \in [Notifications -> Place]
    /\ before \subseteq Notifications \X Notifications
    /\ busy \in [Configured -> Nat]
    /\ leaving \in [Configured -> Nat]
    /\ open \subseteq Configured
    /\ wake \in BOOLEAN
    /\ timer \in Timer
    /\ phase \in Phase
    /\ rotation \in 0..Count-1
    /\ at \in 0..Count
    /\ grant \in Nat
    /\ dispatched \in BOOLEAN
    /\ wakers \subseteq SUBSET Notifications
    /\ faults \in Nat
    /\ passed \subseteq Due
    /\ silent \subseteq Due

\* Rows a writer will still call Wake for.
Announced == UNION wakers

\* No wake-up is lost: when the loop sleeps with no token in the channel, every due row
\* of a configured endpoint was refused by a full semaphore, an open breaker or a failing
\* claim, came due by the clock, or has a writer that has yet to call Wake. A row
\* committed during a round, or behind a limited batch, is never slept on.
NoLostWakeup ==
    phase = "waiting" /\ ~wake =>
        \A n \in Due : Endpoint[n] \in Configured => n \in passed \cup silent \cup Announced

\* A vendor that never answers holds up nobody else: the due rows of every other
\* endpoint are taken, although the same goroutine dispatches for all of them.
OthersAreServed ==
    \A n \in {m \in Notifications : Endpoint[m] \in Configured \ Stuck} :
        (place[n] = "due") ~> (place[n] # "due")

\* What README 4.2 and the comment in Deliver say: a notification whose endpoint is not
\* configured goes to dead letters.
OrphansDie ==
    \A n \in {m \in Notifications : Endpoint[m] \notin Configured} :
        (place[n] = "due") ~> (place[n] # "due")

================================================================================
