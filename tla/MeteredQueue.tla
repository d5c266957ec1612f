----------------------------- MODULE MeteredQueue -----------------------------
(***************************************************************************)
(* The durable queue as its operators see it: NotifyQueue with the two     *)
(* counters an alert watches for notifications that end badly,             *)
(* notify_terminal_total and notify_lease_recovered_total.                 *)
(*                                                                         *)
(* They are kept by every process on its own, in memory (metrics.go), and  *)
(* incremented by a worker or a reaper after its statement committed and   *)
(* in a step of its own: a process may die in between, and takes all it    *)
(* ever counted with it. Series are summed over endpoints.                 *)
(***************************************************************************)
EXTENDS NotifyQueue, Functions

ASSUME InstancesAssumption == IsFiniteSet(Instances)

VARIABLES
    counters,       \* metrics.Metrics of every process: [Instances -> [Series -> Nat]]
    finishing,      \* workers whose terminal write-back committed, before their Inc
    recovering,     \* reapers between RecoverExpiredLeases and their Add: rows it took
    entries,        \* history: rows that entered each of the two terminal states
    forgotten       \* history: what dead processes had counted, or still had to count

meters == <<counters, finishing, recovering, entries, forgotten>>
meteredVars == <<vars, meters>>

Series == {"succeeded", "dead", "recovered"}

NoCount == [s \in Series |-> 0]

MeteredInit ==
    /\ Init
    /\ counters = [i \in Instances |-> NoCount]
    /\ finishing = {}
    /\ recovering = [i \in Instances |-> 0]
    /\ entries = [s \in {"succeeded", "dead"} |-> 0]
    /\ forgotten = NoCount

\* The rows that this step moves into status s.
Entering(s) == {n \in Notifications : rows[n].status # s /\ rows'[n].status = s}

\* Every step of the queue, whoever takes it.
NoteEntries ==
    entries' = [s \in {"succeeded", "dead"} |-> entries[s] + Cardinality(Entering(s))]

-------------------------------------------------------------------------------

\* Mutant: the worker counts before it looks at the error of the write-back.
CountDiscardedToo(d, s) ==
    finishing' = finishing \cup {[n |-> d.n, claim |-> d.claim, owner |-> d.owner,
                                  series |-> s]}

\* finishSuccess and finishDead go on to their Inc only when the write-back matched.
WillCount(d, s) ==
    finishing' = IF Owned(d)
                 THEN finishing \cup {[n |-> d.n, claim |-> d.claim, owner |-> d.owner,
                                       series |-> s]}
                 ELSE finishing

\* The rest of a worker's steps touch neither counter; an error of the write-back ends
\* the worker before its Inc.
UncountedStep(d) ==
    /\ \/ Send(d)
       \/ \E o \in Outcome \ {"none"} : RefuseUnsent(d, o) \/ Answer(d, o)
       \/ \E ok \in BOOLEAN : RecordAttempt(d, ok)
       \/ ScheduleRetry(d)
       \/ WriteBackFails(d)
    /\ UNCHANGED finishing

WorkerStep(d) ==
    /\ \/ UncountedStep(d)
       \/ FinishSuccess(d) /\ WillCount(d, "succeeded")
       \/ FinishDead(d) /\ WillCount(d, "dead")
    /\ NoteEntries
    /\ UNCHANGED <<counters, recovering, forgotten>>

\* metrics.Add on the series of one process.
Add(i, s, k) == counters' = [counters EXCEPT ![i][s] = @ + k]

\* The worker's Inc of notify_terminal_total.
CountTerminal(f) ==
    /\ Add(f.owner, f.series, 1)
    /\ finishing' = finishing \ {f}
    /\ UNCHANGED <<vars, recovering, entries, forgotten>>

\* One tick of the reaper of process i; it does nothing else until it has counted.
Reap(i) ==
    /\ recovering[i] = 0
    /\ recovering' = [recovering EXCEPT ![i] = Cardinality({n \in Notifications : Expired(n)})]
    /\ RecoverExpiredLeases
    /\ NoteEntries
    /\ UNCHANGED <<counters, finishing, forgotten>>

\* The reaper's Add of notify_lease_recovered_total.
CountRecovered(i) ==
    /\ recovering[i] > 0
    /\ Add(i, "recovered", recovering[i])
    /\ recovering' = [recovering EXCEPT ![i] = 0]
    /\ UNCHANGED <<vars, finishing, entries, forgotten>>

-------------------------------------------------------------------------------

OwedBy(i, s) ==
    IF s = "recovered" THEN recovering[i]
    ELSE Cardinality({f \in finishing : f.owner = i /\ f.series = s})

\* The process dies, with or without workers in the middle of a delivery: its
\* counters start again from zero.
ProcessDies(i) ==
    /\ \/ Crash(i)
       \/ /\ \A d \in deliveries : d.owner # i
          /\ UNCHANGED vars
    /\ counters' = [counters EXCEPT ![i] = NoCount]
    /\ finishing' = {f \in finishing : f.owner # i}
    /\ recovering' = [recovering EXCEPT ![i] = 0]
    /\ forgotten' = [s \in Series |-> forgotten[s] + counters[i][s] + OwedBy(i, s)]
    /\ UNCHANGED entries

\* Clients, operators, the clock and the claim.
Elsewhere ==
    /\ \/ \E n \in Notifications :
             \/ \E budget \in 1..MaxBudget : Enqueue(n, budget)
             \/ BecomeDue(n)
             \/ LeaseExpires(n)
             \/ \E extra \in 1..MaxExtra : Requeue(n, extra)
             \/ Cancel(n)
       \/ \E i \in Instances, batch \in SUBSET Notifications : Claim(i, batch)
    /\ NoteEntries
    /\ UNCHANGED <<counters, finishing, recovering, forgotten>>

MeteredNext ==
    \/ Elsewhere
    \/ \E d \in deliveries : WorkerStep(d)
    \/ \E f \in finishing : CountTerminal(f)
    \/ \E i \in Instances : Reap(i) \/ CountRecovered(i) \/ ProcessDies(i)

\* The queue's own fairness, and reapers that count what they recovered, without which
\* they do not tick again. Whether a worker's count is ever made does not matter.
MeteredFairness ==
    /\ Fairness
    /\ \A i \in Instances : WF_meteredVars(CountRecovered(i))

MeteredSpec == MeteredInit /\ [][MeteredNext]_meteredVars /\ MeteredFairness

-------------------------------------------------------------------------------
(* Properties. *)

\* What every process has counted in a series, and what it still has to count.
Held(s) == [i \in Instances |-> counters[i][s] + OwedBy(i, s)]

\* All that was ever counted in a series, and all a live process still has to count.
Tally(s) == forgotten[s] + SumFunction(Held(s))

\* Neither terminal series overstates: a result that came after its lease was lost is
\* not counted, whoever settled the row instead. And no dead letter is silent: each one
\* shows in notify_terminal_total{state="dead"} or, when the reaper made it, in
\* notify_lease_recovered_total; what a dead process took with it is all that is missing.
DeadLettersCounted ==
    /\ Tally("succeeded") = entries["succeeded"]
    /\ Tally("dead") <= entries["dead"]
    /\ entries["dead"] <= Tally("dead") + Tally("recovered")

===============================================================================
