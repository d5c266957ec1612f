------------------------------ MODULE NotifyQueue ------------------------------
(***************************************************************************)
(* The durable queue of notifyd and the deliveries that drain it: the      *)
(* notifications table (store/sqlite.go), the worker goroutines of every   *)
(* instance sharing it (dispatcher.deliverOne), the reaper and the admin   *)
(* operations.                                                             *)
(*                                                                         *)
(* Every SQL statement or transaction of the store is one action: SQLite   *)
(* runs them one at a time. A worker takes a step between any two of them. *)
(* A row is the part of a notification the code decides on; wall-clock     *)
(* comparisons are flags that time flips: `due` is next_attempt_at <= now, *)
(* and lease is "expired" once lease_expires_at < now.                     *)
(***************************************************************************)
EXTENDS Naturals, FiniteSets

CONSTANTS
    Notifications,      \* ids that may be submitted
    Instances,          \* owner names of the notifyd processes on the database
    NoOwner,            \* lease_owner IS NULL
    Endpoint,           \* [Notifications -> endpoint name]
    Key,                \* [Notifications -> idempotency key], NoKey for the empty key
    NoKey,
    MaxBudget,          \* bound: largest max_attempts a submission asks for
    MaxExtra,           \* bound: largest extra_attempts of a requeue
    MaxRequeues,        \* bound: requeues an operator issues in all
    MaxClaims,          \* bound: claims of one notification
    BatchSize,          \* dispatcher.batch_size
    MayOverrun          \* whether a lease can expire under a live worker:
                        \* FALSE is timeout + write-back < lease_duration and no
                        \* process pause, TRUE drops that assumption

ASSUME OwnerAssumption == NoOwner \notin Instances
ASSUME NotificationsAssumption == IsFiniteSet(Notifications)
ASSUME BoundAssumption ==
    /\ MaxBudget \in Nat \ {0}
    /\ MaxExtra \in Nat \ {0}
    /\ MaxRequeues \in Nat
    /\ MaxClaims \in Nat
    /\ BatchSize \in Nat \ {0}
    /\ MayOverrun \in BOOLEAN

VARIABLES
    rows,           \* the notifications table
    deliveries,     \* the worker goroutines, with the snapshot each one claimed
    audit,          \* delivery_attempts: <<notification, attempt_no>> pairs
    sent,           \* history: requests put on the wire, per notification
    acks,           \* history: success answers received, per notification
    lost,           \* history: deliveries that ended without a write-back
    claims,         \* history: claims of each notification so far
    requeues        \* history: requeues so far

ghosts == <<sent, acks, lost, claims, requeues>>
vars == <<rows, deliveries, audit, sent, acks, lost, claims, requeues>>

Status == {"absent", "pending", "in_flight", "succeeded", "dead", "canceled"}
Terminal == {"succeeded", "dead", "canceled"}
Lease == {"none", "running", "expired"}
Outcome == {"none", "success", "retryable", "permanent"}

\* claimed: the goroutine runs, nothing is sent; sent: the request is on the wire;
\* answered: Deliver returned; recorded: RecordAttempt returned.
Phase == {"claimed", "sent", "answered", "recorded"}

Row == [status : Status, attempt : Nat, max : Nat,
        owner : Instances \cup {NoOwner}, lease : Lease, due : BOOLEAN]

Delivery == [n : Notifications, owner : Instances, claim : Nat, no : Nat,
             max : Nat, phase : Phase, outcome : Outcome]

AbsentRow == [status |-> "absent", attempt |-> 0, max |-> 0,
              owner |-> NoOwner, lease |-> "none", due |-> FALSE]

Init ==
    /\ rows = [n \in Notifications |-> AbsentRow]
    /\ deliveries = {}
    /\ audit = {}
    /\ sent = [n \in Notifications |-> 0]
    /\ acks = [n \in Notifications |-> 0]
    /\ lost = [n \in Notifications |-> 0]
    /\ claims = [n \in Notifications |-> 0]
    /\ requeues = 0

DeliveriesOf(n) == {d \in deliveries : d.n = n}

-------------------------------------------------------------------------------
(* Submission. *)

SameKey(n, m) == Key[n] # NoKey /\ Key[n] = Key[m] /\ Endpoint[n] = Endpoint[m]

\* Enqueue of a new notification. A submission whose key is taken on its endpoint
\* is answered with the stored notification and writes nothing.
Enqueue(n, budget) ==
    /\ rows[n].status = "absent"
    /\ ~ \E m \in Notifications : SameKey(n, m) /\ rows[m].status # "absent"
    /\ rows' = [rows EXCEPT ![n] = [status |-> "pending", attempt |-> 0,
                                    max |-> budget, owner |-> NoOwner,
                                    lease |-> "none", due |-> TRUE]]
    /\ UNCHANGED <<deliveries, audit, ghosts>>

\* next_attempt_at passes.
BecomeDue(n) ==
    /\ rows[n].status = "pending"
    /\ ~ rows[n].due
    /\ rows' = [rows EXCEPT ![n].due = TRUE]
    /\ UNCHANGED <<deliveries, audit, ghosts>>

-------------------------------------------------------------------------------
(* The dispatcher's claim. *)

\* Mutant: the claim does not look at the status.
ClaimableInAnyStatus(n) == rows[n].status # "absent" /\ rows[n].due

Claimable(n) == rows[n].status = "pending" /\ rows[n].due

Claimed(row, i) ==
    [row EXCEPT !.status = "in_flight", !.owner = i, !.lease = "running"]

\* The goroutine for a claimed task: it works from the row as the claim read it.
NewDelivery(n, i) ==
    [n |-> n, owner |-> i, claim |-> claims[n] + 1, no |-> rows[n].attempt + 1,
     max |-> rows[n].max, phase |-> "claimed", outcome |-> "none"]

\* ClaimForEndpoint and the goroutines dispatchEndpoint starts for its batch. How
\* many rows it asks for is up to the semaphore and the breaker; which of the due
\* rows come first (ORDER BY next_attempt_at) is left open.
Claim(i, batch) ==
    /\ batch # {}
    /\ Cardinality(batch) <= BatchSize
    /\ \A n, m \in batch : Endpoint[n] = Endpoint[m]
    /\ \A n \in batch : Claimable(n) /\ claims[n] < MaxClaims
    /\ rows' = [n \in Notifications |->
                  IF n \in batch THEN Claimed(rows[n], i) ELSE rows[n]]
    /\ deliveries' = deliveries \cup {NewDelivery(n, i) : n \in batch}
    /\ claims' = [n \in Notifications |->
                    IF n \in batch THEN claims[n] + 1 ELSE claims[n]]
    /\ UNCHANGED <<audit, sent, acks, lost, requeues>>

-------------------------------------------------------------------------------
(* A worker, step by step: send, answer, audit, write back. *)

Advance(d, e) == (deliveries \ {d}) \cup {e}

\* The HTTP request leaves the process.
Send(d) ==
    /\ d.phase = "claimed"
    /\ deliveries' = Advance(d, [d EXCEPT !.phase = "sent"])
    /\ sent' = [sent EXCEPT ![d.n] = @ + 1]
    /\ UNCHANGED <<rows, audit, acks, lost, claims, requeues>>

\* Deliver gives up before anything is sent: the template does not render (permanent), or
\* the delivery context is already cancelled or net/http refuses a header (retryable).
RefuseUnsent(d, outcome) ==
    /\ d.phase = "claimed"
    /\ outcome # "success"
    /\ deliveries' = Advance(d, [d EXCEPT !.phase = "answered", !.outcome = outcome])
    /\ UNCHANGED <<rows, audit, ghosts>>

\* The vendor's answer, a timeout, a reset or the shutdown's cancellation: Deliver
\* returns its classification.
Answer(d, outcome) ==
    /\ d.phase = "sent"
    /\ deliveries' = Advance(d, [d EXCEPT !.phase = "answered", !.outcome = outcome])
    /\ acks' = IF outcome = "success" THEN [acks EXCEPT ![d.n] = @ + 1] ELSE acks
    /\ UNCHANGED <<rows, audit, sent, lost, claims, requeues>>

\* The audit row is inserted before the outcome is written back; a failed insert is
\* logged and ignored.
RecordAttempt(d, ok) ==
    /\ d.phase = "answered"
    /\ deliveries' = Advance(d, [d EXCEPT !.phase = "recorded"])
    /\ audit' = IF ok THEN audit \cup {<<d.n, d.no>>} ELSE audit
    /\ UNCHANGED <<rows, ghosts>>

\* Mutant: the write-back matches on the id alone.
MatchedById(d) == rows[d.n].status # "absent"

\* The WHERE clause of every write-back.
Owned(d) == rows[d.n].status = "in_flight" /\ rows[d.n].owner = d.owner

\* A write-back's UPDATE and the end of the goroutine. No row matches when the lease
\* was taken away: the result is discarded (ErrConflict).
WriteBack(d, row) ==
    /\ d.phase = "recorded"
    /\ deliveries' = deliveries \ {d}
    /\ rows' = IF Owned(d) THEN [rows EXCEPT ![d.n] = row] ELSE rows
    /\ lost' = IF Owned(d) THEN lost ELSE [lost EXCEPT ![d.n] = @ + 1]
    /\ UNCHANGED <<audit, sent, acks, claims, requeues>>

\* Mutant: the attempt column is forgotten.
ReleasedUncharged(d, s) ==
    [rows[d.n] EXCEPT !.status = s, !.owner = NoOwner, !.lease = "none"]

\* lease_owner and lease_expires_at are cleared, attempt is the delivery's number.
Released(d, s) ==
    [rows[d.n] EXCEPT !.status = s, !.attempt = d.no, !.owner = NoOwner,
                      !.lease = "none"]

\* Mutant: a retryable failure is taken for a success.
FinishSuccessOnRetryable(d) ==
    /\ d.outcome # "permanent"
    /\ WriteBack(d, Released(d, "succeeded"))

FinishSuccess(d) ==
    /\ d.outcome = "success"
    /\ WriteBack(d, Released(d, "succeeded"))

\* finishDead: a permanent failure, or a retryable one on the last attempt of the
\* budget the claim read.
FinishDead(d) ==
    /\ \/ d.outcome = "permanent"
       \/ d.outcome = "retryable" /\ d.no >= d.max
    /\ WriteBack(d, Released(d, "dead"))

ScheduleRetry(d) ==
    /\ d.outcome = "retryable"
    /\ d.no < d.max
    /\ WriteBack(d, [Released(d, "pending") EXCEPT !.due = FALSE])

\* The write-back itself fails (database error, bookkeepingTimeout): it is logged,
\* the worker ends, the row keeps its lease.
WriteBackFails(d) ==
    /\ d.phase = "recorded"
    /\ deliveries' = deliveries \ {d}
    /\ lost' = [lost EXCEPT ![d.n] = @ + 1]
    /\ UNCHANGED <<rows, audit, sent, acks, claims, requeues>>

DeliveryStep(d) ==
    \/ Send(d)
    \/ \E o \in Outcome \ {"none"} : RefuseUnsent(d, o) \/ Answer(d, o)
    \/ \E ok \in BOOLEAN : RecordAttempt(d, ok)
    \/ FinishSuccess(d)
    \/ FinishDead(d)
    \/ ScheduleRetry(d)
    \/ WriteBackFails(d)

-------------------------------------------------------------------------------
(* Failure and recovery. *)

\* The process of instance i dies, or leaves its drain with workers unfinished, and
\* comes back under the same owner name. What its workers knew is gone.
Crash(i) ==
    /\ \E d \in deliveries : d.owner = i
    /\ deliveries' = {d \in deliveries : d.owner # i}
    /\ lost' = [n \in Notifications |->
                  lost[n] + Cardinality({d \in deliveries : d.n = n /\ d.owner = i})]
    /\ UNCHANGED <<rows, audit, sent, acks, claims, requeues>>

\* lease_expires_at passes. Without overruns the worker has ended by then.
LeaseExpires(n) ==
    /\ rows[n].lease = "running"
    /\ MayOverrun \/ DeliveriesOf(n) = {}
    /\ rows' = [rows EXCEPT ![n].lease = "expired"]
    /\ UNCHANGED <<deliveries, audit, ghosts>>

\* Mutants: a crash that costs no attempt, and a budget off by one.
RecoveredUncharged(row) ==
    [row EXCEPT !.status = "pending", !.owner = NoOwner, !.lease = "none", !.due = TRUE]

RecoveredOnceTooOften(row) ==
    [row EXCEPT !.attempt = @ + 1,
                !.status = IF row.attempt + 1 > row.max THEN "dead" ELSE "pending",
                !.owner = NoOwner, !.lease = "none", !.due = TRUE]

\* What RecoverExpiredLeases makes of a row: the lost attempt is charged, and the
\* one that exhausts the budget is the last.
Recovered(row) ==
    [row EXCEPT !.attempt = @ + 1,
                !.status = IF row.attempt + 1 >= row.max THEN "dead" ELSE "pending",
                !.owner = NoOwner, !.lease = "none", !.due = TRUE]

\* Mutants: the reaper leaves out the rows on their last attempt, or takes every lease.
ExpiredWithBudget(n) ==
    /\ rows[n].status = "in_flight"
    /\ rows[n].lease = "expired"
    /\ rows[n].attempt + 1 < rows[n].max

ExpiredOrNot(n) == rows[n].status = "in_flight"

Expired(n) == rows[n].status = "in_flight" /\ rows[n].lease = "expired"

\* The reaper's single UPDATE over every expired lease, of whatever owner.
RecoverExpiredLeases ==
    /\ \E n \in Notifications : Expired(n)
    /\ rows' = [n \in Notifications |->
                  IF Expired(n) THEN Recovered(rows[n]) ELSE rows[n]]
    /\ UNCHANGED <<deliveries, audit, ghosts>>

-------------------------------------------------------------------------------
(* The admin operations. *)

Requeue(n, extra) ==
    /\ rows[n].status = "dead"
    /\ requeues < MaxRequeues
    /\ rows' = [rows EXCEPT ![n] = [@ EXCEPT !.status = "pending", !.due = TRUE,
                                             !.max = rows[n].attempt + extra]]
    /\ requeues' = requeues + 1
    /\ UNCHANGED <<deliveries, audit, sent, acks, lost, claims>>

\* Mutants: a status outside the schema, and a dead letter that may be cancelled.
CancelMisspelt(n) ==
    /\ rows[n].status = "pending"
    /\ rows' = [rows EXCEPT ![n] = [@ EXCEPT !.status = "cancelled", !.owner = NoOwner,
                                             !.lease = "none"]]
    /\ UNCHANGED <<deliveries, audit, ghosts>>

CancelDead(n) ==
    /\ rows[n].status \in {"pending", "dead"}
    /\ rows' = [rows EXCEPT ![n] = [@ EXCEPT !.status = "canceled", !.owner = NoOwner,
                                             !.lease = "none"]]
    /\ UNCHANGED <<deliveries, audit, ghosts>>

Cancel(n) ==
    /\ rows[n].status = "pending"
    /\ rows' = [rows EXCEPT ![n] = [@ EXCEPT !.status = "canceled", !.owner = NoOwner,
                                             !.lease = "none"]]
    /\ UNCHANGED <<deliveries, audit, ghosts>>

-------------------------------------------------------------------------------

Next ==
    \/ \E n \in Notifications :
          \/ \E budget \in 1..MaxBudget : Enqueue(n, budget)
          \/ BecomeDue(n)
          \/ LeaseExpires(n)
          \/ \E extra \in 1..MaxExtra : Requeue(n, extra)
          \/ Cancel(n)
    \/ \E i \in Instances :
          \/ \E batch \in SUBSET Notifications : Claim(i, batch)
          \/ Crash(i)
    \/ \E d \in deliveries : DeliveryStep(d)
    \/ RecoverExpiredLeases

Spec == Init /\ [][Next]_vars

\* Time passes, workers run to the end of their HTTP timeout, some instance's
\* dispatcher keeps polling every endpoint and its reaper keeps ticking. Nothing
\* obliges clients, operators or crashes.
Fairness ==
    /\ \A n \in Notifications :
          /\ WF_vars(BecomeDue(n))
          /\ WF_vars(LeaseExpires(n))
          /\ WF_vars(\E i \in Instances, batch \in SUBSET Notifications :
                        n \in batch /\ Claim(i, batch))
          /\ WF_vars(\E d \in deliveries : d.n = n /\ DeliveryStep(d))
    /\ WF_vars(RecoverExpiredLeases)

FairSpec == Spec /\ Fairness

-------------------------------------------------------------------------------
(* Properties. *)

\* Every variable has its type; a pending or in-flight row is a stored row.
TypeOK ==
    /\ rows \in [Notifications -> Row]
    /\ deliveries \subseteq Delivery
    /\ audit \subseteq Notifications \X Nat
    /\ sent \in [Notifications -> Nat]
    /\ acks \in [Notifications -> Nat]
    /\ lost \in [Notifications -> Nat]
    /\ claims \in [Notifications -> Nat]
    /\ requeues \in Nat

\* Two workers never deliver the same notification at the same time, across all the
\* instances on the database: the claim's transaction and the lease keep it exclusive
\* as long as a lease outlives its worker.
SingleDelivery ==
    \A d, e \in deliveries : d.n = e.n => d = e

\* A live worker still holds the lease it claimed, on the attempt it claimed, so its
\* result is never discarded and a cancel never overtakes it: neither the reaper nor
\* an operator can touch a row under a worker whose lease outlives it.
WorkerHoldsLease ==
    \A d \in deliveries :
        /\ Owned(d)
        /\ d.no = rows[d.n].attempt + 1
        /\ d.claim = claims[d.n]

\* The vendor never receives more requests for a notification than its retry budget,
\* whatever crashes, failed write-backs and requeues happen on the way: the reaper
\* charges the attempts that crashes swallowed.
WithinBudget ==
    \A n \in Notifications : sent[n] <= rows[n].max

\* Every claim is charged exactly one attempt, whether its worker wrote a result, died
\* or failed to write: the attempt column counts the finished claims.
EveryClaimCharged ==
    \A n \in Notifications :
        claims[n] = rows[n].attempt + (IF rows[n].status = "in_flight" THEN 1 ELSE 0)

\* The requests a budget of k can come to, 2^k - 1: one, and what is left of the budget twice
\* over, after the reaper charged the attempt and after its late worker set the row back.
MostRequests[k \in 0..MaxBudget] == IF k = 0 THEN 0 ELSE 1 + 2 * MostRequests[k-1]

\* Overruns cannot keep a notification going for ever. A late result written over a newer
\* claim sets the attempt column back, so the budget alone does not bound the requests;
\* but each worker sets it back once at most. (Until an operator hands out new budget.)
OverrunsAreBounded ==
    requeues = 0 => \A n \in Notifications : sent[n] <= MostRequests[rows[n].max]

\* A vendor acknowledges a notification twice only if a result was lost in between (a
\* crash, a failed or discarded write-back): each acknowledgement is the recorded
\* success, a result a worker still carries, or one of the lost ones.
DuplicatesExplained ==
    \A n \in Notifications :
        acks[n] <= lost[n] + (IF rows[n].status = "succeeded" THEN 1 ELSE 0)
                   + Cardinality({d \in DeliveriesOf(n) : d.outcome = "success"})

\* A delivery that is not yet in the audit trail has an attempt number no earlier
\* delivery of the notification was recorded under, crashes included: the history Get
\* returns, ordered by attempt_no, is the order the deliveries happened in.
FreshAttemptNo ==
    \A d \in deliveries : d.phase # "recorded" => <<d.n, d.no>> \notin audit

\* A notification is recorded as succeeded only if its vendor acknowledged it, even
\* when a late result of an expired lease is written over a newer claim.
NoFalseSuccess ==
    \A n \in Notifications : rows[n].status = "succeeded" => acks[n] > 0

\* The queue keeps the promise of Lifecycle: no statement of the store, in any
\* interleaving of workers, reaper and operators, moves a status outside
\* allowedTransitions, and succeeded and canceled are final.
Promise == INSTANCE Lifecycle WITH
               status <- [n \in Notifications |-> rows[n].status],
               acked <- {n \in Notifications : acks[n] > 0}
KeepsPromise == Promise!Spec

\* An accepted notification eventually succeeds, dies or is cancelled, although every
\* worker may crash and every write-back may fail: each loss costs one attempt.
Settles ==
    \A n \in Notifications :
        (rows[n].status \in {"pending", "in_flight"}) ~> (rows[n].status \in Terminal)

\* What README 2.3 and assertOwned claim: once a lease was reclaimed, the result of its
\* former holder is not written.
StaleResultDiscarded ==
    [][\A d \in deliveries :
          d \notin deliveries' /\ rows'[d.n] # rows[d.n] => d.claim = claims[d.n]]_vars

================================================================================
