# notifyd in TLA+

`notifyd` accepts notifications over HTTP, stores them in SQLite and delivers them to
vendor endpoints at least once: a dispatcher claims due rows under a lease, worker
goroutines send them and write the result back, a reaper recovers the leases of lost
workers, and a circuit breaker per endpoint keeps an ailing vendor from burning the
retry budget. This directory models the service from the submission to the dead letter,
checks it with TLC and proves its central invariants with TLAPS.

## 1. Inventory

| Component | Code | State it keeps | Operations | Modelled in |
|---|---|---|---|---|
| status machine | `model/notification.go` | a status per notification | `CanTransition`, `CheckTransition` | `Lifecycle` |
| durable queue | `store/sqlite.go`, `schema.sql` | tables `notifications`, `delivery_attempts` | `Enqueue`, `ClaimForEndpoint`, `MarkSucceeded`, `MarkFailure`, `RecoverExpiredLeases`, `RecordAttempt`, `Get`, `List`, `Requeue`, `Cancel`, `Stats` | `NotifyQueue`; `Enqueue` by statement in `Ingress`, `List` in `ListWalk` |
| delivery workers | `dispatcher.deliverOne` and the write-back functions | the row as claimed, the result | send, classify, report, audit, write back | `NotifyQueue` |
| reaper | `dispatcher.runReaper` | none | recover every expired lease | `NotifyQueue`, `MeteredQueue` |
| circuit breaker | `dispatcher/breaker.go` | state, consecutive failures, `openUntil`, probes in flight, generation | `Allowance`, `Acquire`, `Report` | `Breaker` |
| dispatch of one endpoint | `dispatcher.dispatchEndpoint` | the semaphore, the local budget between two steps | free places, allowance, claim, acquire, start | `EndpointDispatch` |
| dispatch loop | `dispatcher.Run`, `tick`, `Wake` | rotation offset, wake channel, poll timer | tick, wait, wake | `Dispatcher` |
| result classification and delays | `delivery/executor.go`, `dispatcher/backoff.go` | none | `classifyStatus`, `classifyTransportError`, `parseRetryAfter`, `nextBackoff`, `resolveDelay`, `breakerVerdict` | `DeliveryAttempt`, `RetryDelay` |
| rendering | `delivery/render.go` | none | `renderHeaders`, `callerHeaderAllowed`, `renderBody` | headers in `RequestHeaders`; bodies no |
| ingress | `api/ingress.go`, `server.go`, `id.go` | none beyond the store | submit, idempotent replay, refusal | `Ingress`, abstractly `IdempotentRegistry` |
| admin API | `api/admin.go` | none beyond the store | get, list with a cursor, retry, cancel | retry and cancel in `NotifyQueue`, list in `ListWalk` |
| shutdown | `cmd/notifyd/main.go`, `dispatcher.Run` | cancellation of two contexts | stop, drain with a grace period, cut | `Shutdown`; crashes and restarts in `NotifyQueue` |
| metrics | `metrics/metrics.go` | counters per process, in memory | `Inc`, `Add`, `Observe` | the two counters alerts watch, in `MeteredQueue` |
| configuration | `config/config.go` | the resolved endpoints | inheritance, validation | `Configuration` |
| mock vendor, demo | `cmd/mockvendor`, `scripts` | - | - | no |

How they interact: ingress and admin handlers call the store and, after a write that
makes a row due, `Wake`. The dispatch goroutine visits the endpoints in turn; for each
it counts the free places of the semaphore, asks the breaker, claims that many rows in
one transaction, registers them with the breaker and starts one goroutine per row. A
worker calls the vendor, reports to the breaker, inserts the audit row and writes the
result back, which the store accepts only for a row that is `in_flight` with the
worker's owner name; then it counts what ended and releases its place. The reaper runs
beside them. Several processes may share one database file, each with its own owner
name and its own counters, and a process that restarts comes back under the name it had.

What is hard in this code:

* three parties (workers, reaper, operators) write one row with no common lock, each
  guarded only by the `WHERE` of its own statement;
* a worker decides on the row as its claim read it, seconds earlier;
* a crash between any two of claim, request, audit row and write-back;
* a lease that expires under a worker that is slow rather than dead;
* a client that never heard its answer submits again, while its first try still runs in
  another process;
* the breaker's allowance is read before the claim and used after it, and reports of
  requests that started in another state of the breaker arrive at any time;
* one goroutine serves all endpoints, so it must never wait for one of them;
* counters live in processes that may die between a commit and the count of it.

What makes each component correct:

* queue and workers: one live delivery per notification; the vendor never sees more
  requests than the budget; every claim is charged once; a succeeded row was really
  acknowledged; a duplicate has an explanation; audit numbers are fresh; statuses move
  only along `allowedTransitions`; everything settles;
* breaker and dispatch: the dispatch goroutine never blocks; probes are bounded and
  never leak; an outage that is over cannot reopen a breaker; a half-open endpoint moves
  and a healthy one closes;
* loop: nothing due is slept on once it was announced; a silent vendor holds up nobody
  else; every place of a semaphore is some worker's;
* attempt and delays: every answer is classified as the README's table says; what is
  retried is what counts against the vendor; waits stay on the curve and honour
  `Retry-After`;
* configuration and headers: what loads is what the other parts assume of it, the nearest
  setting holds, and nobody can pose as the service;
* ingress: one notification per key, honest answers, and every patient client gets one;
* list: no row twice, and none missed but for ties;
* metrics: no dead letter is silent, and no terminal series overstates;
* shutdown: the store is closed on nothing half done, nothing unstored is acknowledged,
  and the process ends.

## 2. Modules

| Module | Role |
|---|---|
| `Lifecycle` | abstract: what a client and an operator may rely on. A status moves along `allowedTransitions`, and succeeds only after an acknowledgement |
| `NotifyQueue` | the table, the workers of every process, the reaper, the operators |
| `NotifyQueueProofs` | TLAPS proofs about `NotifyQueue`: types, `Lifecycle`, leases and budgets |
| `NotifyQueueOverrunProofs` | TLAPS proofs about `NotifyQueue` when leases expire under live workers: duplicates, the bound on requests, and the laws of finite sums they need |
| `MeteredQueue` | `NotifyQueue` with the counters of every process |
| `MeteredQueueProofs` | TLAPS proofs that the counters tell the truth |
| `Breaker` | the breaker as a record and one operator per method |
| `EndpointDispatch` | dispatch goroutine, semaphore and workers of one endpoint around a `Breaker` |
| `EndpointDispatchProofs` | TLAPS proofs: it never blocks, probes are accounted for, only fresh failures trip |
| `Dispatcher` | the loop over all endpoints, its wake channel and timer |
| `DispatcherProofs` | TLAPS proofs that no wake-up and no place of a semaphore is lost |
| `Configuration` | `Load`: inheritance field by field, then validation |
| `RetryDelay` | how long a failure waits |
| `RequestHeaders` | who decides each header of a request |
| `DeliveryAttempt` | one attempt at an endpoint of any configuration that loads: headers, redirects, classification, verdict, decision, wait |
| `DeliveryAttemptProofs` | TLAPS proofs: the table, the breaker, `Retry-After`, the curve, what is loaded, headers |
| `IdempotentRegistry` | abstract: what the submission endpoint promises. A register with one entry per key, and answers that name it |
| `Ingress` | retrying clients, the handlers of any number of processes and the write lock between them |
| `IngressProofs` | TLAPS proofs about `Ingress` and `ListWalk`: it implements `IdempotentRegistry`, errors are true, the walk shows each row once |
| `ListWalk` | `Ingress` with an operator who pages through the table |
| `Shutdown` | main goroutine, HTTP server, `Run`, reaper, workers and the store's handle while a process stops |
| `ShutdownProofs` | TLAPS proofs that a stop is clean and that what was accepted is stored |
| `MCNotifyQueue`, `MCMeteredQueue`, `MCEndpointDispatch`, `MCDispatcher`, `MCDeliveryAttempt`, `MCListWalk`, `MCShutdown` | the values TLC needs: assignments, configuration files, sets of codes, symmetry |

They meet at the steps they share. `EndpointDispatch` is composed with `Breaker`,
`DeliveryAttempt` with `RetryDelay` (and through it `Configuration`) and
`RequestHeaders`; `MeteredQueue` extends `NotifyQueue`, `ListWalk` extends `Ingress`;
`NotifyQueue` implements `Lifecycle`, and `Ingress` implements `IdempotentRegistry`. A
claim is one action in `NotifyQueue`, `EndpointDispatch`, `Dispatcher` and `Shutdown`: the
first says which rows and on what terms, the second how many, the third when, the last
until when. `Enqueue` is one action in `NotifyQueue` and every statement of it an action
in `Ingress`. The nondeterminism one module leaves open is what another decides, and what
one assumes of its constants another establishes: `LoadedIsSound` in `DeliveryAttempt` is
what `EndpointDispatch` assumes of thresholds and probes, `RetryDelay` of curves and
`NotifyQueue` of leases.

### NotifyQueue and the code

Each SQL statement or transaction of the store is one action, because SQLite runs one
writer at a time and every state-changing call of the status path is one `UPDATE`,
`INSERT` or `_txlock=immediate` transaction. A row keeps the columns the code decides
on: `status`, `attempt`, `max_attempts`, `lease_owner`, and two flags for the clock:
`due` for `next_attempt_at <= now`, `lease = "expired"` for `lease_expires_at < now`.
`BecomeDue` and `LeaseExpires` are time.

`deliveries` is the set of live worker goroutines, each with the snapshot (`no`, `max`,
`owner`) its claim returned and the number of that claim. `Send`, `RefuseUnsent` and
`Answer` are `Executor.Deliver`; `RecordAttempt`, `FinishSuccess`, `FinishDead`,
`ScheduleRetry` follow `deliverOne` in its order; `WriteBackFails` is the branch of
`logWriteback`. A goroutine takes a step between any two others, `Crash` removes all
goroutines of a process, and a failed insert of the audit row is the `ok = FALSE` of
`RecordAttempt`.

`sent`, `acks`, `lost`, `claims` and `requeues` are history for the properties. They
influence behaviour only through the bounds `MaxClaims` and `MaxRequeues`.

Left open, hence every choice is allowed: which of the due rows a claim takes and how
many (the breaker and the semaphore decide that in `EndpointDispatch`), what the vendor
answers, how long anything takes. Left out: payloads, error texts, timestamps as data, the
`Stats` query.

`MayOverrun` names the assumption the code makes in `config.go` (the lease must be
longer than every endpoint's timeout) and cannot enforce: `FALSE` means a lease
outlives its worker, `TRUE` lets it expire at any time, as after a process pause, a slow
write-back, or a claim that waited long for the write lock (`sqlite.go:209` reads the
clock before it begins the transaction). Nothing in the validation leaves room for
`bookkeepingTimeout` between the timeout and the lease either.

### MeteredQueue and the code

`notify_terminal_total` is incremented by a worker after its write-back matched
(`WillCount`, then `CountTerminal`), `notify_lease_recovered_total` by the reaper after its
`UPDATE` (`Reap`, then `CountRecovered`). The count is a step of its own, and
`ProcessDies` takes the counters and what was still to be counted with it. `entries`
counts the rows that really entered `succeeded` or `dead`, `forgotten` what died with
processes. A process may die between any two steps, also when it has no worker.

### EndpointDispatch and the code

`AskAllowance`, `Claim`, `Start` are the three stretches of `dispatchEndpoint` between
which other goroutines touch the breaker and the semaphore. `grant` is its local budget.
`workers` maps each semaphore place to its holder; `ReportVerdict` is `breaker.Report`
after `Deliver`, `Release` the deferred `<-sem` after the write-back. `CooldownElapses`
is the clock passing `openUntil`, at any time after the trip: also while requests from
before it are under way. The number of rows a claim finds is arbitrary. `fresh`, `faults`
and `strays` are history; `strays` counts the answers of an earlier generation that came
in during the present half-open period.

### Dispatcher and the code

`StartRound`, then per endpoint `Skip` (no place, or no allowance) or `Grant` and `Claim`
(or `ClaimFails`), then `EndRound` are `tick` and the tail of `Run`'s loop; `Woken` and
`Polled` are the two cases of its `select`. Between any two of them other goroutines
move: writers commit a row (`Submit`, `Requeue`, `Reap`) and call `Wake` later, workers
write back (`Finish`) and give their place back later (`Leave`), breakers trip and
readmit. A row is reduced to its place for the loop (`due`, `later`, `claimed`, ...) and
`next_attempt_at` to the order in which rows became due. The timer distinguishes armed,
fired and drained, because `Run` stops and drains it before each reset.

`passed` and `silent` record the excuses a sleeping loop may have: a row it could not
take when it looked, and a retry that came due by the clock.

### DeliveryAttempt, Configuration, RetryDelay, RequestHeaders and the code

A process loads a file (`Start`) or exits (`RefuseToStart`); `Loads` is `normalize` with
`Endpoint.validate`, `Resolved` what `applyEndpointFallback` fills in, from the endpoint's
own settings through the `defaults` section to the built-in values. A setting that is
absent and one that is zero are the same to the code, and so to the model. `TakeUp` fixes
the notification's budget as `handleSubmit` does and picks any attempt of it.

An attempt is sent or refused (`Refuse`: endpoint missing, template or request broken), cannot
be sent (`FailToSend`), fails in transport, is redirected or answered; `Decide` is the switch
of `deliverOne` with `scheduleRetry`. `FailToSend` is net/http's check of names and values at
the beginning of `client.Do`: `validateSubmit` looks at lengths and line breaks only, so a
header name that is no token, or a header value or an idempotency key with a control
character, gets that far, and the error looks like one of the network. `FollowRedirect` is
external: `NewExecutor` builds an `http.Client` without `CheckRedirect`, so net/http follows a
3xx that has a `Location`, up to its tenth request; a `Location` it cannot parse is an error
(`MisguidedRedirect`). `cause` remembers what the vendor answered first, which is what the
README's table is about, and `asked` the `Retry-After` that was parsed.

`RetryDelay` computes in integers: a duration is a number of ticks in a signed word, the
jitter and the random number are tenths. `Wrapped` is the int64 product of
`parseRetryAfter`. The exponent clamp, the cap, the jitter, the sign test and the conversion
to a duration keep their order; `Converted` makes of a float that no duration holds what
either kind of processor does (`OutOfRange`), which Go leaves to the implementation. The
rounding of the floats is left out.

`RequestHeaders` keeps of `renderHeaders` the order in which four sources write into one
map and which names `callerHeaderAllowed` lets pass; a header's value is who wrote it. One
name stands for each kind: identity, idempotency key, denied, `X-`, no token, other. Of a
caller's value and of the idempotency key it keeps whether net/http sends them (`Sendable`);
an endpoint's own names may be no tokens either, its values are taken to be sendable.

### Ingress, ListWalk and the code

A try is one POST and also the identifier its notification would get. The handler is
`Submit` (validation and `created_at`), `Begin` (`BEGIN IMMEDIATE`: one `lock` for all
processes), `Lookup`, `Insert`, `CommitFound`, `Answer`; `Fail` is the 5 s limit, a
disconnecting client or a database error before the commit took effect, with the deferred
rollback; `Crash` takes any set of running handlers with it. The client is external: it
submits again under the same key until it hears a 2xx, and may do so while its earlier try
still runs. `Insert` has the fallback for a clash with the unique index, and the proof
shows that it is never taken: the transaction already holds the write lock when it
queries. Which requests fail validation is the constant `Invalid`. `told`, in the mapping to
`IdempotentRegistry`, is every 2xx that was sent, heard or not.

`ListWalk` adds an operator who asks for pages while clients submit: a page is one query,
its cursor the `created_at` of the last row. `created_at` is read before the transaction, so rows
appear with timestamps older than rows that are already there. `shown`, `owed` and `twice`
are history.

### Shutdown and the code

`main` goes through serving, `srv.Shutdown`, `wg.Wait`, the deferred `st.Close` and the
end of the process; `run` through loop, reaper, grace period, cut and return. `stopping`
is the signal's context, `cut` the deliveries'. Handlers go on while `Shutdown` waits
and even after it gave up; a worker ends by `WriteBack` or, with a failing or closed
database, `WriteBackFails`. Each time limit may run out at any moment.
`gaveUp` remembers that the second wait ran out with workers left, which `Run` logs as an
error: that wait is `bookkeepingTimeout` plus two seconds, and the write-back of a
cancelled worker has `bookkeepingTimeout`.

## 3. Runs

Queue, `MCNotifyQueue` and `MCMeteredQueue`:

| Run | Bounds | Shows |
|---|---|---|
| `queue_timely` | 2 notifications without keys on one endpoint, 2 processes, budget up to 2, 1 requeue, 4 claims, batches of 2, leases outlive workers | `SingleDelivery`, `WorkerHoldsLease`, `WithinBudget`, `EveryClaimCharged`, `FreshAttemptNo`, `NoFalseSuccess`, `KeepsPromise` |
| `queue_overrun` | 2 submissions with one key, 2 processes, budget up to 2, 4 claims, no requeue, leases expire at any time, fairness, counters | what survives overruns: `DuplicatesExplained`, `OverrunsAreBounded`; `DeadLettersCounted`; `Settles` |
| `queue_stale_result` | 1 process, overruns, expected violation | `StaleResultDiscarded` fails: section 7 |

The exact constants stand in each `.cfg`. Two notifications are enough for batches and
for a key that is taken, and rows interact in no other way: the reaper's `UPDATE`
treats each row alone. Two processes are enough for "another owner", and one process whose row
is reclaimed and claimed again covers "the same owner". A budget of two gives a first
attempt, a retry and exhaustion; in `queue_timely` the requeue raises it once more. In
`queue_overrun` four claims let a row be reclaimed from a live worker, claimed by
another process and settled by either, which is where a count could go wrong: `WithinBudget`
does fail there, with three requests on a budget of two, the bound of `OverrunsAreBounded`
exactly; four claims would have room for a fourth request if there were one.

Endpoint, `MCEndpointDispatch`:

| Run | Shows |
|---|---|
| `breaker_overlapping` | 3 places, threshold 2, 2 probes, answers of the outage may come during the probes: `StartNeverBlocks`, `ProbesHaveWorkers`, `ProbesExplained`, `OnlyFreshFailuresTrip`, `HalfOpenMoves`, `Recovers` |
| `breaker_probe_limit` | expected violation of `ProbeLimit`: section 7 |

Three places let a stale worker, a probe and a fresh claim coexist, which is what each
hazard needs; threshold 2 separates consecutive from single failures. `MaxFaults` bounds
unhealthy answers, so that generation numbers stay finite: each trip takes one.

Loop, `MCDispatcher`:

| Run | Bounds | Shows |
|---|---|---|
| `loop_wakeups` | 2 endpoints, 2 notifications on one of them, 2 places, batches of 1, 1 trip or failing claim | `NoLostWakeup` |
| `loop_isolation` | 2 endpoints, the vendor of one never answers | `OthersAreServed` |
| `loop_orphans` | a row of a removed endpoint, expected violation | `OrphansDie` fails: section 7 |

A batch of one behind two due rows is the case where a limited claim must lead to
another round; two endpoints are what the rotation needs.

Attempt, `MCDeliveryAttempt`, with 21 status codes at both ends of every range:

| Run | Bounds | Shows |
|---|---|---|
| `attempt` | 84 configuration files: lists left alone, replaced and contradictory; curves inherited, cut short, long, and beyond what a duration holds; breaker switches at every level; timeouts against the lease; headers; malformed, double and differing endpoints. Two redirects and the give-up, every attempt of budgets up to 14, every random number, a `Retry-After` around the cap and beyond the word, callers with no header, with all of them, and with some that cannot be sent | `FollowsTable`, `BreakerCountsRetries`, `OnCurve`, `HonoursRetryAfter`, `LoadedIsSound`, `NearestSettingHolds`, `HeadersAreTrusted` |
| `attempt_redirect` | the files about lists, expected violation | `RedirectsAreFinal` fails: section 7 |

Fourteen attempts pass the exponent clamp (12) and the cap, which the tenth doubling reaches.
The word has 16 bits and a second ten ticks, so some headers overflow it, and some caps do
once the jitter has stretched them; `attempt_redirect` gives each notification one attempt, so
that what it finds is a redirect whose target succeeds. `MaxHops` is 3 instead of net/http's
10, since every redirect is like the one before.

Ingress and list, `MCListWalk`:

| Run | Bounds | Shows |
|---|---|---|
| `api` | a client with a key and 3 tries, one without and 2, one whose request is invalid; 2 faults (a crash, a failing transaction, a client that stops waiting); 2 milliseconds; pages of 1 | `ErrorMeansNotStored`, `KeepsRegistry`, `EventuallyAccepted`, `ShownOnce`, `NoneSkipped` |

Three tries outlast two faults, which `EventuallyAccepted` needs, and let three handlers of
one key run at once. Two milliseconds are enough for ties, for a row that appears below the
cursor and for one that appears above it; with three rows and pages of one a walk has
up to three pages.

Shutdown, `MCShutdown`, with two notifications and two claims of each: `stop` shows
`CleanStop`, `AcceptedIsStored` and `Stops`. Two notifications let one be settled, one be
on the wire and a handler hang.

Every run says `CHECK_DEADLOCK FALSE`: with all notifications settled, all tries over or the
bound of claims reached, the modelled system has nothing left to do.

## 4. Fairness

* `NotifyQueue!Fairness`: time passes (`BecomeDue`, `LeaseExpires`); a claimed task runs
  to its end, since `Deliver` has a timeout and the write-back has `bookkeepingTimeout`;
  some process keeps polling (`poll_interval`) and its reaper keeps ticking
  (`reaper_interval`). No client, operator, crash or failing database is obliged to do
  anything, and crashes and failed write-backs may happen at every opportunity. The claim
  is weakly fair per notification: `ORDER BY next_attempt_at` serves the oldest row
  first, and rows ahead of it leave the front as they are claimed.
* `MeteredFairness` adds that a reaper counts what it recovered, a step of its loop without
  which it would not tick again. Workers need not count.
* `EndpointDispatch!Fairness`: the loop turns, requests end, write-backs end, the
  cooldown passes.
* `Recovers` assumes `Recovery`, strong fairness of a non-empty claim and of healthy
  verdicts. It describes an environment, not the code: without work, or with every result
  ignored, a half-open breaker rightly stays where it is. `HalfOpenMoves` needs none of it.
* `Dispatcher!Fairness`: the loop's goroutine runs, the poll timer fires, cooldowns end,
  and workers end by their timeout, those of `Stuck` endpoints excepted. Weak fairness of
  the loop as a whole suffices, since each of its steps is forced by the one before.
* `Ingress!Fairness`: some handler that can go on does, since statements end or fail by the
  5 s limit, and some client that has reason to try again does: `EventuallyAccepted` is about
  clients that do not give up. Nobody owes a fault, and the operator owes nothing.
* `Shutdown!Fairness`: every goroutine that can go on does, a time limit runs out, and a
  request whose context is cancelled returns. No client, handler, vendor or signal is
  obliged to do anything.

## 5. What is proved

For every number of notifications, processes, clients, places, thresholds, budgets and
configuration files:

| Theorem | States |
|---|---|
| `NotifyQueueProofs!TypeCorrect` | `Spec => []TypeOK` |
| `NotifyQueueProofs!SuccessIsAcknowledged` | `Spec => []NoFalseSuccess`, overruns included |
| `NotifyQueueProofs!QueueKeepsPromise` | `Spec => KeepsPromise`: the queue implements `Lifecycle`, overruns included |
| `NotifyQueueProofs!ExclusiveDelivery` | `[]SingleDelivery` when leases outlive workers |
| `NotifyQueueProofs!LeaseIsHeld` | `[]WorkerHoldsLease` when leases outlive workers |
| `NotifyQueueProofs!BudgetBoundsRequests`, `ClaimsAreCharged` | `[]WithinBudget` and `[]EveryClaimCharged` when leases outlive workers |
| `NotifyQueueProofs!AuditNumbersAreFresh` | `[]FreshAttemptNo` when leases outlive workers |
| `NotifyQueueProofs!StaleResultsAreDiscarded` | `StaleResultDiscarded`, an action property, when leases outlive workers: the assumption without which `queue_stale_result` violates it |
| `NotifyQueueOverrunProofs!DuplicatesAreExplained` | `Spec => []DuplicatesExplained`, overruns included |
| `NotifyQueueOverrunProofs!OverrunsEnd` | `Spec => []OverrunsAreBounded`: at most 2^b - 1 requests on a budget of b that nobody raises, overruns included |
| `MeteredQueueProofs!DeadLettersAreCounted` | `MeteredSpec => []DeadLettersCounted`, overruns and deaths of processes included |
| `MeteredQueueProofs!CountersAreASideEffect` | `MeteredSpec => Spec`: what is proved of the queue holds while it is metered |
| `EndpointDispatchProofs!TypeCorrect` | `Spec => []TypeOK` |
| `EndpointDispatchProofs!DispatchNeverBlocks` | `Spec => []StartNeverBlocks` |
| `EndpointDispatchProofs!NoProbeLeaks`, `ProbesAreExplained` | `Spec => []ProbesHaveWorkers`, `Spec => []ProbesExplained` |
| `EndpointDispatchProofs!TripsAreFresh` | `Spec => OnlyFreshFailuresTrip`, an action property |
| `DispatcherProofs!TypeCorrect` | `Spec => []TypeOK` |
| `DispatcherProofs!NoWakeupIsLost` | `Spec => []NoLostWakeup` |
| `DispatcherProofs!PlacesAreAccounted` | every semaphore is held by exactly the workers of its endpoint, never beyond its capacity |
| `DeliveryAttemptProofs!TableIsFollowed` | `Spec => []FollowsTable` |
| `DeliveryAttemptProofs!BreakerAgrees` | `Spec => []BreakerCountsRetries`: what is retried is what counts; and what counts without a doing of vendor or network is a header or key that cannot be sent |
| `DeliveryAttemptProofs!RetryAfterIsHonoured` | `Spec => []HonoursRetryAfter`, for every word length |
| `DeliveryAttemptProofs!TypeCorrect` | `Spec => []TypeOK`; a wait is a duration, whatever the conversion does |
| `DeliveryAttemptProofs!DelayIsOnCurve` | `Spec => []OnCurve`, for every base, cap and number of attempts whose stretched point of the curve a duration holds |
| `DeliveryAttemptProofs!WhatIsLoadedIsSound`, `NearestSettingCounts` | `Spec => []LoadedIsSound`, `Spec => []NearestSettingHolds` |
| `DeliveryAttemptProofs!HeadersCannotBeForged` | `Spec => []HeadersAreTrusted` |
| `IngressProofs!ErrorsAreTrue` | `Spec => []ErrorMeansNotStored` |
| `IngressProofs!RegistryIsKept` | `Spec => KeepsRegistry`: ingress implements `IdempotentRegistry` |
| `IngressProofs!TypeCorrect` | `ListSpec => []WalkTypeOK` |
| `IngressProofs!RowsAreShownOnce`, `NoRowIsSkipped` | `ListSpec => []ShownOnce`, `ListSpec => []NoneSkipped`, for every page length |
| `ShutdownProofs!TypeCorrect` | `Spec => []TypeOK` |
| `ShutdownProofs!StopIsClean` | `Spec => []CleanStop`: a stop leaves nothing half done unless `Run` gave up |
| `ShutdownProofs!AcceptedAreStored` | `Spec => []AcceptedIsStored` |

The arguments, by their inductive invariants:

*Queue.* `TypeInv` is `TypeOK` with finitely many deliveries. `PromiseInv` adds
that a delivery that carries a success was acknowledged (else writing it back would be
a false success) and that a delivery's notification is stored. With it each action of
`NotifyQueue` is, under the mapping of `Promise`, a `Move`, an `Acknowledge` or a
stutter. `QueueKeepsPromise` needs no lease assumption because every `UPDATE` names the
statuses it may start from.

`LeaseInv`, under `~MayOverrun`, is the conjunction of: at most one delivery per
notification; a delivery's row is in flight, held by its owner, its lease running, on
the attempt the delivery carries and with the budget it read; and per row the count
`Charged`: claims equal attempts, plus one in flight, requests never exceed the claims
charged, attempts stay below the budget of a row that can still be claimed. None of
`SingleDelivery`, `WithinBudget` or `FreshAttemptNo` is inductive without the other
parts: exclusiveness needs the lease, the budget needs the count, and the freshness of
an attempt number needs both.

`ResultInv` needs no lease: an acknowledgement is carried by the worker that got it until
that worker writes it back, finds its lease gone or dies, and each of the three moves it
to one side of the sum. For the sum to change by one the worker must be one element of
the set of deliveries, hence `OwnClaim`: claims are numbered, and a number has one worker.

`OverrunInv` is a potential. A budget of k can come to `MostRequests[k]` requests, one more than
twice what k-1 can come to. `Room` says that the requests sent, what each worker may still
cause (its `Weight`: its own request if it has not sent it, and what its late result would put
back into the row) and what the row has (`Planned`) stay within what the budget can come to. A
claim splits what the row has: one for the request, half of the rest to the worker, half to the
row for the case that the reaper finds the lease expired. A late write-back gives the row what
its worker had, and the worker is gone; the reaper moves nothing. `OwnClaim` keeps two workers
from being one element of the sum, and `Budgeted` keeps the arguments of `MostRequests` in its
domain. A requeue raises `max_attempts` under workers that live on, hence `requeues = 0`.

*Counters.* `MeterInv` adds to `ResultInv` that a worker that has written back and still owes
its count is none of the deliveries, and that its claim number is used up (`Written`). So a
new debt is a new element of `finishing` and adds one to exactly one term of the tally
(`OneMoreOwed`), the count moves it to the counter of the same process (`PaidMeters`), and a
death moves the whole term to `forgotten` (`DeathMeters`); a result that is discarded changes
neither the rows nor the debts. The reaper owes a count of every lease it took, of which the
dead letters are a part: that is the room between the two bounds. `DeadLettersCounted` alone
is not inductive: without `Written` one delivery could owe twice and be counted once.

The tally is a sum over any finite set of processes, which the library folds in the order in
which `CHOOSE` takes them. `SumExists` gives the law that makes the order irrelevant, and
`OneTermChanges` what every step uses of it. The prover has no induction rule for formulas,
so where an induction is needed it is done by hand on a set: the numbers for which the claim
fails have a least element (`LeastNumber`), and the element before it contradicts that. So are
`SumSplits` and `PartOfSum`, which `OverrunInv` needs, and `MostRequestsFacts`, which says that
the recursion of `MostRequests` defines something.

*Dispatch of an endpoint.* `DispatchInv` says that the goroutine's grant fits the free places
and the free probes (`GrantFits`, `ProbeAccounts`). It is inductive because only that
goroutine fills a place and only it turns a breaker half-open; what others do meanwhile,
returning probes or places and tripping, leaves at least as much room or ends the period
the count is about. Workers of the present generation are at least the probes counted
and at most the probes counted plus the stray answers. `NoneAhead` and `ClosedAccounts`
tell old answers apart: a generation never recurs, and failures that count while closed are of
requests started since.

*Loop.* `LoopInv` says of every due row of a configured endpoint that it is covered (refused,
silent or announced) or will be looked at: a token waits, a round is about to start, or
the present round has claimed something (so another follows) or still comes to the row's
endpoint. The last disjunct is why `NoLostWakeup` is not inductive: it is about the
moment of sleeping, and the row that is missed is missed earlier, behind the loop's back.
`Wrap` and `RoundIsComplete` supply the arithmetic: from any rotation a round meets every
endpoint. `PlacesInv` counts: places busy are rows claimed plus workers that have written
back, and the visit's grant fits beside them, so no `Leave` takes a count below zero.

*Attempt.* `AttemptInv`: `Deliver` builds results of three shapes (refused, broken, answered),
and each fixes which of outcome, code and error go together; hence the two readers of the
result agree. `LoadedFromFile` carries to the endpoint what `Loads` checked, and
`FallbackIsPositive` says that a quantity some level has is never lost in inheritance.
`LastWriter` is the lemma about headers: the last layer that has a name decides it.

`ShapeInv` gives the state its types, says in which phases the endpoint is usable and the
redirects are below their limit, and keeps a scheduled wait equal to what `resolveDelay` makes
of some random number. `CurveIsPower` then identifies the README's curve, defined by doubling
step by step, with the code's power of two: that a function defined by recursion exists
(`Iterates`) and what it returns are shown by the least counterexample, as for sums.
`Jittered` bounds the stretch after the cap, which the conversion leaves alone where a
duration holds the stretched point; there is no bound on caps that would let the theorem do
without. The clamp of the exponent shows in one place: beyond 63 attempts the theorem needs a
cap of at most 2^62 times the base, which every cap of a base of two nanoseconds or more
satisfies (a duration has 63 bits). `NearestQuantity` and `NearestEnabled` say of one field
what `NearestSettingHolds` says of all.

*Ingress.* `IngressInv` gives for each phase of a handler what it knows: from a query that
missed to its INSERT it holds the only write lock, so the table it meets is the table it
saw; an error is answered only by a handler that stored nothing. With it every step is an
`Enter`, a `Tell` or a stutter of `IdempotentRegistry`. `WalkInv` adds that the cursor parts
the rows: all that is shown lies at or above it, all that is owed below it. Rows that appear
between two pages are neither, whatever their age. `MinFacts`, from the library's theorem on
well-founded relations, says that a page's last `created_at` is one of the page.

*Stop.* `StopInv` orders the stop: a closed store means that `Run` has returned, a returned
`Run` that no worker is left unless it gave up, and a row in flight that a worker holds it or
its write-back failed. `StoredHasRow` is the invariant behind `AcceptedAreStored`.

Assumptions used: those the modules state of their constants (`OwnerAssumption`,
`NotificationsAssumption`, `BoundAssumption`, `InstancesAssumption`, `BreakerAssumption`,
`DispatchAssumption`, `NamesAssumption`, `DispatcherAssumption`, `SecondAssumption`,
`DelayAssumption`, `AttemptAssumption`, `IngressAssumption`, `ListAssumption`), and
`~MayOverrun` where the table says so. The bounds `MaxClaims`, `MaxRequeues`, `MaxFaults`,
`MaxTries` and `MaxTime` may be any natural number. `InstancesAssumption` says that the
processes on a database are finitely many, and `AttemptAssumption` says of `Files` what YAML
decoding into the structs of `config.go` ensures (`Decoded`: quantities are integers, a
missing one is zero, the code lists hold integers).

## 6. What is only model-checked

Liveness: `Settles`, `HalfOpenMoves`, `Recovers`, `OthersAreServed`, `EventuallyAccepted`,
`Stops`. Fairness and `ENABLED` are outside the prover's reach. Every invariant that a run
checks, and every action property and refinement of a passing run, is also proved.

## 7. Where the code and its documents disagree

* `queue_stale_result`: the write-back compares the owner *name* (`sqlite.go:287`).
  After the reaper reclaims a lease and the same process claims the row again, the
  first worker's late result is written over the second claim, although `README.md:150`
  and `sqlite.go:326` say a reclaimed result is discarded. `NoFalseSuccess` and
  `KeepsPromise` hold nonetheless: a late success is still a real one. But the late write-back
  also puts its own, older number into the attempt column, so attempts are handed out again:
  overruns can make up to 2^b - 1 requests out of a budget of b (three of two in
  `queue_overrun`), more than the upper limit `notification.go:103` calls `max_attempts`. No
  more than that, which is `OverrunsAreBounded`: the chain of retries does end, as
  `README.md:331` says.
* `breaker_probe_limit`: a report of an earlier generation returns a probe it never took
  (`breaker.go:130`), so more than `half_open_probes` (`config.go:89`) run at once when
  a cooldown is shorter than the requests. `ProbesExplained` says by how much: one for
  each late answer. `ProbesHaveWorkers` shows the error is only ever on this side: no
  probe is leaked.
* `loop_orphans`: rows of an endpoint that is no longer configured are never claimed
  (`dispatcher.go:219`), so `Deliver`'s branch for them cannot send them to dead letters
  as `README.md:302` and `executor.go:95` say; `warnOrphanedEndpoints` reports them, if they
  are among the 500 newest pending rows (`dispatcher.go:435`).
* `attempt_redirect`: redirects are followed (`executor.go:84`), against `README.md:301`
  and `executor.go:171`.

More that no run is spent on; most are visible as the exception a checked property makes:

* `Cancel` (`sqlite.go:525`) accepts a `pending` row whose former worker, its lease
  reclaimed, still has a request on the wire, the promise the comment at `store.go:82`
  wants to avoid (`WorkerHoldsLease` holds only while leases outlive workers);
* a trip between `Allowance` and the claim (`dispatcher.go:240`) lets one batch be claimed
  while the breaker is open, against `README.md:165` (`grant` outlives the trip in
  `EndpointDispatch`);
* a wake-up that meets a full semaphore is spent, and the worker that frees the place
  (`dispatcher.go:258`) wakes nobody, so a first attempt may wait for the poll timer,
  against `config.go:62` (`passed` in `NoLostWakeup`);
* a shutdown that cancels the last attempt of the budget makes a dead letter
  (`dispatcher.go:345`), against `README.md:303` (the budget in `TableFate`);
* a header name, header value or idempotency key that net/http does not send
  (`ingress.go:196` and `ingress.go:174` let it pass) fails in `client.Do`, and
  `executor.go:123` makes of that a transport error: the notification is retried to the end
  of its budget, and every attempt counts as unhealthy, although nothing was sent and the
  vendor is well. A few such notifications, or one with `failure_threshold` attempts in a
  row, open the breaker for all others, which `README.md:312` and the comment at
  `dispatcher.go:390` want to exclude (the last disjunct of `BreakerCountsRetries`);
* a redirect whose `Location` does not parse is retried and counted, too, against
  `README.md:301` (`bad_location` in `FollowsTable`);
* a cap above 2^63/(1+jitter) nanoseconds, say a `base` of 2000000h, a `max` of 2500000h and
  a jitter of 1, passes `validate` (`config.go:383`), and what the jitter stretches beyond a
  duration becomes a negative wait on amd64 (`backoff.go:42`), an immediate retry that the
  curve of `README.md:321` does not have (the range in `OnCurve`);
* a `Retry-After` beyond about 9.2e9 seconds wraps (`executor.go:228`), against
  `README.md:326` (the range in `HonoursRetryAfter`);
* a dead letter that the reaper makes shows in `notify_lease_recovered_total` only, not in
  `notify_terminal_total{state="dead"}` nor in the WARN log of `README.md:350` (the second
  series in `DeadLettersCounted`);
* the list's cursor excludes rows of the millisecond of the page's last row that had no
  place on it, for good, and a row that is committed late may appear behind the cursor,
  although the comment at `admin.go:53` chose the cursor so that nothing is missed
  (`Tied` and the rows at the first page in `NoneSkipped`);
* a resubmission under a used key with another payload is answered with the notification
  that is there, without a word about the difference (`StandsFor` looks at keys only);
* `enabled: false` without a `failure_threshold` beside it does not switch a breaker off,
  and a threshold without `enabled: true` does (`config.go:312`, the last conjunct of
  `NearestSettingHolds`); a jitter of zero cannot be configured;
* `X-Idempotency-Key` is the service's only when the notification has a key, a caller's
  header of that name passes otherwise (`request.keyed` in `HeadersAreTrusted`); a
  `Content-Type` among an endpoint's own headers yields to its `content_type`.

`Run` and main watch the same context, so the loop may end, and the grace period begin,
while the HTTP server still accepts, against `main.go:5`; `CleanStop` and
`AcceptedIsStored` hold nonetheless: such notifications wait for the next process.

## 8. Not modelled, and what is left

Not modelled, and why:

* the mock vendor and the demo script: tools outside the service;
* templates and bodies, JSON, identifiers, log lines, the metrics text format: formatting.
  That a template or a request cannot be built is `Refuse` and `RefuseUnsent`;
* the other metrics: ingress and attempt counters are like the two that are modelled, the
  gauges are read from the table at scrape time, histograms keep no state a property is about;
* server and store settings (addresses, tokens, paths, pragmas), migrations, the admin
  token check, `Stats`, the filters of the list: they read or decide nothing the properties
  relate to each other;
* a commit that takes effect although the driver reports an error (an I/O failure in
  the middle): `Fail` ends with the commit, so a 503 after it is excluded. With it
  `ErrorMeansNotStored` would be about the driver.

Left, in order of importance:

1. the safety half of the liveness properties as theorems: what each fair step of `Settles`
   brings nearer, and that nothing takes it back;
2. `MeteredQueue` with the counters of ingress and of attempts.
