--------------------------------- MODULE Ingress ---------------------------------
(***************************************************************************)
(* Submitting a notification (api/ingress.go, SQLite.Enqueue): clients     *)
(* that retry, the handlers of any number of processes, and the one write  *)
(* lock of the database file between them. A try is one POST; its pair     *)
(* <<client, try>> is also the identifier newID gives its notification.    *)
(* The client is not in the repository: it is one that resubmits under the *)
(* same key until it hears a 2xx.                                          *)
(***************************************************************************)
EXTENDS Naturals, FiniteSets

CONSTANTS
    Clients,        \* the callers; each has one notification to submit
    Invalid,        \* the callers whose request does not pass validation
    NoKey,          \* the key of a caller that sends none
    Key,            \* [Clients -> the pair of endpoint and idempotency key, or NoKey]
    None,           \* no notification, no holder of the lock
    MaxTries,       \* bound: [Clients -> tries of the client]
    MaxFaults,      \* bound: crashes, failing transactions, clients that give up waiting
    MaxTime         \* bound: the last millisecond of the clock

Tries == UNION {{c} \X (1..MaxTries[c]) : c \in Clients}

ASSUME IngressAssumption ==
    /\ Invalid \subseteq Clients
    /\ DOMAIN Key = Clients
    /\ MaxTries \in [Clients -> Nat \ {0}]
    /\ MaxFaults \in Nat
    /\ MaxTime \in Nat \ {0}
    /\ None \notin Tries

VARIABLES
    requests,       \* [Tries -> request], the handler's progress and what it answered
    rows,           \* the committed rows of the table notifications
    lock,           \* the try whose transaction holds the write lock, or None
    tries,          \* [Clients -> the number of the client's current try, 0 before the first]
    clock,          \* the wall clock, in milliseconds
    faults          \* history: faults so far

vars == <<requests, rows, lock, tries, clock, faults>>

Phase == {"unsent", "received", "begun", "missing", "found", "committed", "over"}

\* id is the notification the transaction came to hold: the try's own, or the one
\* found under its key. code is the status answered, 0 when there was none.
Request == [phase : Phase, createdAt : 0..MaxTime,
            id : Tries \cup {None}, code : {0, 200, 202, 400, 503}]

Row == [id : Tries, key : {Key[c] : c \in Clients}, createdAt : 1..MaxTime]

Unsent == [phase |-> "unsent", createdAt |-> 0, id |-> None, code |-> 0]

Client(r) == r[1]
Current(c) == <<c, tries[c]>>
Accepted(r) == requests[r].code \in {200, 202}
Running == {r \in Tries : requests[r].phase \notin {"unsent", "over"}}

Init ==
    /\ requests = [r \in Tries |-> Unsent]
    /\ rows = {}
    /\ lock = None
    /\ tries = [c \in Clients |-> 0]
    /\ clock = 1
    /\ faults = 0

-------------------------------------------------------------------------------
(* The clients and the clock. *)

Over(request, code) ==
    [request EXCEPT !.phase = "over", !.createdAt = 0, !.code = code]

\* The client never heard of its current try: it is still running, or its process died.
Unanswered(c) == requests[Current(c)].code = 0

\* The first try, or the next: after a 503, a lost connection, or a wait that was too
\* long. The handler of the earlier try may still run, and its answer goes nowhere.
\* handleSubmit answers what fails validation at once; created_at is s.now(), taken
\* before the transaction.
Submit(c) ==
    LET waiting == tries[c] > 0 /\ Current(c) \in Running
        r == <<c, tries[c] + 1>>
    IN  /\ tries[c] < MaxTries[c]
        /\ tries[c] > 0 => Unanswered(c) \/ requests[Current(c)].code = 503
        /\ waiting => faults < MaxFaults
        /\ faults' = IF waiting THEN faults + 1 ELSE faults
        /\ tries' = [tries EXCEPT ![c] = @ + 1]
        /\ requests' = [requests EXCEPT ![r] =
                          IF c \in Invalid THEN Over(Unsent, 400)
                          ELSE [Unsent EXCEPT !.phase = "received", !.createdAt = clock]]
        /\ UNCHANGED <<rows, lock, clock>>

Tick ==
    /\ clock < MaxTime
    /\ clock' = clock + 1
    /\ UNCHANGED <<requests, rows, lock, tries, faults>>

-------------------------------------------------------------------------------
(* handleSubmit. *)

\* BEGIN IMMEDIATE: one transaction at a time, in any process.
Begin(r) ==
    /\ requests[r].phase = "received"
    /\ lock = None
    /\ lock' = r
    /\ requests' = [requests EXCEPT ![r].phase = "begun"]
    /\ UNCHANGED <<rows, tries, clock, faults>>

\* The rows the idempotency key of a try identifies.
Holders(r) ==
    IF Key[Client(r)] = NoKey THEN {} ELSE {x \in rows : x.key = Key[Client(r)]}

Found(request, x) == [request EXCEPT !.phase = "found", !.id = x.id]

\* The query by idempotency key, when there is one.
Lookup(r) ==
    /\ requests[r].phase = "begun"
    /\ \/ /\ Holders(r) = {}
          /\ requests' = [requests EXCEPT ![r].phase = "missing"]
       \/ \E x \in Holders(r) : requests' = [requests EXCEPT ![r] = Found(@, x)]
    /\ UNCHANGED <<rows, lock, tries, clock, faults>>

\* Mutant: the key is not written with the row.
NewRowKeyless(r) ==
    [id |-> r, key |-> NoKey, createdAt |-> requests[r].createdAt]

NewRow(r) ==
    [id |-> r, key |-> Key[Client(r)], createdAt |-> requests[r].createdAt]

\* The INSERT and the commit that makes it visible. Should the unique index refuse it,
\* the row that stands in the way is the answer; under the write lock it never does.
Insert(r) ==
    LET clash == Holders(r)
        request == requests[r]
    IN  /\ request.phase = "missing"
        /\ rows' = IF clash = {} THEN rows \cup {NewRow(r)} ELSE rows
        /\ lock' = IF clash = {} THEN None ELSE lock
        /\ requests' = [requests EXCEPT ![r] =
                          IF clash = {} THEN [request EXCEPT !.phase = "committed", !.id = r]
                          ELSE Found(request, CHOOSE x \in clash : TRUE)]
        /\ UNCHANGED <<tries, clock, faults>>

\* The commit of a transaction that found its key.
CommitFound(r) ==
    /\ requests[r].phase = "found"
    /\ lock' = None
    /\ requests' = [requests EXCEPT ![r].phase = "committed"]
    /\ UNCHANGED <<rows, tries, clock, faults>>

\* Mutant: an answer of a kind the handler does not give.
AnswerMissing(r) ==
    /\ requests[r].phase = "committed"
    /\ requests' = [requests EXCEPT ![r] = Over(@, 404)]
    /\ UNCHANGED <<rows, lock, tries, clock, faults>>

\* countIngress, Wake for a new notification, and the answer: 202 for one, 200 for one
\* that was there.
Answer(r) ==
    /\ requests[r].phase = "committed"
    /\ requests' = [requests EXCEPT ![r] = Over(@, IF @.id = r THEN 202 ELSE 200)]
    /\ UNCHANGED <<rows, lock, tries, clock, faults>>

Released(gone) == IF lock \in gone THEN None ELSE lock

\* Mutants: no deferred Rollback, and a request whose context is looked at again after
\* the commit.
FailHoldingLock(r) ==
    /\ faults < MaxFaults
    /\ requests[r].phase \in {"received", "begun", "missing", "found"}
    /\ requests' = [requests EXCEPT ![r] = Over([@ EXCEPT !.id = None], 503)]
    /\ faults' = faults + 1
    /\ UNCHANGED <<rows, lock, tries, clock>>

FailLate(r) ==
    /\ faults < MaxFaults
    /\ requests[r].phase \in {"received", "begun", "missing", "found", "committed"}
    /\ requests' = [requests EXCEPT ![r] = Over([@ EXCEPT !.id = None], 503)]
    /\ lock' = Released({r})
    /\ faults' = faults + 1
    /\ UNCHANGED <<rows, tries, clock>>

\* The 5 s limit, a client that disconnects or an error of the database, up to and
\* including the commit: the deferred Rollback frees the lock, and the answer is 503.
Fail(r) ==
    /\ faults < MaxFaults
    /\ requests[r].phase \in {"received", "begun", "missing", "found"}
    /\ requests' = [requests EXCEPT ![r] = Over([@ EXCEPT !.id = None], 503)]
    /\ lock' = Released({r})
    /\ faults' = faults + 1
    /\ UNCHANGED <<rows, tries, clock>>

\* A process dies with the requests it was handling, whichever of those under way they
\* are, and another takes its place; SQLite rolls its transaction back.
Crash(gone) ==
    /\ faults < MaxFaults
    /\ gone \subseteq Running
    /\ gone # {}
    /\ requests' = [r \in Tries |->
                      IF r \in gone THEN Over([requests[r] EXCEPT !.id = None], 0)
                      ELSE requests[r]]
    /\ lock' = Released(gone)
    /\ faults' = faults + 1
    /\ UNCHANGED <<rows, tries, clock>>

-------------------------------------------------------------------------------

Handle(r) == Begin(r) \/ Lookup(r) \/ Insert(r) \/ CommitFound(r) \/ Answer(r)

Next ==
    \/ \E c \in Clients : Submit(c)
    \/ Tick
    \/ \E r \in Tries : Handle(r) \/ Fail(r)
    \/ \E gone \in SUBSET Running : Crash(gone)

Spec == Init /\ [][Next]_vars

\* Handlers run on and clients keep trying; each does so finitely often, so that it is
\* enough that some handler and some client does.
Fairness ==
    /\ WF_vars(\E r \in Tries : Handle(r))
    /\ WF_vars(\E c \in Clients : Submit(c))

FairSpec == Spec /\ Fairness

-------------------------------------------------------------------------------
(* Properties. *)

\* Every variable has its type.
TypeOK ==
    /\ requests \in [Tries -> Request]
    /\ rows \subseteq Row
    /\ lock \in Tries \cup {None}
    /\ DOMAIN tries = Clients
    /\ \A c \in Clients : tries[c] \in 0..MaxTries[c]
    /\ clock \in 1..MaxTime
    /\ faults \in 0..MaxFaults

\* A 503 or a 4xx is the truth: the notification of that try was not stored, and no
\* rollback, crash or later try of anyone stores it. What is unknown to a client is only
\* what it got no answer about.
ErrorMeansNotStored ==
    \A r \in Tries : requests[r].code \in {400, 503} => \A x \in rows : x.id # r

\* The submissions and what their clients were told are an idempotent register: one row
\* for a key whoever submits it, how often and to whichever process, and every 2xx names
\* the row that stands for the submission.
Registry == INSTANCE IdempotentRegistry WITH
    Submission <- Tries,
    KeyOf <- LAMBDA r : Key[Client(r)],
    entries <- {x.id : x \in rows},
    told <- {<<r, requests[r].id>> : r \in {q \in Tries : Accepted(q)}}

KeepsRegistry == Registry!Spec

\* A client that sends a valid request and does not give up before the faults do is told
\* a notification in the end: no failing transaction or crash keeps the write lock, and
\* no try is left without an end.
EventuallyAccepted ==
    \A c \in Clients \ Invalid :
        MaxTries[c] > MaxFaults => <>(tries[c] > 0 /\ Accepted(Current(c)))

================================================================================
