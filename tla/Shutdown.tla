-------------------------------- MODULE Shutdown --------------------------------
(***************************************************************************)
(* How a notifyd process stops: the main goroutine (main.run), the HTTP    *)
(* server and its handlers, dispatcher.Run with its loop, reaper and       *)
(* workers, and the store they share. The signal's context and the         *)
(* deliveries' context are two flags; the two waits of Run and the one of  *)
(* Server.Shutdown have a time limit each, which may run out at any time.  *)
(***************************************************************************)
EXTENDS Naturals

CONSTANTS
    Notifications,      \* each submitted at most once, claimed at most MaxClaims times
    MaxClaims           \* bound: claims of one notification

ASSUME ShutdownAssumption == MaxClaims \in Nat

VARIABLES
    stopping,       \* the signal's context is cancelled
    cut,            \* the deliveries' context is cancelled
    http,           \* the HTTP server
    request,        \* the handler of each submission
    main,           \* the main goroutine
    run,            \* dispatcher.Run
    reaper,         \* its reaper goroutine
    worker,         \* the delivery of each notification
    row,            \* the status of each row
    store,          \* the database handle
    claims,         \* history: claims of each notification
    unwritten,      \* history: notifications whose write-back failed since their claim
    gaveUp          \* history: Run has returned with workers left, and logged an error

ghosts == <<unwritten, gaveUp>>
vars == <<stopping, cut, http, request, main, run, reaper, worker, row, store, claims,
          ghosts>>

Main == {"serving", "closing_http", "awaiting_run", "returned", "exited"}
Run == {"looping", "awaiting_reaper", "draining", "cutting", "returned"}
Status == {"absent", "pending", "in_flight", "succeeded", "dead"}

Init ==
    /\ stopping = FALSE
    /\ cut = FALSE
    /\ http = "serving"
    /\ request = [n \in Notifications |-> "none"]
    /\ main = "serving"
    /\ run = "looping"
    /\ reaper = "running"
    /\ worker = [n \in Notifications |-> "none"]
    /\ row = [n \in Notifications |-> "absent"]
    /\ store = "open"
    /\ claims = [n \in Notifications |-> 0]
    /\ unwritten = {}
    /\ gaveUp = FALSE

Alive == main # "exited"
Handled == {n \in Notifications : request[n] \in {"received", "stored"}}
Working == {n \in Notifications : worker[n] # "none"}

-------------------------------------------------------------------------------
(* The HTTP server and its handlers. *)

Receive(n) ==
    /\ Alive
    /\ http = "serving"
    /\ request[n] = "none"
    /\ request' = [request EXCEPT ![n] = "received"]
    /\ UNCHANGED <<stopping, cut, http, main, run, reaper, worker, row, store, claims,
                   ghosts>>

\* Mutant: the error of Enqueue is not looked at.
StoreUnchecked(n) ==
    /\ Alive
    /\ request[n] = "received"
    /\ request' = [request EXCEPT ![n] = "stored"]
    /\ row' = IF store = "open" THEN [row EXCEPT ![n] = "pending"] ELSE row
    /\ UNCHANGED <<stopping, cut, http, main, run, reaper, worker, store, claims,
                   ghosts>>

\* Enqueue; with the store closed the client is told to retry.
Store(n) ==
    /\ Alive
    /\ request[n] = "received"
    /\ request' = [request EXCEPT ![n] = IF store = "open" THEN "stored" ELSE "refused"]
    /\ row' = IF store = "open" THEN [row EXCEPT ![n] = "pending"] ELSE row
    /\ UNCHANGED <<stopping, cut, http, main, run, reaper, worker, store, claims,
                   ghosts>>

Accept(n) ==
    /\ Alive
    /\ request[n] = "stored"
    /\ request' = [request EXCEPT ![n] = "accepted"]
    /\ UNCHANGED <<stopping, cut, http, main, run, reaper, worker, row, store, claims,
                   ghosts>>

-------------------------------------------------------------------------------
(* The main goroutine. *)

Signal ==
    /\ ~stopping
    /\ stopping' = TRUE
    /\ UNCHANGED <<cut, http, request, main, run, reaper, worker, row, store, claims,
                   ghosts>>

\* ListenAndServe fails: main calls stop and waits for the dispatcher only.
ListenFails ==
    /\ main = "serving"
    /\ http = "serving"
    /\ http' = "failed"
    /\ stopping' = TRUE
    /\ main' = "awaiting_run"
    /\ UNCHANGED <<cut, request, run, reaper, worker, row, store, claims, ghosts>>

\* srv.Shutdown closes the listeners first.
CloseHttp ==
    /\ main = "serving"
    /\ stopping
    /\ main' = "closing_http"
    /\ http' = "draining"
    /\ UNCHANGED <<stopping, cut, request, run, reaper, worker, row, store, claims,
                   ghosts>>

HttpDrained ==
    /\ main = "closing_http"
    /\ Handled = {}
    /\ http' = "closed"
    /\ main' = "awaiting_run"
    /\ UNCHANGED <<stopping, cut, request, run, reaper, worker, row, store, claims,
                   ghosts>>

\* Mutant: srv.Shutdown gets a context without a deadline.
HttpDrainEndless ==
    /\ main = "closing_http"
    /\ Handled = {}
    /\ main' = "awaiting_run"
    /\ UNCHANGED <<stopping, cut, http, request, run, reaper, worker, row, store, claims,
                   ghosts>>

\* Shutdown's context ends first: a warning, and the handlers are left alone.
HttpDrainExpires ==
    /\ main = "closing_http"
    /\ Handled # {}
    /\ main' = "awaiting_run"
    /\ UNCHANGED <<stopping, cut, http, request, run, reaper, worker, row, store, claims,
                   ghosts>>

\* Mutant: main does not wait for the dispatcher.
ReturnAtOnce ==
    /\ main = "awaiting_run"
    /\ main' = "returned"
    /\ store' = "closed"
    /\ UNCHANGED <<stopping, cut, http, request, run, reaper, worker, row, claims, ghosts>>

\* wg.Wait(), then the deferred st.Close().
MainReturns ==
    /\ main = "awaiting_run"
    /\ run = "returned"
    /\ main' = "returned"
    /\ store' = "closed"
    /\ UNCHANGED <<stopping, cut, http, request, run, reaper, worker, row, claims, ghosts>>

\* The process ends and takes every goroutine with it.
Exit ==
    /\ main = "returned"
    /\ main' = "exited"
    /\ worker' = [n \in Notifications |-> "none"]
    /\ request' = [n \in Notifications |->
                     IF n \in Handled THEN "refused" ELSE request[n]]
    /\ UNCHANGED <<stopping, cut, http, run, reaper, row, store, claims, ghosts>>

-------------------------------------------------------------------------------
(* dispatcher.Run. *)

\* A claim under the signal's context, and its worker under the deliveries' context.
Claim(n) ==
    /\ run = "looping"
    /\ ~stopping
    /\ row[n] = "pending"
    /\ claims[n] < MaxClaims
    /\ row' = [row EXCEPT ![n] = "in_flight"]
    /\ worker' = [worker EXCEPT ![n] = "sending"]
    /\ claims' = [claims EXCEPT ![n] = @ + 1]
    /\ UNCHANGED <<stopping, cut, http, request, main, run, reaper, store, ghosts>>

LoopEnds ==
    /\ run = "looping"
    /\ stopping
    /\ run' = "awaiting_reaper"
    /\ UNCHANGED <<stopping, cut, http, request, main, reaper, worker, row, store, claims,
                   ghosts>>

ReaperEnds ==
    /\ reaper = "running"
    /\ stopping
    /\ reaper' = "ended"
    /\ UNCHANGED <<stopping, cut, http, request, main, run, worker, row, store, claims,
                   ghosts>>

StartDrain ==
    /\ run = "awaiting_reaper"
    /\ reaper = "ended"
    /\ run' = "draining"
    /\ UNCHANGED <<stopping, cut, http, request, main, reaper, worker, row, store, claims,
                   ghosts>>

\* The grace period is over: cancelDelivery.
GraceExpires ==
    /\ run = "draining"
    /\ Working # {}
    /\ run' = "cutting"
    /\ cut' = TRUE
    /\ UNCHANGED <<stopping, http, request, main, reaper, worker, row, store, claims,
                   ghosts>>

\* Either wait ends with the last worker; Run returns, and defers cancelDelivery.
Drained ==
    /\ run \in {"draining", "cutting"}
    /\ Working = {}
    /\ run' = "returned"
    /\ cut' = TRUE
    /\ UNCHANGED <<stopping, http, request, main, reaper, worker, row, store, claims,
                   ghosts>>

\* The second wait is over as well.
CutExpires ==
    /\ run = "cutting"
    /\ Working # {}
    /\ run' = "returned"
    /\ gaveUp' = TRUE
    /\ UNCHANGED <<stopping, cut, http, request, main, reaper, worker, row, store, claims,
                   unwritten>>

Outcome == {"succeeded", "dead", "pending"}

\* The vendor answers, or the request times out: the row's new status is decided.
VendorAnswers(n, outcome) ==
    /\ Alive
    /\ worker[n] = "sending"
    /\ worker' = [worker EXCEPT ![n] = outcome]
    /\ UNCHANGED <<stopping, cut, http, request, main, run, reaper, row, store, claims,
                   ghosts>>

\* The cancelled request returns; it is retried, or dead if this was the last attempt.
RequestIsCut(n, outcome) ==
    /\ Alive
    /\ worker[n] = "sending"
    /\ cut
    /\ outcome # "succeeded"
    /\ worker' = [worker EXCEPT ![n] = outcome]
    /\ UNCHANGED <<stopping, cut, http, request, main, run, reaper, row, store, claims,
                   ghosts>>

\* Mutant: a row is written before the fate of its attempt is known.
WriteBackUndecided(n) ==
    /\ Alive
    /\ worker[n] # "none"
    /\ store = "open"
    /\ worker' = [worker EXCEPT ![n] = "none"]
    /\ row' = [row EXCEPT ![n] = worker[n]]
    /\ UNCHANGED <<stopping, cut, http, request, main, run, reaper, store, claims,
                   ghosts>>

\* The write-back, detached from every cancellation, and the end of the worker.
WriteBack(n) ==
    /\ Alive
    /\ worker[n] \in Outcome
    /\ store = "open"
    /\ worker' = [worker EXCEPT ![n] = "none"]
    /\ row' = [row EXCEPT ![n] = worker[n]]
    /\ UNCHANGED <<stopping, cut, http, request, main, run, reaper, store, claims,
                   ghosts>>

\* The database fails or is closed: logWriteback, and the worker ends. The row keeps its
\* lease.
WriteBackFails(n) ==
    /\ Alive
    /\ worker[n] \in Outcome
    /\ worker' = [worker EXCEPT ![n] = "none"]
    /\ unwritten' = unwritten \cup {n}
    /\ UNCHANGED <<stopping, cut, http, request, main, run, reaper, row, store, claims,
                   gaveUp>>

\* The lease of an abandoned row expires and the reaper recovers it, with or without
\* budget.
Recover(n, status) ==
    /\ reaper = "running"
    /\ ~stopping
    /\ row[n] = "in_flight"
    /\ worker[n] = "none"
    /\ row' = [row EXCEPT ![n] = status]
    /\ unwritten' = unwritten \ {n}
    /\ UNCHANGED <<stopping, cut, http, request, main, run, reaper, worker, store, claims,
                   gaveUp>>

-------------------------------------------------------------------------------

Next ==
    \/ \E n \in Notifications :
          \/ Receive(n) \/ Store(n) \/ Accept(n)
          \/ Claim(n)
          \/ \E outcome \in Outcome : VendorAnswers(n, outcome) \/ RequestIsCut(n, outcome)
          \/ WriteBack(n) \/ WriteBackFails(n)
          \/ \E status \in {"pending", "dead"} : Recover(n, status)
    \/ Signal \/ ListenFails
    \/ CloseHttp \/ HttpDrained \/ HttpDrainExpires \/ MainReturns \/ Exit
    \/ LoopEnds \/ ReaperEnds \/ StartDrain \/ GraceExpires \/ Drained \/ CutExpires

Spec == Init /\ [][Next]_vars

\* Every goroutine that can go on does, the time limits run out, and a cancelled request
\* returns. Clients, signals and vendors are obliged to nothing.
Fairness ==
    /\ WF_vars(CloseHttp) /\ WF_vars(HttpDrained \/ HttpDrainExpires)
    /\ WF_vars(MainReturns) /\ WF_vars(Exit)
    /\ WF_vars(LoopEnds) /\ WF_vars(ReaperEnds) /\ WF_vars(StartDrain)
    /\ WF_vars(GraceExpires \/ Drained) /\ WF_vars(CutExpires)
    /\ \A n \in Notifications :
          /\ WF_vars(\E outcome \in Outcome : RequestIsCut(n, outcome))
          /\ WF_vars(WriteBack(n) \/ WriteBackFails(n))

FairSpec == Spec /\ Fairness

-------------------------------------------------------------------------------
(* Properties. *)

\* Every variable has its type.
TypeOK ==
    /\ stopping \in BOOLEAN /\ cut \in BOOLEAN
    /\ http \in {"serving", "draining", "closed", "failed"}
    /\ request \in [Notifications -> {"none", "received", "stored", "refused", "accepted"}]
    /\ main \in Main
    /\ run \in Run
    /\ reaper \in {"running", "ended"}
    /\ worker \in [Notifications -> {"none", "sending"} \cup Outcome]
    /\ row \in [Notifications -> Status]
    /\ store \in {"open", "closed"}
    /\ claims \in [Notifications -> Nat]
    /\ unwritten \subseteq Notifications
    /\ gaveUp \in BOOLEAN

\* A stop leaves nothing half done: unless Run gave up on workers, every worker has ended
\* when the store is closed, and no row waits for its lease but those whose write-back
\* failed. The next process finds every other accepted notification settled or due,
\* whatever the vendors, the handlers and the reaper did meanwhile.
CleanStop ==
    store = "closed" /\ ~gaveUp =>
        /\ Working = {}
        /\ \A n \in Notifications \ unwritten : row[n] # "in_flight"

\* No accepted notification is missing from the store, although handlers may outlive the
\* store they write to.
AcceptedIsStored ==
    \A n \in Notifications : request[n] = "accepted" => row[n] # "absent"

\* A signal or a failing listener ends the process, although handlers may hang and
\* vendors may never answer.
Stops == stopping ~> main = "exited"

================================================================================
