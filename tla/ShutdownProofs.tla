----------------------------- MODULE ShutdownProofs -----------------------------
(***************************************************************************)
(* A stop is clean, for every number of notifications and claims, unless   *)
(* Run gives up on workers.                                                *)
(*                                                                         *)
(* The argument: the store is closed only after Run has returned, Run      *)
(* returns only without workers and never claims again, and a worker       *)
(* leaves its row in flight only when its write-back failed.               *)
(***************************************************************************)
EXTENDS Shutdown, TLAPS

\* The types the argument needs.
StopType ==
    /\ worker \in [Notifications -> {"none", "sending"} \cup Outcome]
    /\ row \in [Notifications -> Status]

\* A row in flight is some worker's, or was given up.
RowsAreHeld ==
    ~gaveUp => \A n \in Notifications :
        row[n] = "in_flight" => worker[n] # "none" \/ n \in unwritten

\* What follows whom in the stop.
StopOrder ==
    /\ store = "closed" \/ main \in {"returned", "exited"} => run = "returned"
    /\ run = "returned" /\ ~gaveUp => \A n \in Notifications : worker[n] = "none"

StopInv == StopType /\ RowsAreHeld /\ StopOrder

-------------------------------------------------------------------------------

LEMMA StopInit == Init => StopInv
BY DEF Init, StopInv, StopType, RowsAreHeld, StopOrder, Status

\* The steps that leave workers and rows alone.
LEMMA QuietSteps ==
    ASSUME StopInv,
           UNCHANGED <<worker, row, unwritten>>, gaveUp => gaveUp',
           \/ UNCHANGED <<main, run, store, gaveUp>>
           \/ ListenFails \/ CloseHttp \/ HttpDrained \/ HttpDrainExpires \/ MainReturns
           \/ LoopEnds \/ StartDrain \/ GraceExpires \/ Drained \/ CutExpires
    PROVE  StopInv'
<1>1. StopType' /\ RowsAreHeld'
  BY DEF StopInv, StopType, RowsAreHeld
<1>2. StopOrder'
  <2>1. CASE UNCHANGED <<main, run, store, gaveUp>>
    BY <2>1 DEF StopInv, StopOrder
  <2>2. CASE ListenFails \/ CloseHttp \/ HttpDrained \/ HttpDrainExpires \/ MainReturns
    BY <2>2 DEF StopInv, StopOrder, ListenFails, CloseHttp, HttpDrained,
                HttpDrainExpires, MainReturns
  <2>3. CASE LoopEnds \/ StartDrain \/ GraceExpires \/ CutExpires
    BY <2>3 DEF StopInv, StopOrder, LoopEnds, StartDrain, GraceExpires, CutExpires
  <2>4. CASE Drained
    BY <2>4 DEF StopInv, StopOrder, Drained, Working
  <2> QED BY <2>1, <2>2, <2>3, <2>4
<1> QED BY <1>1, <1>2 DEF StopInv

\* The steps on one notification.
LEMMA NotificationSteps ==
    ASSUME StopInv, NEW n \in Notifications,
           \/ Store(n) \/ Claim(n) \/ WriteBack(n) \/ WriteBackFails(n)
           \/ \E status \in {"pending", "dead"} : Recover(n, status)
           \/ \E outcome \in Outcome : VendorAnswers(n, outcome) \/ RequestIsCut(n, outcome)
    PROVE  StopInv'
<1> USE DEF StopInv, StopType, RowsAreHeld, StopOrder, Status, Outcome, ghosts
<1>1. CASE Store(n)
  BY <1>1 DEF Store
<1>2. CASE Claim(n)
  BY <1>2 DEF Claim
<1>3. CASE WriteBack(n)
  BY <1>3 DEF WriteBack
<1>4. CASE WriteBackFails(n)
  BY <1>4 DEF WriteBackFails
<1>5. ASSUME NEW status \in {"pending", "dead"}, Recover(n, status)
      PROVE  StopInv'
  BY <1>5 DEF Recover
<1>6. ASSUME NEW outcome \in Outcome, VendorAnswers(n, outcome)
      PROVE  StopInv'
  BY <1>6 DEF VendorAnswers
<1>7. ASSUME NEW outcome \in Outcome, RequestIsCut(n, outcome)
      PROVE  StopInv'
  BY <1>7 DEF RequestIsCut
<1> QED BY <1>1, <1>2, <1>3, <1>4, <1>5, <1>6, <1>7

LEMMA StopStep ==
    ASSUME StopInv, [Next]_vars
    PROVE  StopInv'
<1>1. CASE UNCHANGED vars
  BY <1>1, QuietSteps DEF vars, ghosts
<1>2. ASSUME NEW n \in Notifications, Receive(n) \/ Accept(n)
      PROVE  StopInv'
  BY <1>2, QuietSteps DEF Receive, Accept, ghosts
<1>3. ASSUME NEW n \in Notifications,
             \/ Store(n) \/ Claim(n) \/ WriteBack(n) \/ WriteBackFails(n)
             \/ \E status \in {"pending", "dead"} : Recover(n, status)
             \/ \E outcome \in Outcome :
                   VendorAnswers(n, outcome) \/ RequestIsCut(n, outcome)
      PROVE  StopInv'
  BY <1>3, NotificationSteps
<1>4. CASE Signal \/ ReaperEnds
  BY <1>4, QuietSteps DEF Signal, ReaperEnds, ghosts
<1>5. CASE ListenFails \/ CloseHttp \/ HttpDrained \/ HttpDrainExpires \/ MainReturns
  <2>1. UNCHANGED <<worker, row, unwritten>> /\ gaveUp' = gaveUp
    BY <1>5 DEF ListenFails, CloseHttp, HttpDrained, HttpDrainExpires, MainReturns, ghosts
  <2> QED BY <1>5, <2>1, QuietSteps
<1>6. CASE LoopEnds \/ StartDrain \/ GraceExpires \/ Drained \/ CutExpires
  <2>1. UNCHANGED <<worker, row, unwritten>> /\ (gaveUp' = gaveUp \/ gaveUp')
    BY <1>6 DEF LoopEnds, StartDrain, GraceExpires, Drained, CutExpires, ghosts
  <2> QED BY <1>6, <2>1, QuietSteps
<1>7. CASE Exit
  BY <1>7 DEF Exit, ghosts, StopInv, StopType, RowsAreHeld, StopOrder
<1> QED BY <1>1, <1>2, <1>3, <1>4, <1>5, <1>6, <1>7 DEF Next

-------------------------------------------------------------------------------

\* Whatever the vendors, the handlers, the database and the time limits do: unless Run
\* gives up on workers, a process closes its store with no worker left and no row left in
\* flight but those whose write-back failed (main.run, dispatcher.Run).
THEOREM StopIsClean == Spec => []CleanStop
<1>1. Init => StopInv
  BY StopInit
<1>2. StopInv /\ [Next]_vars => StopInv'
  BY StopStep
<1>3. StopInv => CleanStop
  BY DEF StopInv, StopType, RowsAreHeld, StopOrder, CleanStop, Working
<1> QED BY <1>1, <1>2, <1>3, PTL DEF Spec

-------------------------------------------------------------------------------
(* Types, and what was answered. *)

\* The steps on one notification keep the types.
LEMMA NotificationTypes ==
    ASSUME TypeOK, NEW n \in Notifications,
           \/ Receive(n) \/ Store(n) \/ Accept(n) \/ Claim(n) \/ WriteBack(n)
           \/ WriteBackFails(n)
           \/ \E status \in {"pending", "dead"} : Recover(n, status)
           \/ \E outcome \in Outcome : VendorAnswers(n, outcome) \/ RequestIsCut(n, outcome)
    PROVE  TypeOK'
<1> USE DEF TypeOK, ghosts, Status, Outcome
<1>1. CASE Receive(n) \/ Accept(n)
  BY <1>1 DEF Receive, Accept
<1>2. CASE Store(n)
  BY <1>2 DEF Store
<1>3. CASE Claim(n)
  BY <1>3 DEF Claim
<1>4. CASE WriteBack(n) \/ WriteBackFails(n)
  BY <1>4 DEF WriteBack, WriteBackFails
<1>5. ASSUME NEW status \in {"pending", "dead"}, Recover(n, status)
      PROVE  TypeOK'
  BY <1>5 DEF Recover
<1>6. ASSUME NEW outcome \in Outcome, VendorAnswers(n, outcome) \/ RequestIsCut(n, outcome)
      PROVE  TypeOK'
  BY <1>6 DEF VendorAnswers, RequestIsCut
<1> QED BY <1>1, <1>2, <1>3, <1>4, <1>5, <1>6

LEMMA TypeStep == TypeOK /\ [Next]_vars => TypeOK'
<1> SUFFICES ASSUME TypeOK, [Next]_vars
             PROVE  TypeOK'
  OBVIOUS
<1>1. CASE UNCHANGED vars
  BY <1>1 DEF vars, ghosts, TypeOK
<1>2. CASE Signal \/ ListenFails \/ CloseHttp \/ HttpDrained \/ HttpDrainExpires \/ MainReturns
  BY <1>2 DEF Signal, ListenFails, CloseHttp, HttpDrained, HttpDrainExpires, MainReturns,
              ghosts, TypeOK, Main
<1>3. CASE LoopEnds \/ ReaperEnds \/ StartDrain \/ GraceExpires \/ Drained \/ CutExpires
  BY <1>3 DEF LoopEnds, ReaperEnds, StartDrain, GraceExpires, Drained, CutExpires,
              ghosts, TypeOK, Run
<1>4. CASE Exit
  BY <1>4 DEF Exit, ghosts, TypeOK, Main
<1> QED BY <1>1, <1>2, <1>3, <1>4, NotificationTypes DEF Next

LEMMA TypeInit == Init => TypeOK
<1> SUFFICES ASSUME Init PROVE TypeOK
  OBVIOUS
<1>1. stopping \in BOOLEAN /\ cut \in BOOLEAN /\ gaveUp \in BOOLEAN
  BY DEF Init
<1>2. /\ http \in {"serving", "draining", "closed", "failed"}
      /\ main \in Main /\ run \in Run /\ reaper \in {"running", "ended"}
      /\ store \in {"open", "closed"}
  BY DEF Init, Main, Run
<1>3. /\ request \in [Notifications -> {"none", "received", "stored", "refused", "accepted"}]
      /\ worker \in [Notifications -> {"none", "sending"} \cup Outcome]
      /\ row \in [Notifications -> Status]
      /\ claims \in [Notifications -> Nat] /\ unwritten \subseteq Notifications
  BY DEF Init, Status
<1> QED BY <1>1, <1>2, <1>3 DEF TypeOK

\* Type correctness of the stopping process.
THEOREM TypeCorrect == Spec => []TypeOK
<1> QED BY TypeInit, TypeStep, PTL DEF Spec

\* A handler that stored its notification has a row to answer for; no row goes away.
StoredHasRow ==
    \A n \in Notifications : request[n] \in {"stored", "accepted"} => row[n] # "absent"

LEMMA StoredStep == TypeOK /\ StoredHasRow /\ [Next]_vars => StoredHasRow'
<1> SUFFICES ASSUME TypeOK, StoredHasRow, [Next]_vars
             PROVE  StoredHasRow'
  OBVIOUS
<1>1. CASE request' = request /\ row' = row
  BY <1>1 DEF StoredHasRow
<1>2. ASSUME NEW n \in Notifications, Receive(n) \/ Store(n) \/ Accept(n)
      PROVE  StoredHasRow'
  BY <1>2 DEF Receive, Store, Accept, StoredHasRow, TypeOK, Status
<1>3. ASSUME NEW n \in Notifications, Claim(n) \/ WriteBack(n)
      PROVE  StoredHasRow'
  BY <1>3 DEF Claim, WriteBack, StoredHasRow, TypeOK, Status, Outcome
<1>4. ASSUME NEW n \in Notifications, NEW status \in {"pending", "dead"}, Recover(n, status)
      PROVE  StoredHasRow'
  BY <1>4 DEF Recover, StoredHasRow, TypeOK
<1>5. CASE Exit
  BY <1>5 DEF Exit, StoredHasRow, TypeOK
<1>6. ASSUME NEW n \in Notifications,
             \/ WriteBackFails(n)
             \/ \E outcome \in Outcome :
                   VendorAnswers(n, outcome) \/ RequestIsCut(n, outcome)
      PROVE  request' = request /\ row' = row
  BY <1>6 DEF WriteBackFails, VendorAnswers, RequestIsCut
<1>7. ASSUME \/ Signal \/ ListenFails \/ CloseHttp \/ HttpDrained \/ HttpDrainExpires
             \/ MainReturns \/ LoopEnds \/ ReaperEnds \/ StartDrain \/ GraceExpires
             \/ Drained \/ CutExpires \/ UNCHANGED vars
      PROVE  request' = request /\ row' = row
  BY <1>7 DEF Signal, ListenFails, CloseHttp, HttpDrained, HttpDrainExpires, MainReturns,
              LoopEnds, ReaperEnds, StartDrain, GraceExpires, Drained, CutExpires, vars
<1> QED BY <1>1, <1>2, <1>3, <1>4, <1>5, <1>6, <1>7 DEF Next

\* No accepted notification is missing from the store, at any moment of a stop, although
\* handlers may outlive the store they write to (handleSubmit, Enqueue).
THEOREM AcceptedAreStored == Spec => []AcceptedIsStored
<1>1. Init => StoredHasRow
  BY DEF Init, StoredHasRow
<1>2. StoredHasRow => AcceptedIsStored
  BY DEF StoredHasRow, AcceptedIsStored
<1> QED BY <1>1, <1>2, StoredStep, TypeInit, TypeStep, PTL DEF Spec

================================================================================
