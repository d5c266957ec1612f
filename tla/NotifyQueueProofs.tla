--------------------------- MODULE NotifyQueueProofs ---------------------------
(***************************************************************************)
(* Theorems about NotifyQueue, for every set of notifications, instances   *)
(* and every value of the bounds.                                          *)
(***************************************************************************)
EXTENDS NotifyQueue, FiniteSetTheorems, TLAPS

-------------------------------------------------------------------------------
(* Types. The deliveries are finite in number, so that a crash loses a number of *)
(* them.                                                                         *)

TypeInv == TypeOK /\ IsFiniteSet(deliveries)

\* The claim starts finitely many deliveries, each of them typed.
LEMMA ClaimTypes ==
    ASSUME TypeInv, NEW i \in Instances, NEW batch \in SUBSET Notifications,
           Claim(i, batch)
    PROVE  TypeInv'
<1> DEFINE f == [n \in batch |-> NewDelivery(n, i)]
           started == {NewDelivery(n, i) : n \in batch}
<1>1. IsFiniteSet(batch)
  BY NotificationsAssumption, FS_Subset
<1>2. f \in Surjection(batch, started)
  BY DEF Surjection
<1>3. IsFiniteSet(started)
  <2> HIDE DEF f, started
  <2> QED BY <1>1, <1>2, FS_Surjection
<1>4. IsFiniteSet(deliveries')
  BY <1>3, FS_Union DEF Claim, TypeInv
<1>5. \A n \in batch : NewDelivery(n, i) \in Delivery
  BY DEF TypeInv, TypeOK, NewDelivery, Delivery, Row, Phase, Outcome
<1>6. deliveries' \subseteq Delivery
  BY <1>5 DEF Claim, TypeInv, TypeOK
<1>7. rows' \in [Notifications -> Row]
  <2>1. \A n \in Notifications : Claimed(rows[n], i) \in Row
    BY DEF Claimed, TypeInv, TypeOK, Row, Status, Lease
  <2> QED BY <2>1 DEF Claim, TypeInv, TypeOK
<1> QED
  BY <1>4, <1>6, <1>7 DEF Claim, TypeInv, TypeOK

\* A worker's step keeps the deliveries finite and everything typed.
LEMMA DeliveryTypes ==
    ASSUME TypeInv, NEW d \in deliveries, DeliveryStep(d)
    PROVE  TypeInv'
<1>1. d \in Delivery /\ d.n \in Notifications /\ d.no \in Nat /\ d.max \in Nat
  BY DEF TypeInv, TypeOK, Delivery
<1>2. ASSUME NEW e \in Delivery, deliveries' = Advance(d, e)
      PROVE  IsFiniteSet(deliveries') /\ deliveries' \subseteq Delivery
  BY <1>2, FS_RemoveElement, FS_AddElement DEF Advance, TypeInv, TypeOK
<1>3. ASSUME deliveries' = deliveries \ {d}
      PROVE  IsFiniteSet(deliveries') /\ deliveries' \subseteq Delivery
  BY <1>3, FS_RemoveElement DEF TypeInv, TypeOK
<1>4. ASSUME NEW p \in Phase, NEW o \in Outcome
      PROVE  /\ [d EXCEPT !.phase = p] \in Delivery
             /\ [d EXCEPT !.phase = p, !.outcome = o] \in Delivery
  BY <1>1, <1>4 DEF Delivery
<1>5. ASSUME NEW s \in Status
      PROVE  Released(d, s) \in Row
  <2>1. rows[d.n] \in Row
    BY <1>1 DEF TypeInv, TypeOK
  <2> QED BY <2>1, <1>1, <1>5 DEF Released, Row, Lease
<1>6. ASSUME NEW row \in Row, WriteBack(d, row)
      PROVE  TypeInv'
  <2>1. rows' \in [Notifications -> Row] /\ lost' \in [Notifications -> Nat]
    BY <1>1, <1>6 DEF WriteBack, TypeInv, TypeOK
  <2> QED BY <2>1, <1>3, <1>6 DEF WriteBack, TypeInv, TypeOK
<1>7. CASE Send(d)
  <2>1. sent' \in [Notifications -> Nat]
    BY <1>1, <1>7 DEF Send, TypeInv, TypeOK
  <2>2. [d EXCEPT !.phase = "sent"] \in Delivery
    BY <1>4 DEF Phase, Outcome
  <2> QED BY <2>1, <2>2, <1>2, <1>7 DEF Send, TypeInv, TypeOK
<1>8. ASSUME NEW o \in Outcome \ {"none"}, RefuseUnsent(d, o)
      PROVE  TypeInv'
  <2>1. [d EXCEPT !.phase = "answered", !.outcome = o] \in Delivery
    BY <1>4 DEF Phase
  <2> QED BY <2>1, <1>2, <1>8 DEF RefuseUnsent, ghosts, TypeInv, TypeOK
<1>9. ASSUME NEW o \in Outcome \ {"none"}, Answer(d, o)
      PROVE  TypeInv'
  <2>1. acks' \in [Notifications -> Nat]
    BY <1>1, <1>9 DEF Answer, TypeInv, TypeOK
  <2>2. [d EXCEPT !.phase = "answered", !.outcome = o] \in Delivery
    BY <1>4 DEF Phase
  <2> QED BY <2>1, <2>2, <1>2, <1>9 DEF Answer, TypeInv, TypeOK
<1>10. ASSUME NEW ok \in BOOLEAN, RecordAttempt(d, ok)
       PROVE  TypeInv'
  <2>1. audit' \subseteq Notifications \X Nat
    BY <1>1, <1>10 DEF RecordAttempt, TypeInv, TypeOK
  <2>2. [d EXCEPT !.phase = "recorded"] \in Delivery
    BY <1>4 DEF Phase, Outcome
  <2> QED BY <2>1, <2>2, <1>2, <1>10 DEF RecordAttempt, ghosts, TypeInv, TypeOK
<1>11. CASE FinishSuccess(d)
  BY <1>5, <1>6, <1>11 DEF FinishSuccess, Status
<1>12. CASE FinishDead(d)
  BY <1>5, <1>6, <1>12 DEF FinishDead, Status
<1>13. CASE ScheduleRetry(d)
  <2>1. Released(d, "pending") \in Row
    BY <1>5 DEF Status
  <2>2. [Released(d, "pending") EXCEPT !.due = FALSE] \in Row
    BY <2>1 DEF Row
  <2> QED BY <2>2, <1>6, <1>13 DEF ScheduleRetry
<1>14. CASE WriteBackFails(d)
  <2>1. lost' \in [Notifications -> Nat]
    BY <1>1, <1>14 DEF WriteBackFails, TypeInv, TypeOK
  <2> QED BY <2>1, <1>3, <1>14 DEF WriteBackFails, TypeInv, TypeOK
<1> QED
  BY <1>7, <1>8, <1>9, <1>10, <1>11, <1>12, <1>13, <1>14 DEF DeliveryStep

\* A crash loses a natural number of deliveries of each notification.
LEMMA CrashTypes ==
    ASSUME TypeInv, NEW i \in Instances, Crash(i)
    PROVE  TypeInv'
<1>1. ASSUME NEW n \in Notifications
      PROVE  Cardinality({d \in deliveries : d.n = n /\ d.owner = i}) \in Nat
  <2>1. {d \in deliveries : d.n = n /\ d.owner = i} \in SUBSET deliveries
    OBVIOUS
  <2>2. IsFiniteSet({d \in deliveries : d.n = n /\ d.owner = i})
    BY <2>1, FS_Subset DEF TypeInv
  <2> QED BY <2>2, FS_CardinalityType
<1>2. lost' \in [Notifications -> Nat]
  BY <1>1 DEF Crash, TypeInv, TypeOK
<1>3. deliveries' \in SUBSET deliveries
  BY DEF Crash
<1>4. IsFiniteSet(deliveries')
  BY <1>3, FS_Subset DEF TypeInv
<1> QED
  BY <1>2, <1>3, <1>4 DEF Crash, TypeInv, TypeOK

LEMMA TypeStep == TypeInv /\ [Next]_vars => TypeInv'
<1> SUFFICES ASSUME TypeInv, [Next]_vars
             PROVE  TypeInv'
  OBVIOUS
<1>1. ASSUME NEW n \in Notifications, NEW budget \in 1..MaxBudget, Enqueue(n, budget)
      PROVE  TypeInv'
  BY <1>1, BoundAssumption DEF Enqueue, ghosts, TypeInv, TypeOK, Row, Status, Lease
<1>2. ASSUME NEW n \in Notifications, BecomeDue(n)
      PROVE  TypeInv'
  BY <1>2 DEF BecomeDue, ghosts, TypeInv, TypeOK, Row
<1>3. ASSUME NEW n \in Notifications, LeaseExpires(n)
      PROVE  TypeInv'
  BY <1>3 DEF LeaseExpires, ghosts, TypeInv, TypeOK, Row, Lease
<1>4. ASSUME NEW n \in Notifications, NEW extra \in 1..MaxExtra, Requeue(n, extra)
      PROVE  TypeInv'
  <2>1. rows[n] \in Row /\ rows[n].attempt + extra \in Nat
    BY DEF TypeInv, TypeOK, Row
  <2>2. [rows[n] EXCEPT !.status = "pending", !.due = TRUE,
                        !.max = rows[n].attempt + extra] \in Row
    BY <2>1 DEF Row, Status
  <2>3. rows' = [rows EXCEPT ![n] = [rows[n] EXCEPT !.status = "pending", !.due = TRUE,
                                              !.max = rows[n].attempt + extra]]
    BY <1>4 DEF Requeue, TypeInv, TypeOK
  <2>4. rows' \in [Notifications -> Row]
    BY <2>2, <2>3 DEF TypeInv, TypeOK
  <2> QED BY <2>4, <1>4 DEF Requeue, TypeInv, TypeOK
<1>5. ASSUME NEW n \in Notifications, Cancel(n)
      PROVE  TypeInv'
  <2>1. [rows[n] EXCEPT !.status = "canceled", !.owner = NoOwner, !.lease = "none"] \in Row
    BY DEF TypeInv, TypeOK, Row, Status, Lease
  <2>2. rows' = [rows EXCEPT ![n] = [rows[n] EXCEPT !.status = "canceled",
                                              !.owner = NoOwner, !.lease = "none"]]
    BY <1>5 DEF Cancel, TypeInv, TypeOK
  <2>3. rows' \in [Notifications -> Row]
    BY <2>1, <2>2 DEF TypeInv, TypeOK
  <2> QED BY <2>3, <1>5 DEF Cancel, ghosts, TypeInv, TypeOK
<1>6. CASE RecoverExpiredLeases
  <2>1. ASSUME NEW row \in Row
        PROVE  Recovered(row) \in Row
    <3> DEFINE s == IF row.attempt + 1 >= row.max THEN "dead" ELSE "pending"
    <3>1. s \in Status /\ row.attempt + 1 \in Nat
      BY DEF Row, Status
    <3>2. Recovered(row) = [row EXCEPT !.attempt = row.attempt + 1, !.status = s,
                                       !.owner = NoOwner, !.lease = "none", !.due = TRUE]
      BY DEF Recovered, Row
    <3> QED
      <4> HIDE DEF s
      <4> QED BY <3>1, <3>2 DEF Row, Lease
  <2> QED BY <2>1, <1>6 DEF RecoverExpiredLeases, ghosts, TypeInv, TypeOK
<1>7. CASE UNCHANGED vars
  BY <1>7 DEF vars, TypeInv, TypeOK
<1> QED
  BY <1>1, <1>2, <1>3, <1>4, <1>5, <1>6, <1>7, ClaimTypes, DeliveryTypes, CrashTypes
  DEF Next

LEMMA TypeInit == Init => TypeInv
  BY FS_EmptySet DEF Init, AbsentRow, TypeInv, TypeOK, Row, Status, Lease

\* Type correctness: TypeOK holds in every reachable state of every instance.
THEOREM TypeCorrect == Spec => []TypeOK
<1>1. TypeInv => TypeOK
  BY DEF TypeInv
<1> QED BY <1>1, TypeInit, TypeStep, PTL DEF Spec

-------------------------------------------------------------------------------
(* No false success. A success is written only by a delivery that carries one,   *)
(* and a delivery carries one only after its vendor's acknowledgement: this holds *)
(* whether or not the lease still belongs to the worker.                         *)

SuccessAcked == \A d \in deliveries : d.outcome = "success" => acks[d.n] > 0

AckInv == SuccessAcked /\ NoFalseSuccess

\* Only answers change acks, and they only add to them.
LEMMA AcksGrow ==
    ASSUME TypeInv, [Next]_vars, NEW n \in Notifications
    PROVE  acks[n] \in Nat /\ acks'[n] \in Nat /\ acks[n] <= acks'[n]
<1>1. acks[n] \in Nat /\ acks'[n] \in Nat
  BY TypeStep DEF TypeInv, TypeOK
<1>2. ASSUME NEW d \in deliveries, DeliveryStep(d)
      PROVE  acks[n] <= acks'[n]
  <2>1. ASSUME NEW o \in Outcome \ {"none"}, Answer(d, o)
        PROVE  acks[n] <= acks'[n]
    BY <1>1, <2>1 DEF Answer, TypeInv, TypeOK
  <2>2. \/ \E o \in Outcome \ {"none"} : Answer(d, o)
        \/ acks' = acks
    BY <1>2 DEF DeliveryStep, Send, RefuseUnsent, RecordAttempt, WriteBack,
         FinishSuccess, FinishDead, ScheduleRetry, WriteBackFails, ghosts
  <2> QED BY <1>1, <2>1, <2>2
<1>3. (\E d \in deliveries : DeliveryStep(d)) \/ acks' = acks
  BY DEF Next, Enqueue, BecomeDue, LeaseExpires, Requeue, Cancel, Claim, Crash,
       RecoverExpiredLeases, ghosts, vars
<1> QED
  BY <1>1, <1>2, <1>3

\* What a step does to the deliveries: a delivery that carries a success afterwards
\* carried it before or is being acknowledged.
LEMMA SuccessAckedStep == TypeInv /\ SuccessAcked /\ [Next]_vars => SuccessAcked'
<1> SUFFICES ASSUME TypeInv, SuccessAcked, [Next]_vars,
                    NEW e \in deliveries', e.outcome = "success"
             PROVE  acks'[e.n] > 0
  BY DEF SuccessAcked
<1>1. e.n \in Notifications
  BY TypeStep DEF TypeInv, TypeOK, Delivery
<1>2. CASE e \in deliveries
  BY <1>1, <1>2, AcksGrow DEF SuccessAcked
<1>3. CASE \E d \in deliveries : e.n = d.n /\ e.outcome = d.outcome
  BY <1>1, <1>3, AcksGrow DEF SuccessAcked
<1>4. CASE \E d \in deliveries : Answer(d, "success") /\ e.n = d.n
  <2>1. PICK d \in deliveries : Answer(d, "success") /\ e.n = d.n
    BY <1>4
  <2> QED BY <2>1, <1>1 DEF Answer, TypeInv, TypeOK
<1>5. \/ e \in deliveries
      \/ \E d \in deliveries : e.n = d.n /\ e.outcome = d.outcome
      \/ \E d \in deliveries : Answer(d, "success") /\ e.n = d.n
  <2>1. ASSUME NEW d \in deliveries, DeliveryStep(d)
        PROVE  <1>5
    <3>1. d \in Delivery
      BY DEF TypeInv, TypeOK
    <3>2. CASE Send(d)
      BY <3>1, <3>2 DEF Send, Advance, Delivery
    <3>3. ASSUME NEW o \in Outcome \ {"none"}, RefuseUnsent(d, o)
          PROVE  <1>5
      BY <3>1, <3>3 DEF RefuseUnsent, Advance, Delivery
    <3>4. ASSUME NEW o \in Outcome \ {"none"}, Answer(d, o)
          PROVE  <1>5
      BY <3>1, <3>4 DEF Answer, Advance, Delivery
    <3>5. ASSUME NEW ok \in BOOLEAN, RecordAttempt(d, ok)
          PROVE  <1>5
      BY <3>1, <3>5 DEF RecordAttempt, Advance, Delivery
    <3>6. CASE FinishSuccess(d) \/ FinishDead(d) \/ ScheduleRetry(d) \/ WriteBackFails(d)
      BY <3>6 DEF FinishSuccess, FinishDead, ScheduleRetry, WriteBackFails, WriteBack
    <3> QED BY <2>1, <3>2, <3>3, <3>4, <3>5, <3>6 DEF DeliveryStep
  <2>2. ASSUME NEW i \in Instances, NEW batch \in SUBSET Notifications, Claim(i, batch)
        PROVE  <1>5
    BY <2>2 DEF Claim, NewDelivery
  <2> QED
    BY <2>1, <2>2 DEF Next, Enqueue, BecomeDue, LeaseExpires, Requeue, Cancel, Crash,
         RecoverExpiredLeases, vars
<1> QED
  BY <1>2, <1>3, <1>4, <1>5

-------------------------------------------------------------------------------
(* Refinement of Lifecycle. *)

\* What a step may make of the status of n.
LegalMove(n) ==
    rows'[n].status # rows[n].status =>
       /\ Promise!CanTransition(rows[n].status, rows'[n].status)
       /\ rows'[n].status = "succeeded" => acks[n] > 0

DeliveriesStored == \A d \in deliveries : rows[d.n].status # "absent"

\* A write-back moves the row of its delivery out of in_flight, or moves nothing.
LEMMA WriteBackMoves ==
    ASSUME TypeInv, NEW d \in deliveries, NEW row, WriteBack(d, row),
           row.status \in {"succeeded", "dead", "pending"},
           row.status = "succeeded" => acks[d.n] > 0,
           NEW n \in Notifications
    PROVE  LegalMove(n)
<1>1. d.n \in Notifications
  BY DEF TypeInv, TypeOK, Delivery
<1>2. CASE Owned(d) /\ n = d.n
  <2>1. rows[n].status = "in_flight" /\ rows'[n] = row
    BY <1>1, <1>2 DEF WriteBack, Owned, TypeInv, TypeOK
  <2> QED
    BY <2>1, <1>2 DEF LegalMove, Promise!CanTransition, Promise!AllowedTransitions
<1>3. CASE ~(Owned(d) /\ n = d.n)
  BY <1>1, <1>3 DEF WriteBack, LegalMove, TypeInv, TypeOK
<1> QED BY <1>2, <1>3

LEMMA DeliveryMoves ==
    ASSUME TypeInv, SuccessAcked, NEW d \in deliveries, DeliveryStep(d),
           NEW n \in Notifications
    PROVE  LegalMove(n)
<1>1. ASSUME NEW s \in Status
      PROVE  Released(d, s).status = s
  BY DEF Released, TypeInv, TypeOK, Row, Delivery
<1>2. CASE FinishSuccess(d)
  <2>1. Released(d, "succeeded").status = "succeeded"
    BY <1>1 DEF Status
  <2> QED BY <2>1, <1>2, WriteBackMoves DEF FinishSuccess, SuccessAcked
<1>3. CASE FinishDead(d)
  <2>1. Released(d, "dead").status = "dead"
    BY <1>1 DEF Status
  <2> QED BY <2>1, <1>3, WriteBackMoves DEF FinishDead
<1>4. CASE ScheduleRetry(d)
  <2>1. Released(d, "pending").status = "pending"
    BY <1>1 DEF Status
  <2>2. [Released(d, "pending") EXCEPT !.due = FALSE].status = "pending"
    BY <2>1 DEF Released
  <2> QED BY <2>2, <1>4, WriteBackMoves DEF ScheduleRetry
<1>5. (FinishSuccess(d) \/ FinishDead(d) \/ ScheduleRetry(d)) \/ rows' = rows
  BY DEF DeliveryStep, Send, RefuseUnsent, Answer, RecordAttempt, WriteBackFails
<1> QED BY <1>2, <1>3, <1>4, <1>5 DEF LegalMove

\* Every step moves every status along allowedTransitions.
LEMMA StepMoves ==
    ASSUME TypeInv, SuccessAcked, [Next]_vars, NEW n \in Notifications
    PROVE  LegalMove(n)
<1> USE DEF LegalMove, Promise!CanTransition, Promise!AllowedTransitions, TypeInv, TypeOK
<1>1. ASSUME NEW m \in Notifications, NEW budget \in 1..MaxBudget, Enqueue(m, budget)
      PROVE  LegalMove(n)
  BY <1>1 DEF Enqueue
<1>2. ASSUME NEW m \in Notifications, BecomeDue(m) \/ LeaseExpires(m)
      PROVE  LegalMove(n)
  <2>1. CASE BecomeDue(m)
    BY <2>1 DEF BecomeDue, Row
  <2>2. CASE LeaseExpires(m)
    BY <2>2 DEF LeaseExpires, Row
  <2> QED BY <1>2, <2>1, <2>2
<1>3. ASSUME NEW m \in Notifications, NEW extra \in 1..MaxExtra, Requeue(m, extra)
      PROVE  LegalMove(n)
  <2>1. \/ rows'[n].status = rows[n].status
        \/ rows[n].status = "dead" /\ rows'[n].status = "pending"
    BY <1>3 DEF Requeue, Row
  <2> QED BY <2>1
<1>4. ASSUME NEW m \in Notifications, Cancel(m)
      PROVE  LegalMove(n)
  <2>1. \/ rows'[n].status = rows[n].status
        \/ rows[n].status = "pending" /\ rows'[n].status = "canceled"
    BY <1>4 DEF Cancel, Row
  <2> QED BY <2>1
<1>5. ASSUME NEW i \in Instances, NEW batch \in SUBSET Notifications, Claim(i, batch)
      PROVE  LegalMove(n)
  <2>1. \/ rows'[n].status = rows[n].status
        \/ rows[n].status = "pending" /\ rows'[n].status = "in_flight"
    BY <1>5 DEF Claim, Claimable, Claimed, Row
  <2> QED BY <2>1
<1>6. CASE RecoverExpiredLeases
  <2>1. \/ rows'[n].status = rows[n].status
        \/ rows[n].status = "in_flight" /\ rows'[n].status \in {"dead", "pending"}
    BY <1>6 DEF RecoverExpiredLeases, Recovered, Expired, Row
  <2> QED BY <2>1
<1>7. (\E i \in Instances : Crash(i)) \/ UNCHANGED vars => LegalMove(n)
  BY DEF Crash, vars
<1> QED
  BY <1>1, <1>2, <1>3, <1>4, <1>5, <1>6, <1>7, DeliveryMoves DEF Next

\* Invariant of the refinement, in both regimes of the lease.
PromiseInv == TypeInv /\ AckInv /\ DeliveriesStored

LEMMA PromiseInvInit == Init => PromiseInv
<1> SUFFICES ASSUME Init
             PROVE  PromiseInv
  OBVIOUS
<1>1. TypeInv
  BY TypeInit
<1>2. AckInv /\ DeliveriesStored
  BY DEF Init, AbsentRow, AckInv, SuccessAcked, NoFalseSuccess, DeliveriesStored
<1> QED BY <1>1, <1>2 DEF PromiseInv

\* Deliveries after a step are those of notifications stored before it.
LEMMA DeliveriesStoredStep ==
    ASSUME PromiseInv, [Next]_vars
    PROVE  DeliveriesStored'
<1> SUFFICES ASSUME NEW e \in deliveries'
             PROVE  rows'[e.n].status # "absent"
  BY DEF DeliveriesStored
<1> USE DEF PromiseInv
<1>1. e.n \in Notifications
  BY TypeStep DEF TypeInv, TypeOK, Delivery
<1>2. LegalMove(e.n)
  BY <1>1, StepMoves DEF AckInv
<1>3. rows[e.n].status # "absent"
  <2>1. ASSUME NEW d \in deliveries, DeliveryStep(d)
        PROVE  e.n = d.n \/ e \in deliveries
    <3>1. d \in Delivery
      BY DEF TypeInv, TypeOK
    <3>2. CASE Send(d)
      BY <3>1, <3>2 DEF Send, Advance, Delivery
    <3>3. ASSUME NEW o \in Outcome \ {"none"}, RefuseUnsent(d, o) \/ Answer(d, o)
          PROVE  e.n = d.n \/ e \in deliveries
      BY <3>1, <3>3 DEF RefuseUnsent, Answer, Advance, Delivery
    <3>4. ASSUME NEW ok \in BOOLEAN, RecordAttempt(d, ok)
          PROVE  e.n = d.n \/ e \in deliveries
      BY <3>1, <3>4 DEF RecordAttempt, Advance, Delivery
    <3>5. CASE FinishSuccess(d) \/ FinishDead(d) \/ ScheduleRetry(d) \/ WriteBackFails(d)
      BY <3>5 DEF FinishSuccess, FinishDead, ScheduleRetry, WriteBackFails, WriteBack
    <3> QED BY <2>1, <3>2, <3>3, <3>4, <3>5 DEF DeliveryStep
  <2>2. ASSUME NEW i \in Instances, NEW batch \in SUBSET Notifications, Claim(i, batch)
        PROVE  e \in deliveries \/ rows[e.n].status = "pending"
    BY <2>2 DEF Claim, NewDelivery, Claimable
  <2>3. \/ \E d \in deliveries : e.n = d.n
        \/ rows[e.n].status = "pending"
    BY <2>1, <2>2 DEF Next, Enqueue, BecomeDue, LeaseExpires, Requeue, Cancel, Crash,
         RecoverExpiredLeases, vars
  <2> QED BY <2>3 DEF DeliveriesStored
<1> QED
  BY <1>2, <1>3 DEF LegalMove, Promise!CanTransition, Promise!AllowedTransitions

LEMMA PromiseInvStep == PromiseInv /\ [Next]_vars => PromiseInv'
<1> SUFFICES ASSUME PromiseInv, [Next]_vars
             PROVE  PromiseInv'
  OBVIOUS
<1> USE DEF PromiseInv, AckInv
<1>1. TypeInv'
  BY TypeStep
<1>2. SuccessAcked'
  BY SuccessAckedStep
<1>3. NoFalseSuccess'
  <2> SUFFICES ASSUME NEW n \in Notifications, rows'[n].status = "succeeded"
               PROVE  acks'[n] > 0
    BY DEF NoFalseSuccess
  <2>1. LegalMove(n)
    BY StepMoves
  <2> QED BY <2>1, AcksGrow DEF LegalMove, NoFalseSuccess
<1> QED BY <1>1, <1>2, <1>3, DeliveriesStoredStep

LEMMA RefinementStep ==
    ASSUME PromiseInv, [Next]_vars
    PROVE  [Promise!Next]_(Promise!vars)
<1> USE DEF PromiseInv
<1>1. ASSUME NEW d \in deliveries, Answer(d, "success")
      PROVE  Promise!Acknowledge(d.n) /\ d.n \in Notifications
  <2>1. d.n \in Notifications /\ rows[d.n].status # "absent"
    BY DEF TypeInv, TypeOK, Delivery, DeliveriesStored
  <2>2. {n \in Notifications : acks'[n] > 0} = {n \in Notifications : acks[n] > 0} \cup {d.n}
    BY <1>1, <2>1 DEF Answer, TypeInv, TypeOK
  <2>3. rows' = rows
    BY <1>1 DEF Answer
  <2> QED BY <2>1, <2>2, <2>3 DEF Promise!Acknowledge
<1>2. (\E d \in deliveries : Answer(d, "success")) \/ acks' = acks
  BY DEF Next, DeliveryStep, Send, RefuseUnsent, Answer, RecordAttempt, WriteBack,
       FinishSuccess, FinishDead, ScheduleRetry, WriteBackFails, Enqueue, BecomeDue,
       LeaseExpires, Requeue, Cancel, Claim, Crash, RecoverExpiredLeases, ghosts, vars
<1>3. ASSUME acks' = acks
      PROVE  Promise!Move
  <2>1. \A n \in Notifications : LegalMove(n)
    BY StepMoves DEF AckInv
  <2>2. \A n \in Notifications : rows'[n].status \in Promise!Status
    BY TypeStep DEF TypeInv, TypeOK, Row, Status, Promise!Status
  <2> QED BY <1>3, <2>1, <2>2 DEF LegalMove, Promise!Move
<1> QED
  BY <1>1, <1>2, <1>3 DEF Promise!Next

\* NoFalseSuccess holds in every reachable state, also when leases expire under live
\* workers and stale results are written over newer claims.
THEOREM SuccessIsAcknowledged == Spec => []NoFalseSuccess
<1>1. PromiseInv => NoFalseSuccess
  BY DEF PromiseInv, AckInv
<1> QED BY <1>1, PromiseInvInit, PromiseInvStep, PTL DEF Spec

\* The queue implements Lifecycle (KeepsPromise): every step of the store is a legal
\* move of the status machine, an acknowledgement, or invisible.
THEOREM QueueKeepsPromise == Spec => KeepsPromise
<1>1. Init => Promise!Init
  BY DEF Init, AbsentRow, Promise!Init
<1>2. PromiseInv /\ [Next]_vars => [Promise!Next]_(Promise!vars)
  BY RefinementStep
<1> QED
  BY <1>1, <1>2, PromiseInvInit, PromiseInvStep, PTL DEF Spec, KeepsPromise, Promise!Spec

-------------------------------------------------------------------------------
(* What holds when no lease expires under a live worker: exclusive delivery, the *)
(* charge of every claim and the retry budget.                                   *)


\* A row that was claimed c times: each claim is charged, and a row that can be
\* delivered has budget for it.
Charged(row, c) ==
    /\ c = row.attempt + (IF row.status = "in_flight" THEN 1 ELSE 0)
    /\ row.attempt <= row.max
    /\ row.status \in {"pending", "in_flight"} => row.attempt < row.max
    /\ row.status = "absent" => row.attempt = 0

\* The state of a row: charged, its requests were claimed and the attempt numbers of
\* its audit trail handed out.
RowOK(n) ==
    /\ Charged(rows[n], claims[n])
    /\ sent[n] <= claims[n]
    /\ \A k \in Nat : <<n, k>> \in audit => k <= claims[n]

\* The state of a live worker: it holds the running lease it claimed and works on the
\* row as it still is; its request and its audit row are outstanding until it makes them.
WorkerOK(d) ==
    /\ rows[d.n].status = "in_flight"
    /\ rows[d.n].owner = d.owner
    /\ rows[d.n].lease = "running"
    /\ d.no = rows[d.n].attempt + 1
    /\ d.max = rows[d.n].max
    /\ d.claim = claims[d.n]
    /\ d.phase = "claimed" => sent[d.n] < claims[d.n]
    /\ d.phase # "recorded" => <<d.n, d.no>> \notin audit

LeaseInv ==
    /\ TypeInv
    /\ SingleDelivery
    /\ \A d \in deliveries : WorkerOK(d)
    /\ \A n \in Notifications : RowOK(n)

LEMMA LeaseInvInit == Init => LeaseInv
<1> SUFFICES ASSUME Init
             PROVE  LeaseInv
  OBVIOUS
<1>1. TypeInv
  BY TypeInit
<1>2. \A n \in Notifications : RowOK(n)
  BY DEF Init, AbsentRow, RowOK, Charged
<1> QED
  BY <1>1, <1>2 DEF Init, LeaseInv, SingleDelivery

-------------------------------------------------------------------------------
(* Steps that change rows under no worker: submission, time, reaper, operators. *)

LEMMA RowStep ==
    ASSUME LeaseInv, TypeInv', UNCHANGED <<deliveries, audit, sent, claims>>,
           \A d \in deliveries : rows'[d.n] = rows[d.n],
           \A n \in Notifications : RowOK(n)'
    PROVE  LeaseInv'
<1>1. SingleDelivery'
  BY DEF LeaseInv, SingleDelivery
<1>2. \A d \in deliveries' : WorkerOK(d)'
  BY DEF LeaseInv, WorkerOK
<1> QED BY <1>1, <1>2 DEF LeaseInv

\* What the invariant says of one row and of the workers on it, with its types.
LEMMA RowFacts ==
    ASSUME LeaseInv, NEW n \in Notifications
    PROVE  /\ RowOK(n)
           /\ rows[n] \in Row
           /\ claims[n] \in Nat /\ sent[n] \in Nat
           /\ \A d \in deliveries : d.n = n => rows[n].status = "in_flight"
                                               /\ rows[n].lease = "running"
  BY DEF LeaseInv, TypeInv, TypeOK, WorkerOK

\* One row n changes, and no worker is on it.
LEMMA OneRowStep ==
    ASSUME LeaseInv, TypeInv', UNCHANGED <<deliveries, audit, sent, claims>>,
           NEW n \in Notifications, NEW row, rows' = [rows EXCEPT ![n] = row],
           \A d \in deliveries : d.n # n,
           Charged(row, claims[n])
    PROVE  LeaseInv'
<1>1. rows'[n] = row /\ \A m \in Notifications : m # n => rows'[m] = rows[m]
  BY DEF LeaseInv, TypeInv, TypeOK
<1>2. \A d \in deliveries : rows'[d.n] = rows[d.n]
  BY <1>1 DEF LeaseInv, TypeInv, TypeOK, Delivery
<1>3. ASSUME NEW m \in Notifications
      PROVE  RowOK(m)'
  BY <1>1, RowFacts DEF RowOK
<1> QED BY <1>2, <1>3, RowStep

LEMMA QuietSteps ==
    ASSUME LeaseInv, TypeInv', ~MayOverrun, NEW n \in Notifications,
           \/ \E budget \in 1..MaxBudget : Enqueue(n, budget)
           \/ BecomeDue(n)
           \/ LeaseExpires(n)
           \/ \E extra \in 1..MaxExtra : Requeue(n, extra)
           \/ Cancel(n)
    PROVE  LeaseInv'
<1>1. /\ rows[n] \in Row /\ rows \in [Notifications -> Row]
      /\ rows[n].attempt \in Nat /\ rows[n].max \in Nat
      /\ Charged(rows[n], claims[n])
  BY RowFacts DEF LeaseInv, TypeInv, TypeOK, Row, RowOK
<1>2. rows[n].status # "in_flight" => \A d \in deliveries : d.n # n
  BY RowFacts
<1>3. ASSUME NEW budget \in 1..MaxBudget, Enqueue(n, budget)
      PROVE  LeaseInv'
  <2> DEFINE row == [status |-> "pending", attempt |-> 0, max |-> budget,
                     owner |-> NoOwner, lease |-> "none", due |-> TRUE]
  <2>1. budget \in Nat /\ budget > 0
    BY BoundAssumption
  <2>2. Charged(row, claims[n])
    BY <1>1, <1>3, <2>1 DEF Enqueue, Charged
  <2>3. rows' = [rows EXCEPT ![n] = row] /\ UNCHANGED <<deliveries, audit, sent, claims>>
    BY <1>3 DEF Enqueue, ghosts
  <2>4. \A d \in deliveries : d.n # n
    BY <1>2, <1>3 DEF Enqueue
  <2> HIDE DEF row
  <2> QED BY <2>2, <2>3, <2>4, OneRowStep
<1>4. CASE BecomeDue(n)
  <2> DEFINE row == [rows[n] EXCEPT !.due = TRUE]
  <2>1. Charged(row, claims[n])
    BY <1>1 DEF Row, Charged
  <2>2. rows' = [rows EXCEPT ![n] = row] /\ UNCHANGED <<deliveries, audit, sent, claims>>
    BY <1>1, <1>4 DEF BecomeDue, ghosts
  <2>3. \A d \in deliveries : d.n # n
    BY <1>2, <1>4 DEF BecomeDue
  <2> HIDE DEF row
  <2> QED BY <2>1, <2>2, <2>3, OneRowStep
<1>5. CASE LeaseExpires(n)
  <2> DEFINE row == [rows[n] EXCEPT !.lease = "expired"]
  <2>1. Charged(row, claims[n])
    BY <1>1 DEF Row, Charged
  <2>2. rows' = [rows EXCEPT ![n] = row] /\ UNCHANGED <<deliveries, audit, sent, claims>>
    BY <1>1, <1>5 DEF LeaseExpires, ghosts
  <2>3. \A d \in deliveries : d.n # n
    BY <1>5 DEF LeaseExpires, DeliveriesOf
  <2> HIDE DEF row
  <2> QED BY <2>1, <2>2, <2>3, OneRowStep
<1>6. ASSUME NEW extra \in 1..MaxExtra, Requeue(n, extra)
      PROVE  LeaseInv'
  <2> DEFINE row == [rows[n] EXCEPT !.status = "pending", !.due = TRUE,
                                    !.max = rows[n].attempt + extra]
  <2>1. extra \in Nat /\ extra > 0
    BY BoundAssumption
  <2>2. Charged(row, claims[n])
    <3>1. /\ row.status = "pending" /\ row.attempt = rows[n].attempt
          /\ row.max = rows[n].attempt + extra
      BY <1>1 DEF Row
    <3>2. rows[n].status = "dead"
      BY <1>6 DEF Requeue
    <3> HIDE DEF row
    <3> QED BY <1>1, <2>1, <3>1, <3>2 DEF Charged
  <2>3. rows' = [rows EXCEPT ![n] = row] /\ UNCHANGED <<deliveries, audit, sent, claims>>
    BY <1>1, <1>6 DEF Requeue
  <2>4. \A d \in deliveries : d.n # n
    BY <1>2, <1>6 DEF Requeue
  <2> HIDE DEF row
  <2> QED BY <2>2, <2>3, <2>4, OneRowStep
<1>7. CASE Cancel(n)
  <2> DEFINE row == [rows[n] EXCEPT !.status = "canceled", !.owner = NoOwner,
                                    !.lease = "none"]
  <2>1. Charged(row, claims[n])
    BY <1>1, <1>7 DEF Cancel, Row, Charged
  <2>2. rows' = [rows EXCEPT ![n] = row] /\ UNCHANGED <<deliveries, audit, sent, claims>>
    BY <1>1, <1>7 DEF Cancel, ghosts
  <2>3. \A d \in deliveries : d.n # n
    BY <1>2, <1>7 DEF Cancel
  <2> HIDE DEF row
  <2> QED BY <2>1, <2>2, <2>3, OneRowStep
<1> QED BY <1>3, <1>4, <1>5, <1>6, <1>7

\* The reaper touches only expired leases, and every worker's lease is running.
LEMMA RecoveryStep ==
    ASSUME LeaseInv, TypeInv', RecoverExpiredLeases
    PROVE  LeaseInv'
<1>1. \A d \in deliveries : rows'[d.n] = rows[d.n]
  BY DEF LeaseInv, WorkerOK, RecoverExpiredLeases, Expired, TypeInv, TypeOK, Delivery
<1>2. ASSUME NEW n \in Notifications, Expired(n)
      PROVE  Charged(Recovered(rows[n]), claims[n])
  <2>1. /\ rows[n] \in Row /\ rows[n].attempt \in Nat /\ rows[n].max \in Nat
        /\ Charged(rows[n], claims[n])
    BY RowFacts DEF Row, RowOK
  <2>2. /\ Recovered(rows[n]).attempt = rows[n].attempt + 1
        /\ Recovered(rows[n]).max = rows[n].max
        /\ Recovered(rows[n]).status =
             IF rows[n].attempt + 1 >= rows[n].max THEN "dead" ELSE "pending"
    BY <2>1 DEF Recovered, Row
  <2> QED BY <1>2, <2>1, <2>2 DEF Charged, Expired
<1>3. ASSUME NEW n \in Notifications
      PROVE  RowOK(n)'
  BY <1>2, RowFacts DEF RowOK, RecoverExpiredLeases, ghosts
<1> QED BY <1>1, <1>3, RowStep DEF RecoverExpiredLeases, ghosts

-------------------------------------------------------------------------------
(* The claim, the crash and the workers. *)

\* A claim takes pending rows, so rows no worker is on, and numbers their deliveries
\* beyond every number handed out before.
LEMMA ClaimStep ==
    ASSUME LeaseInv, TypeInv', NEW i \in Instances, NEW batch \in SUBSET Notifications,
           Claim(i, batch)
    PROVE  LeaseInv'
<1>1. ASSUME NEW n \in batch
      PROVE  /\ rows[n].status = "pending" /\ \A d \in deliveries : d.n # n
             /\ rows'[n] = Claimed(rows[n], i) /\ claims'[n] = claims[n] + 1
             /\ claims[n] = rows[n].attempt /\ rows[n] \in Row
             /\ claims[n] \in Nat /\ sent[n] \in Nat
  BY RowFacts DEF Claim, Claimable, RowOK, Charged, Row
<1>2. ASSUME NEW n \in Notifications, n \notin batch
      PROVE  rows'[n] = rows[n] /\ claims'[n] = claims[n]
  BY <1>2 DEF Claim
<1>3. ASSUME NEW n \in batch
      PROVE  /\ rows'[n].status = "in_flight" /\ rows'[n].owner = i
             /\ rows'[n].lease = "running" /\ rows'[n].attempt = rows[n].attempt
             /\ rows'[n].max = rows[n].max
  <2>1. rows'[n] = Claimed(rows[n], i) /\ rows[n] \in Row
    BY <1>1
  <2> QED BY <2>1 DEF Claimed, Row
<1>4. ASSUME NEW d \in deliveries
      PROVE  d.n \in Notifications /\ d.n \notin batch
  BY <1>1 DEF LeaseInv, TypeInv, TypeOK, Delivery
<1>5. \A d \in deliveries' : WorkerOK(d)'
  <2>1. ASSUME NEW d \in deliveries
        PROVE  WorkerOK(d)'
    BY <1>2, <1>4 DEF LeaseInv, WorkerOK, Claim
  <2>2. ASSUME NEW n \in batch, NEW d, d = NewDelivery(n, i)
        PROVE  WorkerOK(d)'
    <3>1. /\ d.n = n /\ d.owner = i /\ d.claim = claims[n] + 1
          /\ d.no = rows[n].attempt + 1 /\ d.max = rows[n].max /\ d.phase = "claimed"
      BY <2>2 DEF NewDelivery
    <3>2. RowOK(n) /\ rows[n].attempt \in Nat
      BY RowFacts DEF Row
    <3>3. <<n, rows[n].attempt + 1>> \notin audit
      <4>1. claims[n] = rows[n].attempt
        BY <1>1
      <4>2. <<n, rows[n].attempt + 1>> \in audit => rows[n].attempt + 1 <= claims[n]
        BY <3>2 DEF RowOK
      <4> QED BY <4>1, <4>2, <3>2
    <3>4. UNCHANGED <<sent, audit>>
      BY DEF Claim
    <3>5. sent'[n] < claims'[n]
      BY <1>1, <3>2, <3>4 DEF RowOK
    <3> QED BY <1>1, <1>3, <3>1, <3>3, <3>4, <3>5 DEF WorkerOK
  <2> QED BY <2>1, <2>2 DEF Claim
<1>6. SingleDelivery'
  BY <1>4 DEF LeaseInv, SingleDelivery, Claim, NewDelivery
<1>7. ASSUME NEW n \in Notifications
      PROVE  RowOK(n)'
  <2>1. RowOK(n) /\ rows[n] \in Row /\ claims[n] \in Nat /\ sent[n] \in Nat
    BY RowFacts
  <2>2. CASE n \in batch
    BY <1>1, <1>3, <2>1, <2>2 DEF RowOK, Charged, Claim, Row
  <2>3. CASE n \notin batch
    BY <1>2, <2>1, <2>3 DEF RowOK, Claim
  <2> QED BY <2>2, <2>3
<1> QED BY <1>5, <1>6, <1>7 DEF LeaseInv

\* A crash takes workers away and leaves their rows to the reaper.
LEMMA CrashStep ==
    ASSUME LeaseInv, TypeInv', NEW i \in Instances, Crash(i)
    PROVE  LeaseInv'
<1>1. deliveries' \subseteq deliveries /\ UNCHANGED <<rows, audit, sent, claims>>
  BY DEF Crash
<1>2. \A n \in Notifications : RowOK(n)'
  BY <1>1 DEF LeaseInv, RowOK
<1>3. \A d \in deliveries' : WorkerOK(d)'
  BY <1>1 DEF LeaseInv, WorkerOK
<1> QED BY <1>1, <1>2, <1>3 DEF LeaseInv, SingleDelivery

\* A worker that goes on (from d to e) meets no other worker on its notification.
LEMMA AdvanceStep ==
    ASSUME LeaseInv, TypeInv', NEW d \in deliveries, NEW e, deliveries' = Advance(d, e),
           e.n = d.n, WorkerOK(e)', UNCHANGED <<rows, claims>>,
           \A n \in Notifications : RowOK(n)',
           \A n \in Notifications, k \in Nat :
              n # d.n => sent'[n] = sent[n] /\ (<<n, k>> \in audit' <=> <<n, k>> \in audit)
    PROVE  LeaseInv'
<1>1. \A f \in deliveries' : f = e \/ (f \in deliveries /\ f.n # d.n)
  BY DEF Advance, LeaseInv, SingleDelivery
<1>2. SingleDelivery'
  BY <1>1 DEF LeaseInv, SingleDelivery
<1>3. ASSUME NEW f \in deliveries, f.n # d.n
      PROVE  WorkerOK(f)'
  <2>1. f.n \in Notifications /\ f.no \in Nat
    BY DEF LeaseInv, TypeInv, TypeOK, Delivery
  <2> QED BY <1>3, <2>1 DEF LeaseInv, WorkerOK
<1> QED BY <1>1, <1>2, <1>3 DEF LeaseInv

\* A worker that ends either leaves its row in flight or releases it, charged with the
\* attempt it made.
LEMMA EndStep ==
    ASSUME LeaseInv, TypeInv', NEW d \in deliveries, deliveries' = deliveries \ {d},
           UNCHANGED <<audit, sent, claims>>,
           NEW row, rows' = [rows EXCEPT ![d.n] = row], Charged(row, claims[d.n])
    PROVE  LeaseInv'
<1>1. d.n \in Notifications
  BY DEF LeaseInv, TypeInv, TypeOK, Delivery
<1>2. rows'[d.n] = row /\ \A n \in Notifications : n # d.n => rows'[n] = rows[n]
  BY <1>1 DEF LeaseInv, TypeInv, TypeOK
<1>3. \A f \in deliveries' : f \in deliveries /\ f.n # d.n /\ f.n \in Notifications
  BY DEF LeaseInv, SingleDelivery, TypeInv, TypeOK, Delivery
<1>4. \A f \in deliveries' : WorkerOK(f)'
  BY <1>2, <1>3 DEF LeaseInv, WorkerOK
<1>5. ASSUME NEW n \in Notifications
      PROVE  RowOK(n)'
  BY <1>2, RowFacts DEF RowOK
<1> QED BY <1>3, <1>4, <1>5 DEF LeaseInv, SingleDelivery

\* The conclusions of a worker's step that leaves the row alone, e being the worker
\* after it: only the phase, the outcome, `sent` and `audit` can differ.
LEMMA GoOnStep ==
    ASSUME LeaseInv, TypeInv', NEW d \in deliveries, NEW e, deliveries' = Advance(d, e),
           e.n = d.n, e.owner = d.owner, e.claim = d.claim, e.no = d.no, e.max = d.max,
           e.phase # "claimed",
           UNCHANGED <<rows, claims>>,
           \/ sent' = sent
           \/ d.phase = "claimed" /\ sent' = [sent EXCEPT ![d.n] = @ + 1],
           \/ audit' = audit /\ d.phase # "recorded"
           \/ audit' = audit \cup {<<d.n, d.no>>} /\ e.phase = "recorded"
    PROVE  LeaseInv'
<1>1. /\ d.n \in Notifications /\ d.no \in Nat /\ WorkerOK(d) /\ RowOK(d.n)
      /\ claims[d.n] \in Nat /\ sent[d.n] \in Nat
      /\ sent \in [Notifications -> Nat]
  BY DEF LeaseInv, TypeInv, TypeOK, Delivery
<1>2. d.no = claims[d.n]
  BY <1>1 DEF WorkerOK, RowOK, Charged
<1>3. \A n \in Notifications, k \in Nat :
         n # d.n => sent'[n] = sent[n] /\ (<<n, k>> \in audit' <=> <<n, k>> \in audit)
  BY <1>1
<1>4. sent'[d.n] <= claims[d.n]
  BY <1>1 DEF WorkerOK, RowOK
<1>5. \A k \in Nat : <<d.n, k>> \in audit' => k <= claims[d.n]
  BY <1>1, <1>2 DEF RowOK
<1>6. ASSUME NEW n \in Notifications
      PROVE  RowOK(n)'
  <2>1. CASE n = d.n
    BY <1>1, <1>4, <1>5, <2>1 DEF RowOK
  <2>2. CASE n # d.n
    <3>1. RowOK(n)
      BY RowFacts
    <3> QED BY <1>3, <2>2, <3>1 DEF RowOK
  <2> QED BY <2>1, <2>2
<1>7. WorkerOK(e)'
  BY <1>1 DEF WorkerOK
<1> QED BY <1>3, <1>6, <1>7, AdvanceStep

\* A write-back finds the lease still held, and charges the attempt of the claim.
LEMMA WriteBackStep ==
    ASSUME LeaseInv, TypeInv', NEW d \in deliveries, NEW row, WriteBack(d, row),
           row.attempt = d.no, row.max = rows[d.n].max,
           row.status \in {"succeeded", "dead", "pending"},
           row.status = "pending" => d.no < d.max
    PROVE  LeaseInv'
<1>1. /\ d.n \in Notifications /\ WorkerOK(d) /\ RowOK(d.n)
      /\ rows[d.n].attempt \in Nat /\ rows[d.n].max \in Nat
  BY DEF LeaseInv, TypeInv, TypeOK, Delivery, Row
<1>2. Owned(d)
  BY <1>1 DEF WorkerOK, Owned
<1>3. Charged(row, claims[d.n])
  BY <1>1 DEF WorkerOK, RowOK, Charged
<1> QED BY <1>2, <1>3, EndStep DEF WriteBack

LEMMA WorkerKeepsLeases ==
    ASSUME LeaseInv, TypeInv', NEW d \in deliveries, DeliveryStep(d)
    PROVE  LeaseInv'
<1>1. d \in Delivery /\ d.n \in Notifications /\ d.no \in Nat /\ rows[d.n] \in Row
      /\ WorkerOK(d) /\ RowOK(d.n)
  BY DEF LeaseInv, TypeInv, TypeOK, Delivery
<1>2. CASE Send(d)
  <2> DEFINE e == [d EXCEPT !.phase = "sent"]
  <2>1. /\ e.n = d.n /\ e.owner = d.owner /\ e.claim = d.claim /\ e.no = d.no
        /\ e.max = d.max /\ e.phase = "sent"
    BY <1>1 DEF Delivery
  <2>2. deliveries' = Advance(d, e)
    BY <1>2 DEF Send
  <2> HIDE DEF e
  <2> QED BY <1>2, <2>1, <2>2, GoOnStep DEF Send
<1>3. ASSUME NEW o \in Outcome \ {"none"}, RefuseUnsent(d, o) \/ Answer(d, o)
      PROVE  LeaseInv'
  <2> DEFINE e == [d EXCEPT !.phase = "answered", !.outcome = o]
  <2>1. /\ e.n = d.n /\ e.owner = d.owner /\ e.claim = d.claim /\ e.no = d.no
        /\ e.max = d.max /\ e.phase = "answered"
    BY <1>1 DEF Delivery
  <2>2. deliveries' = Advance(d, e) /\ d.phase # "recorded" /\ sent' = sent
        /\ audit' = audit /\ UNCHANGED <<rows, claims>>
    BY <1>3 DEF RefuseUnsent, Answer, ghosts
  <2> HIDE DEF e
  <2> QED BY <2>1, <2>2, GoOnStep
<1>4. ASSUME NEW ok \in BOOLEAN, RecordAttempt(d, ok)
      PROVE  LeaseInv'
  <2> DEFINE e == [d EXCEPT !.phase = "recorded"]
  <2>1. /\ e.n = d.n /\ e.owner = d.owner /\ e.claim = d.claim /\ e.no = d.no
        /\ e.max = d.max /\ e.phase = "recorded"
    BY <1>1 DEF Delivery
  <2>2. deliveries' = Advance(d, e) /\ d.phase # "recorded" /\ sent' = sent
        /\ UNCHANGED <<rows, claims>>
        /\ audit' \in {audit, audit \cup {<<d.n, d.no>>}}
    BY <1>4 DEF RecordAttempt, ghosts
  <2> HIDE DEF e
  <2> QED BY <2>1, <2>2, GoOnStep
<1>5. ASSUME NEW s \in {"succeeded", "dead", "pending"}
      PROVE  /\ Released(d, s).status = s /\ Released(d, s).attempt = d.no
             /\ Released(d, s).max = rows[d.n].max
  BY <1>1 DEF Released, Row
<1>6. CASE FinishSuccess(d)
  BY <1>5, <1>6, WriteBackStep DEF FinishSuccess
<1>7. CASE FinishDead(d)
  BY <1>5, <1>7, WriteBackStep DEF FinishDead
<1>8. CASE ScheduleRetry(d)
  <2> DEFINE row == [Released(d, "pending") EXCEPT !.due = FALSE]
  <2>1. row.status = "pending" /\ row.attempt = d.no /\ row.max = rows[d.n].max
    BY <1>1 DEF Released, Row
  <2>2. WriteBack(d, row) /\ d.no < d.max
    BY <1>8 DEF ScheduleRetry
  <2> HIDE DEF row
  <2> QED BY <2>1, <2>2, WriteBackStep
<1>9. CASE WriteBackFails(d)
  <2>1. rows' = [rows EXCEPT ![d.n] = rows[d.n]]
    BY <1>9 DEF WriteBackFails, LeaseInv, TypeInv, TypeOK
  <2>2. Charged(rows[d.n], claims[d.n])
    BY <1>1 DEF RowOK
  <2> QED BY <1>9, <2>1, <2>2, EndStep DEF WriteBackFails
<1> QED BY <1>2, <1>3, <1>4, <1>6, <1>7, <1>8, <1>9 DEF DeliveryStep

-------------------------------------------------------------------------------

LEMMA LeaseInvStep == ~MayOverrun /\ LeaseInv /\ [Next]_vars => LeaseInv'
<1> SUFFICES ASSUME ~MayOverrun, LeaseInv, [Next]_vars
             PROVE  LeaseInv'
  OBVIOUS
<1>1. TypeInv'
  BY TypeStep DEF LeaseInv
<1>2. CASE UNCHANGED vars
  BY <1>1, <1>2 DEF vars, LeaseInv, SingleDelivery, WorkerOK, RowOK
<1> QED
  BY <1>1, <1>2, QuietSteps, RecoveryStep, ClaimStep, CrashStep, WorkerKeepsLeases DEF Next

\* Without overruns no notification is delivered by two workers at the same time: the
\* claim's transaction and the lease exclude it for any number of instances.
THEOREM ExclusiveDelivery ==
    ASSUME ~MayOverrun
    PROVE  Spec => []SingleDelivery
<1>1. LeaseInv => SingleDelivery
  BY DEF LeaseInv
<1> QED BY <1>1, LeaseInvInit, LeaseInvStep, PTL DEF Spec

\* Without overruns a live worker holds the lease it claimed, on the attempt it claimed,
\* so that its write-back matches: no reaper or operator gets under it.
THEOREM LeaseIsHeld ==
    ASSUME ~MayOverrun
    PROVE  Spec => []WorkerHoldsLease
<1>1. LeaseInv => WorkerHoldsLease
  BY DEF LeaseInv, WorkerHoldsLease, WorkerOK, Owned
<1> QED BY <1>1, LeaseInvInit, LeaseInvStep, PTL DEF Spec

\* Without overruns a result is written by the holder of the newest claim only: what the
\* README says of late results holds as far as leases outlive their workers.
THEOREM StaleResultsAreDiscarded ==
    ASSUME ~MayOverrun
    PROVE  Spec => StaleResultDiscarded
<1>1. LeaseInv => \A d \in deliveries : d.claim = claims[d.n]
  BY DEF LeaseInv, WorkerOK
<1>2. (\A d \in deliveries : d.claim = claims[d.n]) =>
         [\A d \in deliveries :
             d \notin deliveries' /\ rows'[d.n] # rows[d.n] => d.claim = claims[d.n]]_vars
  OBVIOUS
<1> QED BY <1>1, <1>2, LeaseInvInit, LeaseInvStep, PTL DEF Spec, StaleResultDiscarded

\* Without overruns the requests a vendor receives never exceed the retry budget,
\* whatever crashes, failed write-backs and requeues there are.
THEOREM BudgetBoundsRequests ==
    ASSUME ~MayOverrun
    PROVE  Spec => []WithinBudget
<1>1. LeaseInv => WithinBudget
  <2> SUFFICES ASSUME LeaseInv, NEW n \in Notifications
               PROVE  sent[n] <= rows[n].max
    BY DEF WithinBudget
  <2>1. RowOK(n) /\ rows[n].attempt \in Nat /\ rows[n].max \in Nat /\ sent[n] \in Nat
    BY RowFacts DEF Row
  <2> QED BY <2>1 DEF RowOK, Charged
<1> QED BY <1>1, LeaseInvInit, LeaseInvStep, PTL DEF Spec

\* Without overruns every claim costs exactly one attempt, also the claims whose worker
\* died or failed to write.
THEOREM ClaimsAreCharged ==
    ASSUME ~MayOverrun
    PROVE  Spec => []EveryClaimCharged
<1>1. LeaseInv => EveryClaimCharged
  <2> SUFFICES ASSUME LeaseInv, NEW n \in Notifications
               PROVE  claims[n] = rows[n].attempt
                                  + (IF rows[n].status = "in_flight" THEN 1 ELSE 0)
    BY DEF EveryClaimCharged
  <2> QED BY RowFacts DEF RowOK, Charged
<1> QED BY <1>1, LeaseInvInit, LeaseInvStep, PTL DEF Spec

\* Without overruns a delivery's audit number is its own.
THEOREM AuditNumbersAreFresh ==
    ASSUME ~MayOverrun
    PROVE  Spec => []FreshAttemptNo
<1>1. LeaseInv => FreshAttemptNo
  BY DEF LeaseInv, FreshAttemptNo, WorkerOK
<1> QED BY <1>1, LeaseInvInit, LeaseInvStep, PTL DEF Spec

================================================================================
