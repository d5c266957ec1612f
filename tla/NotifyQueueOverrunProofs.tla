------------------------ MODULE NotifyQueueOverrunProofs ------------------------
(***************************************************************************)
(* What holds of NotifyQueue although leases expire under live workers,    *)
(* for every number of notifications and processes: no success is          *)
(* acknowledged twice without a lost result in between, and no             *)
(* notification is sent for ever.                                          *)
(*                                                                         *)
(* The arguments: an acknowledgement is carried by the worker that got it  *)
(* until that worker writes it back, writes into the void or dies; and     *)
(* each claim spends one of the requests that are left, shares the rest    *)
(* between the row and its worker, and leaves both less. Claims have       *)
(* numbers, so no two workers are ever taken for one.                      *)
(***************************************************************************)
EXTENDS NotifyQueueProofs, Functions, NaturalsInduction

-------------------------------------------------------------------------------
(* Acknowledgements. *)

\* The workers that carry a success they have not written back.
Carriers(n) == {d \in DeliveriesOf(n) : d.outcome = "success"}

\* A claim of a notification belongs to one worker.
OwnClaim ==
    \A d \in deliveries :
        /\ d.claim <= claims[d.n]
        /\ \A e \in deliveries : e.n = d.n /\ e.claim = d.claim => e = d

NoneYet == \A d \in deliveries : d.phase \in {"claimed", "sent"} => d.outcome = "none"

ResultInv == TypeInv /\ OwnClaim /\ NoneYet /\ DuplicatesExplained

LEMMA ResultInit == Init => ResultInv
<1> SUFFICES ASSUME Init PROVE ResultInv
  OBVIOUS
<1>1. \A n \in Notifications : Cardinality(Carriers(n)) = 0
  <2>1. \A n \in Notifications : Carriers(n) = {}
    BY DEF Init, Carriers, DeliveriesOf
  <2> QED BY <2>1, FS_EmptySet
<1>2. DuplicatesExplained
  BY <1>1 DEF Init, AbsentRow, DuplicatesExplained, Carriers
<1> QED BY <1>2, TypeInit DEF Init, ResultInv, OwnClaim, NoneYet

LEMMA CarrierFacts ==
    ASSUME TypeInv, NEW n \in Notifications
    PROVE  /\ IsFiniteSet(Carriers(n)) /\ Cardinality(Carriers(n)) \in Nat
           /\ acks[n] \in Nat /\ lost[n] \in Nat /\ rows[n] \in Row
<1>1. Carriers(n) \in SUBSET deliveries
  BY DEF Carriers, DeliveriesOf
<1>2. IsFiniteSet(Carriers(n))
  BY <1>1, FS_Subset DEF TypeInv
<1> QED BY <1>2, FS_CardinalityType DEF TypeInv, TypeOK

-------------------------------------------------------------------------------
(* Claims keep their numbers apart. *)

\* A worker's step ends it or leaves it on its notification and claim.
LEMMA WorkerGoesOn ==
    ASSUME TypeInv, NoneYet, NEW d \in deliveries, DeliveryStep(d)
    PROVE  /\ claims' = claims
           /\ \/ deliveries' = deliveries \ {d}
              \/ \E e \in Delivery : /\ e.n = d.n /\ e.claim = d.claim
                                     /\ e.phase \in {"claimed", "sent"} => e.outcome = "none"
                                     /\ deliveries' = Advance(d, e)
<1>1. d \in Delivery
  BY DEF TypeInv, TypeOK
<1>2. CASE Send(d)
  <2> DEFINE e == [d EXCEPT !.phase = "sent"]
  <2>1. /\ e \in Delivery /\ e.n = d.n /\ e.claim = d.claim /\ e.outcome = d.outcome
        /\ e.phase = "sent"
    BY <1>1 DEF Delivery, Phase
  <2>2. deliveries' = Advance(d, e) /\ d.phase = "claimed" /\ claims' = claims
    BY <1>2 DEF Send
  <2> HIDE DEF e
  <2> QED BY <2>1, <2>2 DEF NoneYet
<1>3. ASSUME NEW o \in Outcome \ {"none"}, RefuseUnsent(d, o) \/ Answer(d, o)
      PROVE  /\ claims' = claims
             /\ \E e \in Delivery : /\ e.n = d.n /\ e.claim = d.claim
                                    /\ e.phase \in {"claimed", "sent"} => e.outcome = "none"
                                    /\ deliveries' = Advance(d, e)
  <2> DEFINE e == [d EXCEPT !.phase = "answered", !.outcome = o]
  <2>1. e \in Delivery /\ e.n = d.n /\ e.claim = d.claim /\ e.phase = "answered"
    BY <1>1, <1>3 DEF Delivery, Phase
  <2>2. deliveries' = Advance(d, e) /\ claims' = claims
    BY <1>3 DEF RefuseUnsent, Answer, ghosts
  <2> HIDE DEF e
  <2> QED BY <2>1, <2>2
<1>4. ASSUME NEW ok \in BOOLEAN, RecordAttempt(d, ok)
      PROVE  /\ claims' = claims
             /\ \E e \in Delivery : /\ e.n = d.n /\ e.claim = d.claim
                                    /\ e.phase \in {"claimed", "sent"} => e.outcome = "none"
                                    /\ deliveries' = Advance(d, e)
  <2> DEFINE e == [d EXCEPT !.phase = "recorded"]
  <2>1. e \in Delivery /\ e.n = d.n /\ e.claim = d.claim /\ e.phase = "recorded"
    BY <1>1 DEF Delivery, Phase
  <2>2. deliveries' = Advance(d, e) /\ claims' = claims
    BY <1>4 DEF RecordAttempt, ghosts
  <2> HIDE DEF e
  <2> QED BY <2>1, <2>2
<1>5. CASE FinishSuccess(d) \/ FinishDead(d) \/ ScheduleRetry(d) \/ WriteBackFails(d)
  BY <1>5 DEF FinishSuccess, FinishDead, ScheduleRetry, WriteBackFails, WriteBack
<1> QED BY <1>2, <1>3, <1>4, <1>5 DEF DeliveryStep

LEMMA ClaimsStayApart ==
    TypeInv /\ OwnClaim /\ NoneYet /\ [Next]_vars => OwnClaim' /\ NoneYet'
<1> SUFFICES ASSUME TypeInv, OwnClaim, NoneYet, [Next]_vars
             PROVE  OwnClaim' /\ NoneYet'
  OBVIOUS
<1>1. ASSUME NEW d \in deliveries, DeliveryStep(d)
      PROVE  OwnClaim' /\ NoneYet'
  BY <1>1, WorkerGoesOn DEF OwnClaim, NoneYet, Advance
<1>2. ASSUME NEW i \in Instances, NEW batch \in SUBSET Notifications, Claim(i, batch)
      PROVE  OwnClaim' /\ NoneYet'
  <2>1. ASSUME NEW n \in batch
        PROVE  /\ NewDelivery(n, i).n = n /\ NewDelivery(n, i).claim = claims[n] + 1
               /\ NewDelivery(n, i).outcome = "none" /\ claims'[n] = claims[n] + 1
               /\ claims[n] \in Nat
    BY <1>2 DEF NewDelivery, Claim, TypeInv, TypeOK
  <2>2. ASSUME NEW d \in deliveries
        PROVE  /\ d.n \in Notifications /\ d.claim \in Nat /\ claims[d.n] \in Nat
               /\ d.claim <= claims[d.n] /\ claims[d.n] <= claims'[d.n]
    BY <1>2 DEF Claim, OwnClaim, TypeInv, TypeOK, Delivery
  <2>3. ASSUME NEW d \in deliveries, NEW n \in batch, d.n = n
        PROVE  d.claim # NewDelivery(n, i).claim
    BY <2>1, <2>2, <2>3
  <2>4. deliveries' = deliveries \cup {NewDelivery(n, i) : n \in batch}
    BY <1>2 DEF Claim
  <2>5. NoneYet'
    BY <2>1, <2>4 DEF NoneYet
  <2>6. ASSUME NEW d \in deliveries'
        PROVE  d.claim <= claims'[d.n]
    <3>1. CASE d \in deliveries
      <4>1. /\ d.claim \in Nat /\ claims[d.n] \in Nat
            /\ d.claim <= claims[d.n] /\ claims[d.n] <= claims'[d.n]
        BY <2>2, <3>1
      <4>2. claims'[d.n] \in Nat
        BY <2>2, <3>1, TypeStep DEF TypeInv, TypeOK
      <4> QED BY <4>1, <4>2
    <3>2. CASE d \notin deliveries
      <4>1. PICK n \in batch : d = NewDelivery(n, i)
        BY <2>4, <3>2
      <4>2. d.claim = claims'[d.n] /\ d.claim \in Nat
        BY <2>1, <4>1
      <4> QED BY <4>2
    <3> QED BY <3>1, <3>2
  <2>7. ASSUME NEW d \in deliveries', NEW e \in deliveries', e.n = d.n, e.claim = d.claim
        PROVE  e = d
    <3>1. CASE d \in deliveries /\ e \in deliveries
      BY <2>7, <3>1 DEF OwnClaim
    <3>2. CASE d \in deliveries /\ e \notin deliveries
      <4>1. PICK n \in batch : e = NewDelivery(n, i)
        BY <2>4, <3>2
      <4> QED BY <2>1, <2>3, <2>7, <3>2, <4>1
    <3>3. CASE d \notin deliveries /\ e \in deliveries
      <4>1. PICK n \in batch : d = NewDelivery(n, i)
        BY <2>4, <3>3
      <4> QED BY <2>1, <2>3, <2>7, <3>3, <4>1
    <3>4. CASE d \notin deliveries /\ e \notin deliveries
      BY <2>1, <2>4, <2>7, <3>4
    <3> QED BY <3>1, <3>2, <3>3, <3>4
  <2> QED BY <2>5, <2>6, <2>7 DEF OwnClaim
<1>3. ASSUME deliveries' \subseteq deliveries, claims' = claims
      PROVE  OwnClaim' /\ NoneYet'
  BY <1>3 DEF OwnClaim, NoneYet
<1> QED
  BY <1>1, <1>2, <1>3 DEF Next, Enqueue, BecomeDue, LeaseExpires, Requeue, Cancel, Crash,
     RecoverExpiredLeases, ghosts, vars

-------------------------------------------------------------------------------
(* The count of carriers. *)

Bit(b) == IF b THEN 1 ELSE 0

\* A worker that goes on as e carries what e carries instead of what it carried.
LEMMA AdvanceCount ==
    ASSUME TypeInv, OwnClaim, NEW d \in deliveries, NEW e, e.n = d.n, e.claim = d.claim,
           deliveries' = Advance(d, e), NEW n \in Notifications
    PROVE  IF n = d.n
           THEN Cardinality(Carriers(n)') = Cardinality(Carriers(n))
                   - Bit(d.outcome = "success") + Bit(e.outcome = "success")
           ELSE Carriers(n)' = Carriers(n)
<1>1. CASE n # d.n
  BY <1>1 DEF Carriers, DeliveriesOf, Advance
<1>2. CASE n = d.n
  <2> DEFINE rest == Carriers(n) \ {d}
  <2>1. IsFiniteSet(Carriers(n)) /\ Cardinality(Carriers(n)) \in Nat
    BY CarrierFacts
  <2>2. d \in Carriers(n) <=> d.outcome = "success"
    BY <1>2 DEF Carriers, DeliveriesOf
  <2>3. IsFiniteSet(rest) /\ Cardinality(rest) = Cardinality(Carriers(n))
                                                   - Bit(d.outcome = "success")
    BY <2>1, <2>2, FS_RemoveElement DEF Bit
  <2>4. e \notin rest
    BY <1>2 DEF Carriers, DeliveriesOf, OwnClaim
  <2>5. Carriers(n)' = IF e.outcome = "success" THEN rest \cup {e} ELSE rest
    BY <1>2 DEF Carriers, DeliveriesOf, Advance
  <2> HIDE DEF rest
  <2>6. Cardinality(rest \cup {e}) = Cardinality(rest) + 1
    BY <2>3, <2>4, FS_AddElement
  <2>7. Cardinality(Carriers(n)') = Cardinality(rest) + Bit(e.outcome = "success")
    <3>1. Cardinality(rest) \in Nat
      BY <2>3, FS_CardinalityType
    <3> QED BY <2>5, <2>6, <3>1 DEF Bit
  <2> QED BY <1>2, <2>3, <2>7
<1> QED BY <1>1, <1>2

\* A worker that ends carries nothing any more.
LEMMA EndCount ==
    ASSUME TypeInv, NEW d \in deliveries, deliveries' = deliveries \ {d},
           NEW n \in Notifications
    PROVE  IF n = d.n
           THEN Cardinality(Carriers(n)') = Cardinality(Carriers(n))
                   - Bit(d.outcome = "success")
           ELSE Carriers(n)' = Carriers(n)
<1>1. CASE n # d.n
  BY <1>1 DEF Carriers, DeliveriesOf
<1>2. CASE n = d.n
  <2>1. Carriers(n)' = Carriers(n) \ {d}
    BY DEF Carriers, DeliveriesOf
  <2>2. d \in Carriers(n) <=> d.outcome = "success"
    BY <1>2 DEF Carriers, DeliveriesOf
  <2>3. IsFiniteSet(Carriers(n)) /\ Cardinality(Carriers(n)) \in Nat
    BY CarrierFacts
  <2>4. Cardinality(Carriers(n) \ {d}) = Cardinality(Carriers(n))
                                            - Bit(d.outcome = "success")
    <3>1. Cardinality(Carriers(n) \ {d}) = IF d \in Carriers(n)
                                            THEN Cardinality(Carriers(n)) - 1
                                            ELSE Cardinality(Carriers(n))
      BY <2>3, FS_RemoveElement
    <3>2. CASE d.outcome = "success"
      BY <2>2, <2>3, <3>1, <3>2 DEF Bit
    <3>3. CASE d.outcome # "success"
      BY <2>2, <2>3, <3>1, <3>3 DEF Bit
    <3> QED BY <3>2, <3>3
  <2> QED BY <1>2, <2>1, <2>4
<1> QED BY <1>1, <1>2

-------------------------------------------------------------------------------
(* Every acknowledgement keeps its explanation. *)

\* The explanation of one notification's acknowledgements.
Explained(n) ==
    acks[n] <= lost[n] + Bit(rows[n].status = "succeeded") + Cardinality(Carriers(n))

LEMMA ExplainedIsTheProperty ==
    DuplicatesExplained <=> \A n \in Notifications : Explained(n)
BY DEF DuplicatesExplained, Explained, Bit, Carriers

\* Steps without a worker: succeeded rows stay, and the carriers do.
LEMMA QuietExplained ==
    ASSUME TypeInv, NEW n \in Notifications, Explained(n),
           rows[n].status = "succeeded" => rows'[n].status = "succeeded",
           Carriers(n)' = Carriers(n), acks' = acks, lost' = lost
    PROVE  Explained(n)'
<1>1. /\ acks[n] \in Nat /\ lost[n] \in Nat /\ Cardinality(Carriers(n)) \in Nat
      /\ Cardinality(Carriers(n)') = Cardinality(Carriers(n))
  BY CarrierFacts
<1> QED BY <1>1 DEF Explained, Bit

\* A crash turns what its workers carried into lost results.
LEMMA CrashExplained ==
    ASSUME TypeInv, NEW i \in Instances, Crash(i), NEW n \in Notifications, Explained(n)
    PROVE  Explained(n)'
<1> DEFINE gone == {d \in deliveries : d.n = n /\ d.owner = i}
<1>1. gone \in SUBSET deliveries /\ Carriers(n)' \in SUBSET deliveries
  BY DEF Carriers, DeliveriesOf, Crash
<1>2. /\ IsFiniteSet(gone) /\ Cardinality(gone) \in Nat
      /\ IsFiniteSet(Carriers(n)') /\ Cardinality(Carriers(n)') \in Nat
  BY <1>1, FS_Subset, FS_CardinalityType DEF TypeInv
<1>3. Carriers(n) \in SUBSET (Carriers(n)' \cup gone)
  BY DEF Carriers, DeliveriesOf, Crash
<1>4. lost'[n] = lost[n] + Cardinality(gone) /\ acks' = acks /\ rows' = rows
  BY DEF Crash
<1> HIDE DEF gone
<1>5. /\ IsFiniteSet(Carriers(n)' \cup gone)
      /\ Cardinality(Carriers(n)' \cup gone)
            = Cardinality(Carriers(n)') + Cardinality(gone) - Cardinality(Carriers(n)' \cap gone)
  BY <1>2, FS_Union
<1>6. Cardinality(Carriers(n)' \cap gone) \in Nat
  <2>1. Carriers(n)' \cap gone \in SUBSET gone
    OBVIOUS
  <2>2. IsFiniteSet(Carriers(n)' \cap gone)
    BY <1>2, <2>1, FS_Subset
  <2> QED BY <2>2, FS_CardinalityType
<1>7. Cardinality(Carriers(n)) <= Cardinality(Carriers(n)' \cup gone)
  BY <1>3, <1>5, FS_Subset
<1>8. /\ acks[n] \in Nat /\ lost[n] \in Nat /\ Cardinality(Carriers(n)) \in Nat
  BY CarrierFacts
<1> QED BY <1>2, <1>4, <1>5, <1>6, <1>7, <1>8 DEF Explained, Bit

\* A worker that goes on carries a success more only by hearing one.
LEMMA GoOnExplained ==
    ASSUME TypeInv, OwnClaim, NEW d \in deliveries, NEW e, e.n = d.n, e.claim = d.claim,
           deliveries' = Advance(d, e), rows' = rows, lost' = lost,
           NEW n \in Notifications, Explained(n),
           n # d.n => acks'[n] = acks[n],
           n = d.n => acks'[n] = acks[n] - Bit(d.outcome = "success")
                                         + Bit(e.outcome = "success")
    PROVE  Explained(n)'
<1>1. /\ acks[n] \in Nat /\ lost[n] \in Nat /\ Cardinality(Carriers(n)) \in Nat
  BY CarrierFacts
<1>2. CASE n # d.n
  <2>1. Cardinality(Carriers(n)') = Cardinality(Carriers(n))
    BY <1>2, AdvanceCount
  <2> QED BY <1>1, <1>2, <2>1 DEF Explained
<1>3. CASE n = d.n
  <2>1. Cardinality(Carriers(n)') = Cardinality(Carriers(n))
           - Bit(d.outcome = "success") + Bit(e.outcome = "success")
    BY <1>3, AdvanceCount
  <2> QED BY <1>1, <1>3, <2>1 DEF Explained, Bit
<1> QED BY <1>2, <1>3

\* A write-back makes a carried success the row's, or a lost result of it.
LEMMA WriteBackExplained ==
    ASSUME TypeInv, NEW d \in deliveries, NEW row, WriteBack(d, row),
           d.outcome = "success" => row.status = "succeeded",
           NEW n \in Notifications, Explained(n)
    PROVE  Explained(n)'
<1>1. /\ acks[n] \in Nat /\ lost[n] \in Nat /\ Cardinality(Carriers(n)) \in Nat
  BY CarrierFacts
<1>2. deliveries' = deliveries \ {d} /\ acks' = acks
  BY DEF WriteBack
<1>3. CASE n # d.n
  <2>1. Cardinality(Carriers(n)') = Cardinality(Carriers(n))
    BY <1>2, <1>3, EndCount
  <2>2. rows'[n] = rows[n] /\ lost'[n] = lost[n]
    BY <1>3 DEF WriteBack, TypeInv, TypeOK
  <2> QED BY <1>1, <1>2, <2>1, <2>2 DEF Explained
<1>4. CASE n = d.n
  <2>1. Cardinality(Carriers(n)') = Cardinality(Carriers(n)) - Bit(d.outcome = "success")
    BY <1>2, <1>4, EndCount
  <2>2. CASE Owned(d)
    <3>1. rows'[n] = row /\ rows[n].status = "in_flight" /\ lost' = lost
      BY <1>4, <2>2 DEF WriteBack, Owned, TypeInv, TypeOK
    <3> QED BY <1>1, <1>2, <2>1, <3>1 DEF Explained, Bit
  <2>3. CASE ~Owned(d)
    <3>1. rows' = rows /\ lost'[n] = lost[n] + 1
      BY <1>4, <2>3 DEF WriteBack, TypeInv, TypeOK
    <3> QED BY <1>1, <1>2, <2>1, <3>1 DEF Explained, Bit
  <2> QED BY <2>2, <2>3
<1> QED BY <1>3, <1>4

LEMMA WorkerExplained ==
    ASSUME TypeInv, OwnClaim, NoneYet, NEW d \in deliveries, DeliveryStep(d),
           NEW n \in Notifications, Explained(n)
    PROVE  Explained(n)'
<1>1. d \in Delivery /\ d.n \in Notifications /\ rows[d.n] \in Row
      /\ acks \in [Notifications -> Nat]
  BY DEF TypeInv, TypeOK, Delivery
<1>2. CASE Send(d)
  <2> DEFINE e == [d EXCEPT !.phase = "sent"]
  <2>1. e.n = d.n /\ e.claim = d.claim /\ e.outcome = d.outcome
    BY <1>1 DEF Delivery
  <2>2. deliveries' = Advance(d, e) /\ UNCHANGED <<rows, lost, acks>>
    BY <1>2 DEF Send
  <2> HIDE DEF e
  <2> QED BY <1>1, <2>1, <2>2, GoOnExplained DEF Bit
<1>3. ASSUME NEW o \in Outcome \ {"none"}, RefuseUnsent(d, o) \/ Answer(d, o)
      PROVE  Explained(n)'
  <2> DEFINE e == [d EXCEPT !.phase = "answered", !.outcome = o]
  <2>1. e.n = d.n /\ e.claim = d.claim /\ e.outcome = o
    BY <1>1 DEF Delivery
  <2>2. d.outcome # "success"
    BY <1>3 DEF RefuseUnsent, Answer, NoneYet
  <2>3. deliveries' = Advance(d, e) /\ UNCHANGED <<rows, lost>>
    BY <1>3 DEF RefuseUnsent, Answer, ghosts
  <2>4. /\ n # d.n => acks'[n] = acks[n]
        /\ n = d.n => acks'[n] = acks[n] + Bit(o = "success")
    BY <1>1, <1>3 DEF RefuseUnsent, Answer, ghosts, Bit
  <2> HIDE DEF e
  <2>5. n = d.n => acks'[n] = acks[n] - Bit(d.outcome = "success")
                                      + Bit(e.outcome = "success")
    BY <1>1, <2>1, <2>2, <2>4 DEF Bit
  <2> QED BY <2>1, <2>3, <2>4, <2>5, GoOnExplained
<1>4. ASSUME NEW ok \in BOOLEAN, RecordAttempt(d, ok)
      PROVE  Explained(n)'
  <2> DEFINE e == [d EXCEPT !.phase = "recorded"]
  <2>1. e.n = d.n /\ e.claim = d.claim /\ e.outcome = d.outcome
    BY <1>1 DEF Delivery
  <2>2. deliveries' = Advance(d, e) /\ UNCHANGED <<rows, lost, acks>>
    BY <1>4 DEF RecordAttempt, ghosts
  <2> HIDE DEF e
  <2> QED BY <1>1, <2>1, <2>2, GoOnExplained DEF Bit
<1>5. CASE FinishSuccess(d)
  <2>1. Released(d, "succeeded").status = "succeeded"
    BY <1>1 DEF Released, Row
  <2> QED BY <1>5, <2>1, WriteBackExplained DEF FinishSuccess
<1>6. CASE FinishDead(d)
  BY <1>6, WriteBackExplained DEF FinishDead
<1>7. CASE ScheduleRetry(d)
  BY <1>7, WriteBackExplained DEF ScheduleRetry
<1>8. CASE WriteBackFails(d)
  <2>1. /\ acks[n] \in Nat /\ lost[n] \in Nat /\ Cardinality(Carriers(n)) \in Nat
    BY CarrierFacts
  <2>2. /\ deliveries' = deliveries \ {d} /\ acks' = acks /\ rows' = rows
        /\ lost'[n] = lost[n] + Bit(n = d.n)
    BY <1>1, <1>8 DEF WriteBackFails, TypeInv, TypeOK, Bit
  <2>3. CASE n = d.n
    <3>1. Cardinality(Carriers(n)') = Cardinality(Carriers(n)) - Bit(d.outcome = "success")
      BY <2>2, <2>3, EndCount
    <3> QED BY <2>1, <2>2, <2>3, <3>1 DEF Explained, Bit
  <2>4. CASE n # d.n
    <3>1. Cardinality(Carriers(n)') = Cardinality(Carriers(n))
      BY <2>2, <2>4, EndCount
    <3> QED BY <2>1, <2>2, <2>4, <3>1 DEF Explained, Bit
  <2> QED BY <2>3, <2>4
<1> QED BY <1>2, <1>3, <1>4, <1>5, <1>6, <1>7, <1>8 DEF DeliveryStep

LEMMA ExplainedStep ==
    ASSUME TypeInv, OwnClaim, NoneYet, [Next]_vars, NEW n \in Notifications, Explained(n)
    PROVE  Explained(n)'
<1>1. \A d \in deliveries : DeliveryStep(d) => Explained(n)'
  BY WorkerExplained
<1>2. \A i \in Instances : Crash(i) => Explained(n)'
  BY CrashExplained
<1>3. ASSUME NEW i \in Instances, NEW batch \in SUBSET Notifications, Claim(i, batch)
      PROVE  Explained(n)'
  <2>1. Carriers(n)' = Carriers(n)
    BY <1>3 DEF Claim, NewDelivery, Carriers, DeliveriesOf
  <2>2. rows[n].status = "succeeded" => rows'[n].status = "succeeded"
    BY <1>3 DEF Claim, Claimable
  <2>3. acks' = acks /\ lost' = lost
    BY <1>3 DEF Claim
  <2> QED BY <2>1, <2>2, <2>3, QuietExplained
<1>4. ASSUME deliveries' = deliveries, acks' = acks, lost' = lost,
             rows[n].status = "succeeded" => rows'[n].status = "succeeded"
      PROVE  Explained(n)'
  <2>1. Carriers(n)' = Carriers(n)
    BY <1>4 DEF Carriers, DeliveriesOf
  <2> QED BY <1>4, <2>1, QuietExplained
<1>5. ASSUME NEW m \in Notifications,
             \/ \E budget \in 1..MaxBudget : Enqueue(m, budget)
             \/ BecomeDue(m)
             \/ LeaseExpires(m)
             \/ \E extra \in 1..MaxExtra : Requeue(m, extra)
             \/ Cancel(m)
      PROVE  Explained(n)'
  <2>1. deliveries' = deliveries /\ acks' = acks /\ lost' = lost
    BY <1>5 DEF Enqueue, BecomeDue, LeaseExpires, Requeue, Cancel, ghosts
  <2>2. rows[n].status = "succeeded" => rows'[n].status = "succeeded"
    <3>1. rows \in [Notifications -> Row]
      BY DEF TypeInv, TypeOK
    <3>2. CASE n # m
      BY <1>5, <3>1, <3>2 DEF Enqueue, BecomeDue, LeaseExpires, Requeue, Cancel
    <3>3. CASE n = m
      BY <1>5, <3>1, <3>3 DEF Enqueue, BecomeDue, LeaseExpires, Requeue, Cancel, Row
    <3> QED BY <3>2, <3>3
  <2> QED BY <1>4, <2>1, <2>2
<1>6. CASE RecoverExpiredLeases
  <2>1. deliveries' = deliveries /\ acks' = acks /\ lost' = lost
    BY <1>6 DEF RecoverExpiredLeases, ghosts
  <2>2. rows[n].status = "succeeded" => rows'[n].status = "succeeded"
    BY <1>6 DEF RecoverExpiredLeases, Expired
  <2> QED BY <1>4, <2>1, <2>2
<1>7. CASE UNCHANGED vars
  BY <1>4, <1>7 DEF vars
<1> QED BY <1>1, <1>2, <1>3, <1>5, <1>6, <1>7 DEF Next

LEMMA ResultStep == ResultInv /\ [Next]_vars => ResultInv'
<1> SUFFICES ASSUME ResultInv, [Next]_vars
             PROVE  ResultInv'
  OBVIOUS
<1>1. \A n \in Notifications : Explained(n)'
  BY ExplainedStep, ExplainedIsTheProperty DEF ResultInv
<1>2. DuplicatesExplained'
  BY <1>1 DEF DuplicatesExplained, Explained, Bit, Carriers
<1> QED BY <1>2, TypeStep, ClaimsStayApart DEF ResultInv

\* A vendor that acknowledges a notification twice does so because a result was lost in
\* between, whether or not leases outlive their workers: each acknowledgement is the
\* recorded success, a result a worker still carries, or a lost one.
THEOREM DuplicatesAreExplained == Spec => []DuplicatesExplained
<1>1. ResultInv => DuplicatesExplained
  BY DEF ResultInv
<1> QED BY <1>1, ResultInit, ResultStep, PTL DEF Spec

-------------------------------------------------------------------------------
(* Sums over finite sets. The library defines them by folding, in the order in   *)
(* which CHOOSE takes the elements; what is wanted is that the order is all one. *)

\* G gives the sum of f over every part of its domain.
Sums(f, G) ==
    /\ G \in [SUBSET DOMAIN f -> Nat]
    /\ G[{}] = 0
    /\ \A T \in SUBSET DOMAIN f : \A x \in T : G[T] = f[x] + G[T \ {x}]

Any(T) == CHOOSE x \in T : TRUE

\* G sums f element by element, in the order in which CHOOSE takes them.
TakesInOrder(f, G, n) ==
    \A T \in SUBSET DOMAIN f :
        Cardinality(T) <= n =>
            G[T] = IF T = {} THEN 0 ELSE f[Any(T)] + G[T \ {Any(T)}]

\* A set of numbers has a least element.
LEMMA LeastNumber ==
    ASSUME NEW S \in SUBSET Nat, S # {}
    PROVE  \E m \in S : \A n \in S : m <= n
<1> DEFINE R == OpToRel(<, Nat)
<1>1. IsWellFoundedOn(R, Nat)
  BY NatLessThanWellFounded
<1>2. \A x, y \in Nat : x < y => <<x, y>> \in R
  BY DEF OpToRel
<1> HIDE DEF R
<1>3. \E m \in S : \A n \in S : ~(<<n, m>> \in R)
  <2>1. S \subseteq Nat
    OBVIOUS
  <2> QED BY <1>1, <2>1, WFMin
<1>4. PICK m \in S : \A n \in S : ~(<<n, m>> \in R)
  BY <1>3
<1>5. ASSUME NEW n \in S PROVE m <= n
  <2>1. m \in Nat /\ n \in Nat
    OBVIOUS
  <2>2. ~(n < m)
    BY <1>2, <1>4, <2>1, Zenon
  <2> QED BY <2>1, <2>2
<1> QED BY <1>5

LEMMA PartFacts ==
    ASSUME NEW S, IsFiniteSet(S), NEW T \in SUBSET S
    PROVE  /\ IsFiniteSet(T) /\ Cardinality(T) \in Nat
           /\ Cardinality(T) = 0 <=> T = {}
           /\ \A x \in T : T \ {x} \in SUBSET S /\ Cardinality(T \ {x}) = Cardinality(T) - 1
           /\ T # {} => Any(T) \in T
<1>1. IsFiniteSet(T)
  BY FS_Subset
<1> QED BY <1>1, FS_CardinalityType, FS_EmptySet, FS_RemoveElement DEF Any

LEMMA OrderExists ==
    ASSUME NEW S, IsFiniteSet(S), NEW f \in [S -> Nat], NEW n \in Nat
    PROVE  \E G \in [SUBSET S -> Nat] : TakesInOrder(f, G, n)
<1> DEFINE bad == {k \in Nat : ~ \E G \in [SUBSET S -> Nat] : TakesInOrder(f, G, k)}
<1> SUFFICES ASSUME bad # {} PROVE FALSE
  OBVIOUS
<1>1. PICK m \in bad : \A k \in bad : m <= k
  <2> HIDE DEF bad
  <2>1. bad \in SUBSET Nat
    BY DEF bad
  <2> QED BY <2>1, LeastNumber
<1>2. m # 0
  <2> DEFINE G == [T \in SUBSET S |-> 0]
  <2>1. TakesInOrder(f, G, 0)
    BY PartFacts DEF TakesInOrder
  <2>2. G \in [SUBSET S -> Nat]
    OBVIOUS
  <2> HIDE DEF G
  <2> QED BY <1>1, <2>1, <2>2
<1>3. m-1 \in Nat /\ m-1 \notin bad
  <2>1. m \in Nat
    BY <1>1
  <2>2. m-1 \in Nat /\ m-1 < m
    BY <1>2, <2>1
  <2> HIDE DEF bad
  <2> QED BY <1>1, <2>1, <2>2
<1>4. PICK G \in [SUBSET S -> Nat] : TakesInOrder(f, G, m-1)
  BY <1>3
<1> DEFINE H == [T \in SUBSET S |-> IF T = {} THEN 0 ELSE f[Any(T)] + G[T \ {Any(T)}]]
<1>5. H \in [SUBSET S -> Nat]
  <2> SUFFICES ASSUME NEW T \in SUBSET S, T # {} PROVE f[Any(T)] + G[T \ {Any(T)}] \in Nat
    OBVIOUS
  <2>1. Any(T) \in S /\ T \ {Any(T)} \in SUBSET S
    BY PartFacts
  <2> QED BY <2>1
<1>6. ASSUME NEW T \in SUBSET S, Cardinality(T) <= m-1 PROVE H[T] = G[T]
  BY <1>4, <1>6 DEF TakesInOrder
<1>7. TakesInOrder(f, H, m)
  <2> SUFFICES ASSUME NEW T \in SUBSET S, Cardinality(T) <= m, T # {}
               PROVE  H[T] = f[Any(T)] + H[T \ {Any(T)}]
    BY DEF TakesInOrder
  <2>1. /\ T \ {Any(T)} \in SUBSET S
        /\ Cardinality(T \ {Any(T)}) = Cardinality(T) - 1 /\ Cardinality(T) \in Nat
    BY PartFacts
  <2>2. Cardinality(T \ {Any(T)}) <= m-1
    BY <1>1, <2>1
  <2>3. H[T \ {Any(T)}] = G[T \ {Any(T)}]
    <3> HIDE DEF H
    <3> QED BY <1>6, <2>1, <2>2
  <2> QED BY <2>3
<1> HIDE DEF H
<1> QED BY <1>1, <1>5, <1>7

\* The sum over a function with a finite domain exists, in any order of its elements.
LEMMA SumExists ==
    ASSUME NEW S, IsFiniteSet(S), NEW f \in [S -> Nat]
    PROVE  \E G : Sums(f, G) /\ SumFunction(f) = G[S]
<1> DEFINE Step(G) == [T \in SUBSET DOMAIN f |->
                         IF T = {} THEN 0
                         ELSE f[CHOOSE x \in T : TRUE] + G[T \ {CHOOSE x \in T : TRUE}]]
           G == CHOOSE G : G = Step(G)
<1>1. \E H \in [SUBSET S -> Nat] : H = Step(H)
  <2>1. PICK H \in [SUBSET S -> Nat] : TakesInOrder(f, H, Cardinality(S))
    BY FS_CardinalityType, OrderExists
  <2>2. \A T \in SUBSET S : Cardinality(T) <= Cardinality(S)
    BY FS_Subset
  <2>3. H = Step(H)
    BY <2>1, <2>2 DEF TakesInOrder, Any
  <2> QED BY <2>3
<1>2. G = Step(G)
  <2> HIDE DEF Step
  <2> QED BY <1>1
<1>3. SumFunction(f) = G[S]
  BY Zenon DEF SumFunction, SumFunctionOnSet, FoldFunctionOnSet, MapThenFoldSet
<1> HIDE DEF G
<1>4. \A T \in SUBSET S : G[T] = IF T = {} THEN 0 ELSE f[Any(T)] + G[T \ {Any(T)}]
  BY <1>2 DEF Any
<1>5. DOMAIN G = SUBSET S
  BY <1>2
<1>6. ASSUME NEW T \in SUBSET S PROVE G[T] \in Nat
  <2> DEFINE bad == {k \in Nat : \E U \in SUBSET S : Cardinality(U) = k /\ G[U] \notin Nat}
  <2>1. CASE bad = {}
    BY <2>1, PartFacts
  <2>2. CASE bad # {}
    <3>1. PICK m \in bad : \A k \in bad : m <= k
      <4> HIDE DEF bad
      <4>1. bad \in SUBSET Nat
        BY DEF bad
      <4> QED BY <2>2, <4>1, LeastNumber
    <3>2. PICK U \in SUBSET S : Cardinality(U) = m /\ G[U] \notin Nat
      BY <3>1
    <3>3. U # {}
      BY <1>4, <3>2
    <3>4. /\ Any(U) \in S /\ U \ {Any(U)} \in SUBSET S
          /\ Cardinality(U \ {Any(U)}) = m - 1 /\ m - 1 \in Nat
      BY <3>2, <3>3, PartFacts
    <3>5. G[U \ {Any(U)}] \in Nat
      BY <3>1, <3>4
    <3>6. f[Any(U)] \in Nat
      BY <3>4
    <3>7. G[U] = f[Any(U)] + G[U \ {Any(U)}]
      BY <1>4, <3>2, <3>3
    <3> QED BY <3>2, <3>5, <3>6, <3>7
  <2> QED BY <2>1, <2>2
<1>7. ASSUME NEW T \in SUBSET S, NEW x \in T PROVE G[T] = f[x] + G[T \ {x}]
  <2> DEFINE bad == {k \in Nat : \E U \in SUBSET S : \E y \in U :
                                     Cardinality(U) = k /\ G[U] # f[y] + G[U \ {y}]}
  <2>1. CASE bad = {}
    <3>1. Cardinality(T) \in Nat /\ Cardinality(T) \notin bad
      <4> HIDE DEF bad
      <4>1. Cardinality(T) \in Nat
        BY PartFacts
      <4> QED BY <2>1, <4>1
    <3> QED BY <3>1
  <2>2. CASE bad # {}
    <3>1. PICK m \in bad : \A k \in bad : m <= k
      <4> HIDE DEF bad
      <4>1. bad \in SUBSET Nat
        BY DEF bad
      <4> QED BY <2>2, <4>1, LeastNumber
    <3>0. PICK U \in SUBSET S : \E y \in U : Cardinality(U) = m /\ G[U] # f[y] + G[U \ {y}]
      BY <3>1
    <3>2. PICK y \in U : Cardinality(U) = m /\ G[U] # f[y] + G[U \ {y}]
      BY <3>0
    <3> DEFINE c == Any(U)
    <3>3. /\ c \in U /\ U \ {c} \in SUBSET S /\ U \ {y} \in SUBSET S
          /\ Cardinality(U \ {c}) = m - 1 /\ Cardinality(U \ {y}) = m - 1 /\ m - 1 \in Nat
      BY <3>2, PartFacts
    <3>4. G[U] = f[c] + G[U \ {c}]
      BY <1>4, <3>2
    <3> HIDE DEF c
    <3>5. c # y
      BY <3>2, <3>4
    <3>6. m - 1 \notin bad
      <4>1. m \in Nat
        BY <3>1
      <4> HIDE DEF bad
      <4> QED BY <3>1, <3>3, <4>1
    <3>7. G[U \ {c}] = f[y] + G[(U \ {c}) \ {y}] /\ G[U \ {y}] = f[c] + G[(U \ {y}) \ {c}]
      BY <3>3, <3>5, <3>6
    <3>8. (U \ {c}) \ {y} = (U \ {y}) \ {c} /\ (U \ {c}) \ {y} \in SUBSET S
      OBVIOUS
    <3>9. G[(U \ {c}) \ {y}] \in Nat /\ f[c] \in Nat /\ f[y] \in Nat
      BY <1>6, <3>3, <3>8
    <3>10. G[U] = f[c] + (f[y] + G[(U \ {c}) \ {y}])
      BY <3>4, <3>7
    <3>11. f[y] + G[U \ {y}] = f[y] + (f[c] + G[(U \ {c}) \ {y}])
      BY <3>7, <3>8
    <3>12. G[U] = f[y] + G[U \ {y}]
      BY <3>9, <3>10, <3>11
    <3> QED BY <3>2, <3>12
  <2> QED BY <2>1, <2>2
<1>8. Sums(f, G)
  <2>1. G = [T \in SUBSET S |-> G[T]]
    BY <1>2
  <2>2. G \in [SUBSET S -> Nat]
    BY <1>6, <2>1
  <2>3. G[{}] = 0
    BY <1>4
  <2> QED BY <1>7, <2>2, <2>3 DEF Sums
<1> QED BY <1>3, <1>8

\* Functions that agree on a part of both their domains have the same sum over it.
LEMMA SameSum ==
    ASSUME NEW S, NEW R, NEW f \in [S -> Nat], NEW g \in [R -> Nat],
           NEW F, Sums(f, F), NEW G, Sums(g, G),
           NEW T \in SUBSET S, T \in SUBSET R, IsFiniteSet(T), \A x \in T : f[x] = g[x]
    PROVE  F[T] = G[T]
<1> DEFINE bad == {k \in Nat : \E U \in SUBSET T : Cardinality(U) = k /\ F[U] # G[U]}
<1>1. CASE bad = {}
  BY <1>1, PartFacts
<1>2. CASE bad # {}
  <2>1. PICK m \in bad : \A k \in bad : m <= k
    <3> HIDE DEF bad
    <3>1. bad \in SUBSET Nat
      BY DEF bad
    <3> QED BY <1>2, <3>1, LeastNumber
  <2>2. PICK U \in SUBSET T : Cardinality(U) = m /\ F[U] # G[U]
    BY <2>1
  <2>3. U # {}
    BY <2>2 DEF Sums
  <2>4. PICK x \in U : TRUE
    BY <2>3
  <2>5. U \ {x} \in SUBSET T /\ Cardinality(U \ {x}) = m - 1 /\ m - 1 \in Nat
    BY <2>2, PartFacts
  <2>6. F[U \ {x}] = G[U \ {x}]
    BY <2>1, <2>5
  <2>7. F[U] = f[x] + F[U \ {x}] /\ G[U] = g[x] + G[U \ {x}]
    BY DEF Sums
  <2> QED BY <2>2, <2>6, <2>7
<1> QED BY <1>1, <1>2

LEMMA SumIsNumber ==
    ASSUME NEW S, IsFiniteSet(S), NEW f \in [S -> Nat]
    PROVE  SumFunction(f) \in Nat
<1>1. PICK G : Sums(f, G) /\ SumFunction(f) = G[S]
  BY SumExists
<1> QED BY <1>1 DEF Sums

\* A sum follows the one term that changes.
LEMMA OneTermChanges ==
    ASSUME NEW S, IsFiniteSet(S), NEW f \in [S -> Nat], NEW g \in [S -> Nat],
           NEW i \in S, \A j \in S \ {i} : f[j] = g[j]
    PROVE  SumFunction(g) + f[i] = SumFunction(f) + g[i]
<1>1. PICK F : Sums(f, F) /\ SumFunction(f) = F[S]
  BY SumExists
<1>2. PICK G : Sums(g, G) /\ SumFunction(g) = G[S]
  BY SumExists
<1>3. F[S \ {i}] = G[S \ {i}]
  <2>1. S \ {i} \in SUBSET S /\ IsFiniteSet(S \ {i})
    BY PartFacts
  <2> QED BY <1>1, <1>2, <2>1, SameSum
<1>4. F[S] = f[i] + F[S \ {i}] /\ G[S] = g[i] + G[S \ {i}]
  BY <1>1, <1>2 DEF Sums
<1>5. F[S \ {i}] \in Nat
  BY <1>1 DEF Sums
<1> QED BY <1>1, <1>2, <1>3, <1>4, <1>5

\* A sum of nothing but zeros is zero.
LEMMA SumOfZeros ==
    ASSUME NEW S, IsFiniteSet(S)
    PROVE  SumFunction([x \in S |-> 0]) = 0
<1> DEFINE f == [x \in S |-> 0]
           Z == [T \in SUBSET S |-> 0]
<1>1. f \in [S -> Nat] /\ Sums(f, Z)
  BY DEF Sums
<1> HIDE DEF f, Z
<1>2. PICK F : Sums(f, F) /\ SumFunction(f) = F[S]
  BY <1>1, SumExists
<1>3. F[S] = Z[S]
  BY <1>1, <1>2, SameSum
<1> QED BY <1>2, <1>3 DEF f, Z

\* A sum over a set is one term and the sum over the others.
LEMMA SumSplits ==
    ASSUME NEW S, IsFiniteSet(S), NEW x \in S, NEW f \in [S -> Nat],
           NEW g \in [S \ {x} -> Nat], \A y \in S \ {x} : f[y] = g[y]
    PROVE  SumFunction(f) = f[x] + SumFunction(g)
<1>1. S \ {x} \in SUBSET S /\ IsFiniteSet(S \ {x})
  BY PartFacts
<1>2. PICK F : Sums(f, F) /\ SumFunction(f) = F[S]
  BY SumExists
<1>3. PICK G : Sums(g, G) /\ SumFunction(g) = G[S \ {x}]
  BY <1>1, SumExists
<1>4. F[S \ {x}] = G[S \ {x}]
  BY <1>1, <1>2, <1>3, SameSum
<1>5. F[S] = f[x] + F[S \ {x}]
  BY <1>2 DEF Sums
<1> QED BY <1>2, <1>3, <1>4, <1>5

\* A part of a sum is no larger than the sum.
LEMMA PartOfSum ==
    ASSUME NEW S, IsFiniteSet(S), NEW R \in SUBSET S, NEW f \in [S -> Nat],
           NEW g \in [R -> Nat], \A y \in R : f[y] = g[y]
    PROVE  SumFunction(g) <= SumFunction(f)
<1>1. PICK F : Sums(f, F) /\ SumFunction(f) = F[S]
  BY SumExists
<1>2. IsFiniteSet(R)
  BY PartFacts
<1>3. PICK G : Sums(g, G) /\ SumFunction(g) = G[R]
  BY <1>2, SumExists
<1>4. F[R] = G[R]
  BY <1>1, <1>2, <1>3, SameSum
<1> DEFINE bad == {k \in Nat : \E U \in SUBSET S :
                                  R \subseteq U /\ Cardinality(U) = k /\ ~(F[R] <= F[U])}
<1>5. CASE bad = {}
  <2>1. Cardinality(S) \in Nat
    BY PartFacts
  <2>2. F[R] <= F[S]
    BY <1>5, <2>1
  <2> QED BY <1>1, <1>3, <1>4, <2>2
<1>6. CASE bad # {}
  <2>1. PICK m \in bad : \A k \in bad : m <= k
    <3> HIDE DEF bad
    <3>1. bad \in SUBSET Nat
      BY DEF bad
    <3> QED BY <1>6, <3>1, LeastNumber
  <2>2. PICK U \in SUBSET S : R \subseteq U /\ Cardinality(U) = m /\ ~(F[R] <= F[U])
    BY <2>1
  <2>3. F \in [SUBSET S -> Nat]
    BY <1>1 DEF Sums
  <2>4. U # R
    BY <2>2, <2>3
  <2>5. PICK x \in U : x \notin R
    BY <2>2, <2>4
  <2>6. U \ {x} \in SUBSET S /\ Cardinality(U \ {x}) = m - 1 /\ m - 1 \in Nat
    BY <2>2, PartFacts
  <2>7. F[R] <= F[U \ {x}]
    <3>1. m \in Nat /\ m-1 < m
      BY <2>1
    <3>2. m-1 \notin bad
      <4> HIDE DEF bad
      <4> QED BY <2>1, <2>6, <3>1
    <3> QED BY <2>2, <2>5, <2>6, <3>2
  <2>8. F[U] = f[x] + F[U \ {x}]
    BY <1>1 DEF Sums
  <2>9. f[x] \in Nat /\ F[U \ {x}] \in Nat /\ F[R] \in Nat
    BY <2>2, <2>3, <2>6
  <2> QED BY <2>2, <2>7, <2>8, <2>9
<1> QED BY <1>5, <1>6

-------------------------------------------------------------------------------
(* The number of requests a budget can come to. *)

\* f follows the recursion of MostRequests up to n.
Doubles(f, n) ==
    \A k \in 0..MaxBudget : k <= n => f[k] = IF k = 0 THEN 0 ELSE 1 + 2 * f[k-1]

LEMMA DoublesExists ==
    ASSUME NEW n \in Nat
    PROVE  \E f \in [0..MaxBudget -> Nat] : Doubles(f, n)
<1> DEFINE bad == {k \in Nat : ~ \E f \in [0..MaxBudget -> Nat] : Doubles(f, k)}
<1> SUFFICES ASSUME bad # {} PROVE FALSE
  OBVIOUS
<1>1. PICK m \in bad : \A k \in bad : m <= k
  <2> HIDE DEF bad
  <2>1. bad \in SUBSET Nat
    BY DEF bad
  <2> QED BY <2>1, LeastNumber
<1>2. m # 0
  <2> DEFINE f == [k \in 0..MaxBudget |-> 0]
  <2>1. Doubles(f, 0)
    BY BoundAssumption DEF Doubles
  <2>2. f \in [0..MaxBudget -> Nat]
    OBVIOUS
  <2> HIDE DEF f
  <2> QED BY <1>1, <2>1, <2>2
<1>3. m-1 \in Nat /\ m-1 \notin bad
  <2>1. m \in Nat
    BY <1>1
  <2>2. m-1 \in Nat /\ m-1 < m
    BY <1>2, <2>1
  <2> HIDE DEF bad
  <2> QED BY <1>1, <2>1, <2>2
<1>4. PICK f \in [0..MaxBudget -> Nat] : Doubles(f, m-1)
  BY <1>3
<1> DEFINE h == [k \in 0..MaxBudget |-> IF k = 0 THEN 0 ELSE 1 + 2 * f[k-1]]
<1>5. h \in [0..MaxBudget -> Nat]
  <2>1. ASSUME NEW k \in 0..MaxBudget, k # 0 PROVE 1 + 2 * f[k-1] \in Nat
    <3>1. f[k-1] \in Nat
      BY <2>1, BoundAssumption
    <3> QED BY <3>1
  <2> QED BY <2>1
<1>6. \A k \in 0..MaxBudget : k <= m-1 => h[k] = f[k]
  BY <1>4 DEF Doubles
<1>7. Doubles(h, m)
  <2> SUFFICES ASSUME NEW k \in 0..MaxBudget, k <= m, k # 0
               PROVE  h[k] = 1 + 2 * h[k-1]
    BY DEF Doubles
  <2>1. k-1 \in 0..MaxBudget /\ k-1 <= m-1
    BY <1>1, BoundAssumption
  <2>2. h[k-1] = f[k-1]
    <3> HIDE DEF h
    <3> QED BY <1>6, <2>1
  <2> QED BY <2>2
<1> HIDE DEF h
<1> QED BY <1>1, <1>5, <1>7

LEMMA MostRequestsFacts ==
    /\ \A k \in 0..MaxBudget : MostRequests[k] \in Nat
    /\ MostRequests[0] = 0
    /\ \A k \in 0..MaxBudget : k > 0 => MostRequests[k] = 1 + 2 * MostRequests[k-1]
<1> DEFINE Step(f) == [k \in 0..MaxBudget |-> IF k = 0 THEN 0 ELSE 1 + 2 * f[k-1]]
<1>1. \E f \in [0..MaxBudget -> Nat] : f = Step(f)
  <2>1. PICK f \in [0..MaxBudget -> Nat] : Doubles(f, MaxBudget)
    BY BoundAssumption, DoublesExists
  <2>2. \A k \in 0..MaxBudget : k <= MaxBudget
    BY BoundAssumption
  <2>3. \A k \in 0..MaxBudget : f[k] = IF k = 0 THEN 0 ELSE 1 + 2 * f[k-1]
    BY <2>1, <2>2 DEF Doubles
  <2>4. f = [k \in 0..MaxBudget |-> f[k]]
    OBVIOUS
  <2> QED BY <2>3, <2>4, Zenon
<1>2. MostRequests = Step(MostRequests)
  <2> DEFINE M == CHOOSE f : f = Step(f)
  <2>1. MostRequests = M
    BY Zenon DEF MostRequests
  <2>2. M = Step(M)
    <3> HIDE DEF Step
    <3> QED BY <1>1
  <2> HIDE DEF M
  <2> QED BY <2>1, <2>2
<1>3. \A k \in 0..MaxBudget :
          MostRequests[k] = IF k = 0 THEN 0 ELSE 1 + 2 * MostRequests[k-1]
  BY <1>2
<1> HIDE DEF Step
<1>4. ASSUME NEW j \in 0..MaxBudget PROVE MostRequests[j] \in Nat
  <2> DEFINE bad == {k \in Nat : k \in 0..MaxBudget /\ MostRequests[k] \notin Nat}
  <2>1. CASE bad = {}
    BY <2>1
  <2>2. CASE bad # {}
    <3>1. PICK m \in bad : \A k \in bad : m <= k
      <4> HIDE DEF bad
      <4>1. bad \in SUBSET Nat
        BY DEF bad
      <4> QED BY <2>2, <4>1, LeastNumber
    <3>2. m \in 0..MaxBudget /\ m \in Nat /\ MostRequests[m] \notin Nat
      BY <3>1
    <3>3. m # 0
      BY <1>3, <3>2
    <3>4. m-1 \in 0..MaxBudget /\ m-1 \in Nat /\ m-1 < m
      BY <3>2, <3>3, BoundAssumption
    <3>5. m-1 \notin bad
      <4> HIDE DEF bad
      <4> QED BY <3>1, <3>2, <3>4
    <3>6. MostRequests[m-1] \in Nat
      BY <3>4, <3>5
    <3>7. MostRequests[m] = 1 + 2 * MostRequests[m-1]
      BY <1>3, <3>2, <3>3
    <3> QED BY <3>2, <3>6, <3>7
  <2> QED BY <2>1, <2>2
<1> QED BY <1>3, <1>4, BoundAssumption

-------------------------------------------------------------------------------
(* What is left to send. A worker may send its request, and hands back the budget it *)
(* read less its own attempt; a row has what its attempts leave it.                  *)

Weight(d) == MostRequests[d.max - d.no] + Bit(d.phase = "claimed")

Total(S) == SumFunction([d \in S |-> Weight(d)])

Planned(row) ==
    CASE row.status = "pending" -> MostRequests[row.max - row.attempt]
      [] row.status = "in_flight" -> MostRequests[row.max - row.attempt - 1]
      [] OTHER -> 0

\* A set of workers that each have a number of requests to come.
Weighed(S) == IsFiniteSet(S) /\ \A d \in S : Weight(d) \in Nat

LEMMA TotalIsNumber ==
    ASSUME NEW S, Weighed(S)
    PROVE  Total(S) \in Nat
<1> DEFINE f == [d \in S |-> Weight(d)]
<1>1. f \in [S -> Nat]
  BY DEF Weighed
<1> HIDE DEF f
<1>2. SumFunction(f) \in Nat
  BY <1>1, SumIsNumber DEF Weighed
<1> QED BY <1>2 DEF Total, f

LEMMA TotalOfNothing == Total({}) = 0
<1> DEFINE f == [d \in {} |-> Weight(d)]
<1>1. f \in [{} -> Nat] /\ IsFiniteSet({})
  BY FS_EmptySet
<1> HIDE DEF f
<1>2. PICK F : Sums(f, F) /\ SumFunction(f) = F[{}]
  BY <1>1, SumExists
<1>3. SumFunction(f) = 0
  BY <1>2 DEF Sums
<1> QED BY <1>3 DEF Total, f

LEMMA TotalWithout ==
    ASSUME NEW S, Weighed(S), NEW d \in S
    PROVE  /\ Total(S) = Weight(d) + Total(S \ {d})
           /\ Weight(d) \in Nat /\ Weighed(S \ {d}) /\ Total(S \ {d}) \in Nat
<1> DEFINE f == [e \in S |-> Weight(e)]
           g == [e \in S \ {d} |-> Weight(e)]
<1>1. Weight(d) \in Nat /\ Weighed(S \ {d})
  BY FS_RemoveElement DEF Weighed
<1>2. f \in [S -> Nat] /\ g \in [S \ {d} -> Nat] /\ \A e \in S \ {d} : f[e] = g[e]
  BY DEF Weighed
<1>3. f[d] = Weight(d) /\ Total(S) = SumFunction(f) /\ Total(S \ {d}) = SumFunction(g)
  BY DEF Total
<1> HIDE DEF f, g
<1>4. SumFunction(f) = f[d] + SumFunction(g)
  BY <1>2, SumSplits DEF Weighed
<1> QED BY <1>1, <1>3, <1>4, TotalIsNumber

LEMMA TotalWith ==
    ASSUME NEW S, Weighed(S), NEW d, d \notin S, Weight(d) \in Nat
    PROVE  /\ Total(S \cup {d}) = Weight(d) + Total(S)
           /\ Weighed(S \cup {d}) /\ Total(S) \in Nat
<1>1. Weighed(S \cup {d})
  BY FS_AddElement DEF Weighed
<1>2. (S \cup {d}) \ {d} = S /\ d \in S \cup {d}
  OBVIOUS
<1> QED BY <1>1, <1>2, TotalWithout

LEMMA TotalOfPart ==
    ASSUME NEW S, Weighed(S), NEW R \in SUBSET S
    PROVE  /\ Total(R) <= Total(S)
           /\ Weighed(R) /\ Total(R) \in Nat /\ Total(S) \in Nat
<1> DEFINE f == [e \in S |-> Weight(e)]
           g == [e \in R |-> Weight(e)]
<1>1. Weighed(R)
  BY FS_Subset DEF Weighed
<1>2. f \in [S -> Nat] /\ g \in [R -> Nat] /\ \A e \in R : f[e] = g[e]
  BY DEF Weighed
<1>3. Total(S) = SumFunction(f) /\ Total(R) = SumFunction(g)
  BY DEF Total
<1> HIDE DEF f, g
<1>4. SumFunction(g) <= SumFunction(f)
  BY <1>2, PartOfSum DEF Weighed
<1> QED BY <1>1, <1>3, <1>4, TotalIsNumber

-------------------------------------------------------------------------------
(* The invariant, while no operator has handed out new budget. *)

\* A row that goes on has an attempt left, and its workers have one of its attempts.
Budgeted(n) ==
    /\ rows[n].max \in 0..MaxBudget
    /\ rows[n].status = "absent" => rows[n].max = 0
    /\ rows[n].status \in {"pending", "in_flight"} => rows[n].attempt < rows[n].max
    /\ \A d \in DeliveriesOf(n) : d.max = rows[n].max /\ d.no \in 1..d.max

\* What was sent and what is left to send are within what the budget can come to.
Room(n) ==
    sent[n] + Total(DeliveriesOf(n)) + Planned(rows[n]) <= MostRequests[rows[n].max]

OverrunInv ==
    /\ TypeInv /\ OwnClaim /\ NoneYet
    /\ requeues = 0 => \A n \in Notifications : Budgeted(n) /\ Room(n)

LEMMA OverrunInit == Init => OverrunInv
<1> SUFFICES ASSUME Init PROVE OverrunInv
  OBVIOUS
<1>1. TypeInv /\ OwnClaim /\ NoneYet
  BY TypeInit DEF Init, OwnClaim, NoneYet
<1>2. ASSUME NEW n \in Notifications PROVE Budgeted(n) /\ Room(n)
  <2>1. DeliveriesOf(n) = {} /\ rows[n] = AbsentRow /\ sent[n] = 0
    BY DEF Init, DeliveriesOf
  <2>2. Budgeted(n)
    BY <2>1, BoundAssumption DEF Budgeted, AbsentRow
  <2>3. Planned(rows[n]) = 0 /\ rows[n].max = 0
    BY <2>1 DEF Planned, AbsentRow
  <2>4. Room(n)
    BY <2>1, <2>3, TotalOfNothing, MostRequestsFacts DEF Room
  <2> QED BY <2>2, <2>4
<1> QED BY <1>1, <1>2 DEF OverrunInv

\* A row that has an attempt left when it goes on has a number of requests to come.
LEMMA PlannedIsNumber ==
    ASSUME NEW row \in Row, row.max \in 0..MaxBudget,
           row.status \in {"pending", "in_flight"} => row.attempt < row.max
    PROVE  Planned(row) \in Nat
<1>1. row.max \in Nat /\ row.attempt \in Nat /\ row.max <= MaxBudget
  BY BoundAssumption DEF Row
<1>2. CASE row.status = "pending"
  <2>1. row.max - row.attempt \in 0..MaxBudget
    BY <1>1, <1>2, BoundAssumption
  <2>2. MostRequests[row.max - row.attempt] \in Nat
    BY <2>1, MostRequestsFacts
  <2> QED BY <1>2, <2>2 DEF Planned
<1>3. CASE row.status = "in_flight"
  <2>1. row.max - row.attempt - 1 \in 0..MaxBudget
    BY <1>1, <1>3, BoundAssumption
  <2>2. MostRequests[row.max - row.attempt - 1] \in Nat
    BY <2>1, MostRequestsFacts
  <2> QED BY <1>3, <2>2 DEF Planned
<1>4. CASE row.status \notin {"pending", "in_flight"}
  BY <1>4 DEF Planned
<1> QED BY <1>2, <1>3, <1>4

LEMMA WorkersWeigh ==
    ASSUME TypeInv, NEW n \in Notifications, Budgeted(n)
    PROVE  /\ Weighed(DeliveriesOf(n)) /\ Total(DeliveriesOf(n)) \in Nat
           /\ rows[n] \in Row /\ sent[n] \in Nat /\ MostRequests[rows[n].max] \in Nat
           /\ Planned(rows[n]) \in Nat
<1>1. IsFiniteSet(DeliveriesOf(n))
  <2>1. DeliveriesOf(n) \in SUBSET deliveries
    BY DEF DeliveriesOf
  <2> QED BY <2>1, FS_Subset DEF TypeInv
<1>2. ASSUME NEW d \in DeliveriesOf(n) PROVE Weight(d) \in Nat
  <2>1. d.max - d.no \in 0..MaxBudget
    BY BoundAssumption DEF Budgeted
  <2>2. MostRequests[d.max - d.no] \in Nat
    BY <2>1, MostRequestsFacts
  <2> QED BY <2>2 DEF Weight, Bit
<1>3. rows[n] \in Row /\ sent[n] \in Nat
  BY DEF TypeInv, TypeOK
<1>4. Planned(rows[n]) \in Nat
  BY <1>3, PlannedIsNumber DEF Budgeted
<1>5. MostRequests[rows[n].max] \in Nat
  BY MostRequestsFacts DEF Budgeted
<1>6. Weighed(DeliveriesOf(n))
  BY <1>1, <1>2 DEF Weighed
<1> QED BY <1>3, <1>4, <1>5, <1>6, TotalIsNumber

-------------------------------------------------------------------------------
(* The steps keep the invariant. *)

LEMMA ShrinkingRoom ==
    ASSUME TypeInv, TypeInv', NEW n \in Notifications, Budgeted(n), Room(n),
           DeliveriesOf(n)' \subseteq DeliveriesOf(n), sent'[n] = sent[n],
           rows'[n].max = rows[n].max,
           rows'[n].status = "absent" => rows[n].status = "absent",
           rows'[n].status \in {"pending", "in_flight"} => rows'[n].attempt < rows'[n].max,
           Planned(rows'[n]) <= Planned(rows[n])
    PROVE  Budgeted(n)' /\ Room(n)'
<1>1. Budgeted(n)'
  BY DEF Budgeted
<1>2. Planned(rows'[n]) \in Nat
  <2>1. rows'[n] \in Row
    BY DEF TypeInv, TypeOK
  <2> QED BY <1>1, <2>1, PlannedIsNumber DEF Budgeted
<1> DEFINE T == Total(DeliveriesOf(n))
           U == Total(DeliveriesOf(n)')
<1>3. U <= T /\ U \in Nat /\ T \in Nat
  BY WorkersWeigh, TotalOfPart
<1>4. Planned(rows[n]) \in Nat /\ sent[n] \in Nat /\ MostRequests[rows[n].max] \in Nat
  BY WorkersWeigh
<1>5. sent[n] + T + Planned(rows[n]) <= MostRequests[rows[n].max]
  BY DEF Room
<1> HIDE DEF T, U
<1>6. sent[n] + U + Planned(rows'[n]) <= MostRequests[rows[n].max]
  BY <1>2, <1>3, <1>4, <1>5
<1>7. Room(n)'
  BY <1>6 DEF Room, U
<1> QED BY <1>1, <1>7

\* A step that touches neither the workers nor what was sent, and hands out no requests.
LEMMA RowRoom ==
    ASSUME TypeInv, TypeInv', deliveries' = deliveries, sent' = sent,
           NEW n \in Notifications, Budgeted(n), Room(n),
           rows'[n].max = rows[n].max,
           rows'[n].status = "absent" => rows[n].status = "absent",
           rows'[n].status \in {"pending", "in_flight"} => rows'[n].attempt < rows'[n].max,
           Planned(rows'[n]) <= Planned(rows[n])
    PROVE  Budgeted(n)' /\ Room(n)'
<1>1. DeliveriesOf(n)' = DeliveriesOf(n)
  BY DEF DeliveriesOf
<1> QED BY <1>1, ShrinkingRoom

\* A notification whose row, workers and requests a step leaves alone.
LEMMA SameRoom ==
    ASSUME NEW n \in Notifications, Budgeted(n), Room(n), rows'[n] = rows[n],
           DeliveriesOf(n)' = DeliveriesOf(n), sent'[n] = sent[n]
    PROVE  Budgeted(n)' /\ Room(n)'
BY DEF Budgeted, Room

LEMMA EnqueueRoom ==
    ASSUME TypeInv, NEW m \in Notifications, NEW budget \in 1..MaxBudget, Enqueue(m, budget),
           NEW n \in Notifications, Budgeted(n), Room(n)
    PROVE  Budgeted(n)' /\ Room(n)'
<1>1. DeliveriesOf(n)' = DeliveriesOf(n) /\ sent'[n] = sent[n]
  BY DEF Enqueue, ghosts, DeliveriesOf
<1>2. CASE n # m
  BY <1>1, <1>2, SameRoom DEF Enqueue, TypeInv, TypeOK
<1>3. CASE n = m
  <2>1. /\ rows'[n].status = "pending" /\ rows'[n].max = budget /\ rows'[n].attempt = 0
        /\ rows[n].status = "absent"
    BY <1>3 DEF Enqueue, TypeInv, TypeOK
  <2>2. rows[n].max = 0 /\ DeliveriesOf(n) = {}
    BY <2>1 DEF Budgeted
  <2>3. Budgeted(n)'
    BY <1>1, <2>1, <2>2, BoundAssumption DEF Budgeted
  <2>4. Planned(rows'[n]) = MostRequests[budget] /\ MostRequests[budget] \in Nat
    <3>1. budget \in 0..MaxBudget /\ budget - 0 = budget
      BY BoundAssumption
    <3> QED BY <2>1, <3>1, MostRequestsFacts DEF Planned
  <2>5. sent[n] = 0
    <3>1. Planned(rows[n]) \in Nat /\ sent[n] \in Nat
      BY WorkersWeigh
    <3>2. sent[n] + 0 + Planned(rows[n]) <= 0
      BY <2>2, TotalOfNothing, MostRequestsFacts DEF Room
    <3> QED BY <3>1, <3>2
  <2>6. Room(n)'
    BY <1>1, <2>1, <2>2, <2>4, <2>5, TotalOfNothing DEF Room
  <2> QED BY <2>3, <2>6
<1> QED BY <1>2, <1>3

\* The reaper charges the lost attempt: what was left after it is left now.
LEMMA RecoverRoom ==
    ASSUME TypeInv, TypeInv', RecoverExpiredLeases,
           NEW n \in Notifications, Budgeted(n), Room(n)
    PROVE  Budgeted(n)' /\ Room(n)'
<1>1. deliveries' = deliveries /\ sent' = sent
  BY DEF RecoverExpiredLeases, ghosts
<1>2. CASE ~Expired(n)
  BY <1>1, <1>2, SameRoom DEF RecoverExpiredLeases, DeliveriesOf
<1>3. CASE Expired(n)
  <2>1. rows'[n] = Recovered(rows[n]) /\ rows[n].status = "in_flight" /\ rows[n] \in Row
    BY <1>3 DEF RecoverExpiredLeases, Expired, TypeInv, TypeOK
  <2>2. /\ rows'[n].max = rows[n].max /\ rows'[n].attempt = rows[n].attempt + 1
        /\ rows'[n].status = IF rows[n].attempt + 1 >= rows[n].max THEN "dead" ELSE "pending"
    BY <2>1 DEF Recovered, Row
  <2>3. rows[n].attempt \in Nat /\ rows[n].max \in Nat
    BY <2>1 DEF Row
  <2>4. Planned(rows[n]) = MostRequests[rows[n].max - rows[n].attempt - 1]
    BY <2>1 DEF Planned
  <2>5. Planned(rows[n]) \in Nat
    BY WorkersWeigh
  <2>6. CASE rows[n].attempt + 1 >= rows[n].max
    <3>1. Planned(rows'[n]) = 0
      BY <2>2, <2>6 DEF Planned
    <3> QED BY <1>1, <2>2, <2>5, <2>6, <3>1, RowRoom
  <2>7. CASE ~(rows[n].attempt + 1 >= rows[n].max)
    <3>1. Planned(rows'[n]) = MostRequests[rows[n].max - (rows[n].attempt + 1)]
      BY <2>2, <2>7 DEF Planned
    <3>2. rows[n].max - (rows[n].attempt + 1) = rows[n].max - rows[n].attempt - 1
      BY <2>3
    <3>3. Planned(rows'[n]) = Planned(rows[n])
      BY <2>4, <3>1, <3>2
    <3>4. rows'[n].attempt < rows'[n].max
      BY <2>2, <2>3, <2>7
    <3> QED BY <1>1, <2>2, <2>5, <2>7, <3>3, <3>4, RowRoom
  <2> QED BY <2>6, <2>7
<1> QED BY <1>2, <1>3

\* A claim spends one request of what is left: the rest goes to the worker, and the row
\* keeps as much in case the worker is not heard of.
LEMMA ClaimRoom ==
    ASSUME TypeInv, TypeInv', OwnClaim,
           NEW i \in Instances, NEW batch \in SUBSET Notifications, Claim(i, batch),
           NEW n \in Notifications, Budgeted(n), Room(n)
    PROVE  Budgeted(n)' /\ Room(n)'
<1> DEFINE e == NewDelivery(n, i)
<1>1. \A m \in batch : NewDelivery(m, i).n = m
  BY DEF NewDelivery
<1>2. CASE n \notin batch
  <2>1. DeliveriesOf(n)' = DeliveriesOf(n)
    BY <1>1, <1>2 DEF Claim, DeliveriesOf
  <2>2. rows'[n] = rows[n] /\ sent'[n] = sent[n]
    BY <1>2 DEF Claim
  <2> QED BY <2>1, <2>2, SameRoom
<1>3. CASE n \in batch
  <2>1. /\ e.claim = claims[n] + 1 /\ e.no = rows[n].attempt + 1 /\ e.max = rows[n].max
        /\ e.phase = "claimed" /\ e.n = n
    BY DEF NewDelivery
  <2>2. DeliveriesOf(n)' = DeliveriesOf(n) \cup {e}
    BY <1>1, <1>3 DEF Claim, DeliveriesOf
  <2>3. e \notin DeliveriesOf(n)
    <3>1. \A d \in DeliveriesOf(n) : d.claim \in Nat /\ d.claim <= claims[n]
      BY DEF OwnClaim, DeliveriesOf, TypeInv, TypeOK, Delivery
    <3>2. claims[n] \in Nat
      BY DEF TypeInv, TypeOK
    <3> HIDE DEF e
    <3> QED BY <2>1, <3>1, <3>2
  <2>4. rows[n].status = "pending" /\ rows[n] \in Row
    BY <1>3 DEF Claim, Claimable, TypeInv, TypeOK
  <2>5. /\ rows'[n].status = "in_flight" /\ rows'[n].max = rows[n].max
        /\ rows'[n].attempt = rows[n].attempt /\ sent'[n] = sent[n]
    BY <1>3, <2>4 DEF Claim, Claimed, Row
  <2> HIDE DEF e
  <2>6. /\ rows[n].max \in Nat /\ rows[n].attempt \in Nat /\ rows[n].max <= MaxBudget
        /\ rows[n].attempt < rows[n].max /\ rows[n].max \in 0..MaxBudget
    BY <2>4, BoundAssumption DEF Row, Budgeted
  <2>7. Budgeted(n)'
    <3>1. e.no \in 1..e.max
      BY <2>1, <2>6
    <3> QED BY <2>1, <2>2, <2>5, <2>6, <3>1 DEF Budgeted
  <2> DEFINE k == rows[n].max - rows[n].attempt
             rest == MostRequests[k-1]
  <2>8. /\ rest \in Nat /\ MostRequests[k] = 1 + 2 * rest
        /\ k - 1 = e.max - e.no /\ k - 1 = rows[n].max - rows[n].attempt - 1
    <3>1. k \in 0..MaxBudget /\ k > 0 /\ k-1 \in 0..MaxBudget
      BY <2>6, BoundAssumption
    <3>2. k - 1 = e.max - e.no /\ k - 1 = rows[n].max - rows[n].attempt - 1
      BY <2>1, <2>6
    <3> HIDE DEF k
    <3> QED BY <3>1, <3>2, MostRequestsFacts
  <2>9. Weight(e) = rest + 1
    BY <2>1, <2>8 DEF Weight, Bit
  <2>10. Planned(rows[n]) = MostRequests[k]
    BY <2>4 DEF Planned
  <2>11. Planned(rows'[n]) = rest
    BY <2>5, <2>8 DEF Planned
  <2> HIDE DEF rest, k
  <2> DEFINE T == Total(DeliveriesOf(n))
  <2>12. Total(DeliveriesOf(n) \cup {e}) = (rest + 1) + T /\ T \in Nat /\ sent[n] \in Nat
    <3>1. rest + 1 \in Nat
      BY <2>8
    <3> QED BY <2>3, <2>9, <3>1, WorkersWeigh, TotalWith
  <2>13. sent[n] + T + MostRequests[k] <= MostRequests[rows[n].max]
    BY <2>10 DEF Room
  <2> HIDE DEF T
  <2>14. sent[n] + ((rest + 1) + T) + rest <= MostRequests[rows[n].max]
    <3>1. sent[n] + T + (1 + 2 * rest) <= MostRequests[rows[n].max]
      BY <2>8, <2>13
    <3>2. MostRequests[rows[n].max] \in Nat
      BY WorkersWeigh
    <3> QED BY <2>8, <2>12, <3>1, <3>2
  <2>15. Room(n)'
    BY <2>2, <2>5, <2>11, <2>12, <2>14 DEF Room
  <2> QED BY <2>7, <2>15
<1> QED BY <1>2, <1>3

\* The request a worker has not sent yet is counted until it is sent.
LEMMA GoesOnRoom ==
    ASSUME TypeInv, TypeInv', OwnClaim, NEW d \in deliveries, NEW e \in Delivery,
           e.n = d.n, e.claim = d.claim, e.no = d.no, e.max = d.max, e.phase # d.phase,
           deliveries' = Advance(d, e), rows' = rows,
           \A n \in Notifications \ {d.n} : sent'[n] = sent[n],
           sent'[d.n] + Bit(e.phase = "claimed") <= sent[d.n] + Bit(d.phase = "claimed"),
           NEW n \in Notifications, Budgeted(n), Room(n)
    PROVE  Budgeted(n)' /\ Room(n)'
<1>1. CASE n # d.n
  <2>1. DeliveriesOf(n)' = DeliveriesOf(n)
    BY <1>1 DEF Advance, DeliveriesOf
  <2> QED BY <1>1, <2>1, SameRoom
<1>2. CASE n = d.n
  <2> DEFINE S == DeliveriesOf(n) \ {d}
  <2>1. d \in DeliveriesOf(n) /\ DeliveriesOf(n)' = S \cup {e}
    BY <1>2 DEF Advance, DeliveriesOf
  <2>2. e \notin S
    BY DEF OwnClaim, DeliveriesOf
  <2>3. Budgeted(n)'
    BY <1>2, <2>1 DEF Budgeted
  <2>4. /\ Total(DeliveriesOf(n)) = Weight(d) + Total(S)
        /\ Weight(d) \in Nat /\ Weighed(S) /\ Total(S) \in Nat
    BY <2>1, WorkersWeigh, TotalWithout
  <2> DEFINE rest == MostRequests[d.max - d.no]
             x == Bit(d.phase = "claimed")
             y == Bit(e.phase = "claimed")
  <2>5. x \in Nat /\ y \in Nat
    BY DEF Bit
  <2>6. Weight(d) = rest + x /\ Weight(e) = rest + y
    BY DEF Weight
  <2>7. rest \in Nat
    <3>1. d.max - d.no \in 0..MaxBudget
      BY <2>1, BoundAssumption DEF Budgeted
    <3> QED BY <3>1, MostRequestsFacts
  <2>8. sent'[n] + y <= sent[n] + x
    BY <1>2
  <2> HIDE DEF S, rest, x, y
  <2>9. Total(S \cup {e}) = (rest + y) + Total(S)
    <3>1. Weight(e) \in Nat
      BY <2>5, <2>6, <2>7
    <3> QED BY <2>2, <2>4, <2>6, <3>1, TotalWith
  <2>10. sent[n] + ((rest + x) + Total(S)) + Planned(rows[n]) <= MostRequests[rows[n].max]
    BY <2>4, <2>6 DEF Room
  <2>11. /\ sent[n] \in Nat /\ sent'[n] \in Nat /\ Planned(rows[n]) \in Nat
         /\ MostRequests[rows[n].max] \in Nat
    BY WorkersWeigh DEF TypeInv, TypeOK
  <2>12. sent'[n] + ((rest + y) + Total(S)) + Planned(rows[n]) <= MostRequests[rows[n].max]
    BY <2>4, <2>5, <2>7, <2>8, <2>10, <2>11
  <2>13. Room(n)'
    BY <2>1, <2>9, <2>12 DEF Room
  <2> QED BY <2>3, <2>13
<1> QED BY <1>1, <1>2

\* A late result sets the row back: the row gets what its worker had, which is gone.
LEMMA EndsRoom ==
    ASSUME TypeInv, TypeInv', NEW d \in deliveries, NEW row \in Row,
           deliveries' = deliveries \ {d}, rows' = [rows EXCEPT ![d.n] = row], sent' = sent,
           row.max = rows[d.n].max, row.status # "absent",
           row.status \in {"pending", "in_flight"} => row.attempt < row.max,
           Planned(row) <= Weight(d),
           NEW n \in Notifications, Budgeted(n), Room(n)
    PROVE  Budgeted(n)' /\ Room(n)'
<1>1. CASE n # d.n
  <2>1. DeliveriesOf(n)' = DeliveriesOf(n)
    BY <1>1 DEF DeliveriesOf
  <2>2. rows'[n] = rows[n]
    BY <1>1 DEF TypeInv, TypeOK
  <2> QED BY <2>1, <2>2, SameRoom
<1>2. CASE n = d.n
  <2> DEFINE S == DeliveriesOf(n) \ {d}
  <2>1. d \in DeliveriesOf(n) /\ DeliveriesOf(n)' = S
    BY <1>2 DEF DeliveriesOf
  <2>2. rows'[n] = row
    BY <1>2 DEF TypeInv, TypeOK
  <2>3. Budgeted(n)'
    BY <1>2, <2>1, <2>2 DEF Budgeted
  <2>4. /\ Total(DeliveriesOf(n)) = Weight(d) + Total(S)
        /\ Weight(d) \in Nat /\ Weighed(S) /\ Total(S) \in Nat
    BY <2>1, WorkersWeigh, TotalWithout
  <2> HIDE DEF S
  <2>5. Planned(row) \in Nat
    BY <2>2, <2>3, PlannedIsNumber DEF Budgeted
  <2>6. sent[n] + (Weight(d) + Total(S)) + Planned(rows[n]) <= MostRequests[rows[n].max]
    BY <2>4 DEF Room
  <2>7. sent[n] \in Nat /\ Planned(rows[n]) \in Nat /\ MostRequests[rows[n].max] \in Nat
    BY WorkersWeigh
  <2>8. sent[n] + Total(S) + Planned(row) <= MostRequests[rows[n].max]
    BY <2>4, <2>5, <2>6, <2>7
  <2>9. Room(n)'
    BY <1>2, <2>1, <2>2, <2>8 DEF Room
  <2> QED BY <2>3, <2>9
<1> QED BY <1>1, <1>2

LEMMA WriteBackRoom ==
    ASSUME TypeInv, TypeInv', NEW d \in deliveries, NEW row \in Row, WriteBack(d, row),
           row.max = rows[d.n].max, row.status # "absent",
           row.status \in {"pending", "in_flight"} => row.attempt < row.max,
           Planned(row) <= Weight(d),
           NEW n \in Notifications, Budgeted(n), Room(n)
    PROVE  Budgeted(n)' /\ Room(n)'
<1>1. deliveries' = deliveries \ {d} /\ sent' = sent
  BY DEF WriteBack
<1>2. CASE Owned(d)
  <2>1. rows' = [rows EXCEPT ![d.n] = row]
    BY <1>2 DEF WriteBack
  <2> QED BY <1>1, <2>1, EndsRoom
<1>3. CASE ~Owned(d)
  <2>1. rows' = rows /\ DeliveriesOf(n)' \subseteq DeliveriesOf(n)
    BY <1>1, <1>3 DEF WriteBack, DeliveriesOf
  <2> QED BY <1>1, <2>1, WorkersWeigh, ShrinkingRoom DEF Budgeted
<1> QED BY <1>2, <1>3

LEMMA WorkerRoom ==
    ASSUME TypeInv, TypeInv', OwnClaim, NEW d \in deliveries, DeliveryStep(d),
           \A m \in Notifications : Budgeted(m),
           NEW n \in Notifications, Room(n)
    PROVE  Budgeted(n)' /\ Room(n)'
<1>1. d \in Delivery /\ d.n \in Notifications /\ d \in DeliveriesOf(d.n)
  BY DEF TypeInv, TypeOK, Delivery, DeliveriesOf
<1>2. CASE Send(d)
  <2> DEFINE e == [d EXCEPT !.phase = "sent"]
  <2>1. /\ e \in Delivery /\ e.n = d.n /\ e.claim = d.claim /\ e.no = d.no /\ e.max = d.max
        /\ e.phase = "sent" /\ d.phase = "claimed"
    BY <1>1, <1>2 DEF Send, Delivery, Phase
  <2>2. deliveries' = Advance(d, e) /\ rows' = rows
    BY <1>2 DEF Send
  <2>3. /\ \A m \in Notifications \ {d.n} : sent'[m] = sent[m]
        /\ sent'[d.n] = sent[d.n] + 1 /\ sent[d.n] \in Nat
    BY <1>1, <1>2 DEF Send, TypeInv, TypeOK
  <2>4. sent'[d.n] + Bit(e.phase = "claimed") <= sent[d.n] + Bit(d.phase = "claimed")
    <3> HIDE DEF e
    <3> QED BY <2>1, <2>3 DEF Bit
  <2> HIDE DEF e
  <2> QED BY <2>1, <2>2, <2>3, <2>4, GoesOnRoom
<1>3. ASSUME NEW o \in Outcome \ {"none"}, RefuseUnsent(d, o) \/ Answer(d, o)
      PROVE  Budgeted(n)' /\ Room(n)'
  <2> DEFINE e == [d EXCEPT !.phase = "answered", !.outcome = o]
  <2>1. /\ e \in Delivery /\ e.n = d.n /\ e.claim = d.claim /\ e.no = d.no /\ e.max = d.max
        /\ e.phase = "answered" /\ d.phase \in {"claimed", "sent"}
    BY <1>1, <1>3 DEF RefuseUnsent, Answer, Delivery, Phase
  <2>2. deliveries' = Advance(d, e) /\ rows' = rows /\ sent' = sent
    BY <1>3 DEF RefuseUnsent, Answer, ghosts
  <2> HIDE DEF e
  <2>3. sent'[d.n] + Bit(e.phase = "claimed") <= sent[d.n] + Bit(d.phase = "claimed")
    <3>1. sent[d.n] \in Nat
      BY <1>1 DEF TypeInv, TypeOK
    <3> QED BY <2>1, <2>2, <3>1 DEF Bit
  <2> QED BY <2>1, <2>2, <2>3, GoesOnRoom
<1>4. ASSUME NEW ok \in BOOLEAN, RecordAttempt(d, ok)
      PROVE  Budgeted(n)' /\ Room(n)'
  <2> DEFINE e == [d EXCEPT !.phase = "recorded"]
  <2>1. /\ e \in Delivery /\ e.n = d.n /\ e.claim = d.claim /\ e.no = d.no /\ e.max = d.max
        /\ e.phase = "recorded" /\ d.phase = "answered"
    BY <1>1, <1>4 DEF RecordAttempt, Delivery, Phase
  <2>2. deliveries' = Advance(d, e) /\ rows' = rows /\ sent' = sent
    BY <1>4 DEF RecordAttempt, ghosts
  <2> HIDE DEF e
  <2>3. sent'[d.n] + Bit(e.phase = "claimed") <= sent[d.n] + Bit(d.phase = "claimed")
    <3>1. sent[d.n] \in Nat
      BY <1>1 DEF TypeInv, TypeOK
    <3> QED BY <2>1, <2>2, <3>1 DEF Bit
  <2> QED BY <2>1, <2>2, <2>3, GoesOnRoom
<1>5. /\ rows[d.n] \in Row /\ d.no \in Nat /\ d.max = rows[d.n].max
      /\ Weight(d) \in Nat /\ MostRequests[d.max - d.no] \in Nat
  <2>1. d.max - d.no \in 0..MaxBudget
    BY <1>1, BoundAssumption DEF Budgeted
  <2>2. MostRequests[d.max - d.no] \in Nat
    BY <2>1, MostRequestsFacts
  <2>3. d.max = rows[d.n].max /\ d.no \in Nat
    BY <1>1 DEF Budgeted, Delivery
  <2> QED BY <1>1, <2>2, <2>3 DEF Weight, Bit, TypeInv, TypeOK
<1>6. ASSUME NEW s \in {"succeeded", "dead"}
      PROVE  /\ Released(d, s) \in Row /\ Released(d, s).status = s
             /\ Released(d, s).max = rows[d.n].max
             /\ Planned(Released(d, s)) = 0
  <2>1. /\ Released(d, s) \in Row /\ Released(d, s).status = s
        /\ Released(d, s).max = rows[d.n].max
    BY <1>5 DEF Released, Row, Status, Lease
  <2> QED BY <2>1 DEF Planned
<1>7. CASE FinishSuccess(d)
  <2>1. WriteBack(d, Released(d, "succeeded"))
    BY <1>7 DEF FinishSuccess
  <2> QED BY <1>5, <1>6, <2>1, WriteBackRoom
<1>8. CASE FinishDead(d)
  <2>1. WriteBack(d, Released(d, "dead"))
    BY <1>8 DEF FinishDead
  <2> QED BY <1>5, <1>6, <2>1, WriteBackRoom
<1>9. CASE ScheduleRetry(d)
  <2> DEFINE row == [Released(d, "pending") EXCEPT !.due = FALSE]
  <2>1. /\ row \in Row /\ row.status = "pending" /\ row.max = rows[d.n].max
        /\ row.attempt = d.no
    BY <1>5 DEF Released, Row, Status, Lease
  <2>2. WriteBack(d, row) /\ d.no < d.max
    BY <1>9 DEF ScheduleRetry
  <2> HIDE DEF row
  <2>3. Planned(row) = MostRequests[d.max - d.no]
    BY <1>5, <2>1 DEF Planned
  <2>4. Planned(row) <= Weight(d)
    BY <1>5, <2>3 DEF Weight, Bit
  <2> QED BY <1>5, <2>1, <2>2, <2>4, WriteBackRoom
<1>10. CASE WriteBackFails(d)
  <2>1. rows' = rows /\ sent' = sent /\ DeliveriesOf(n)' \subseteq DeliveriesOf(n)
    BY <1>10 DEF WriteBackFails, DeliveriesOf
  <2> QED BY <2>1, WorkersWeigh, ShrinkingRoom DEF Budgeted
<1> QED BY <1>2, <1>3, <1>4, <1>7, <1>8, <1>9, <1>10 DEF DeliveryStep

\* An operator's cancel, the passing of time and a crash hand out no requests.
LEMMA QuietRoom ==
    ASSUME TypeInv, TypeInv', NEW n \in Notifications, Budgeted(n), Room(n),
           \/ \E m \in Notifications : Cancel(m) \/ BecomeDue(m) \/ LeaseExpires(m)
           \/ \E i \in Instances : Crash(i)
    PROVE  Budgeted(n)' /\ Room(n)'
<1>1. rows[n] \in Row
  BY DEF TypeInv, TypeOK
<1>2. ASSUME NEW m \in Notifications, Cancel(m)
      PROVE  Budgeted(n)' /\ Room(n)'
  <2>1. deliveries' = deliveries /\ sent' = sent
    BY <1>2 DEF Cancel, ghosts
  <2>2. CASE n # m
    BY <1>2, <2>1, <2>2, SameRoom DEF Cancel, DeliveriesOf, TypeInv, TypeOK
  <2>3. CASE n = m
    <3>1. rows'[n].status = "canceled" /\ rows'[n].max = rows[n].max
      BY <1>1, <1>2, <2>3 DEF Cancel, TypeInv, TypeOK, Row
    <3>2. Planned(rows'[n]) = 0
      BY <3>1 DEF Planned
    <3> QED BY <2>1, <3>1, <3>2, WorkersWeigh, RowRoom
  <2> QED BY <2>2, <2>3
<1>3. ASSUME NEW m \in Notifications, BecomeDue(m) \/ LeaseExpires(m)
      PROVE  Budgeted(n)' /\ Room(n)'
  <2>1. deliveries' = deliveries /\ sent' = sent
    BY <1>3 DEF BecomeDue, LeaseExpires, ghosts
  <2>2. /\ rows'[n].status = rows[n].status /\ rows'[n].max = rows[n].max
        /\ rows'[n].attempt = rows[n].attempt
    BY <1>1, <1>3 DEF BecomeDue, LeaseExpires, TypeInv, TypeOK, Row
  <2>3. Planned(rows'[n]) = Planned(rows[n])
    BY <2>2 DEF Planned
  <2>4. rows'[n].status \in {"pending", "in_flight"} => rows'[n].attempt < rows'[n].max
    BY <2>2 DEF Budgeted
  <2> QED BY <2>1, <2>2, <2>3, <2>4, WorkersWeigh, RowRoom
<1>4. ASSUME NEW i \in Instances, Crash(i)
      PROVE  Budgeted(n)' /\ Room(n)'
  <2>1. rows' = rows /\ sent' = sent /\ DeliveriesOf(n)' \subseteq DeliveriesOf(n)
    BY <1>4 DEF Crash, DeliveriesOf
  <2> QED BY <2>1, WorkersWeigh, ShrinkingRoom DEF Budgeted
<1> QED BY <1>2, <1>3, <1>4

LEMMA OverrunStep == OverrunInv /\ [Next]_vars => OverrunInv'
<1> SUFFICES ASSUME OverrunInv, [Next]_vars
             PROVE  OverrunInv'
  OBVIOUS
<1>1. TypeInv /\ TypeInv' /\ OwnClaim /\ OwnClaim' /\ NoneYet'
  BY TypeStep, ClaimsStayApart DEF OverrunInv
<1>2. ASSUME requeues' = 0, NEW n \in Notifications
      PROVE  Budgeted(n)' /\ Room(n)'
  <2>1. requeues = 0 /\ ~ \E m \in Notifications, extra \in 1..MaxExtra : Requeue(m, extra)
    <3>1. requeues \in Nat
      BY <1>1 DEF TypeInv, TypeOK
    <3>2. ASSUME NEW m \in Notifications, NEW extra \in 1..MaxExtra, Requeue(m, extra)
          PROVE  FALSE
      BY <1>2, <3>1, <3>2 DEF Requeue
    <3>3. CASE requeues' = requeues
      BY <1>2, <3>2, <3>3
    <3>4. CASE requeues' # requeues
      BY <3>2, <3>4 DEF Next, Enqueue, BecomeDue, LeaseExpires, Cancel, Claim, Crash,
         DeliveryStep, Send, RefuseUnsent, Answer, RecordAttempt, FinishSuccess, FinishDead,
         ScheduleRetry, WriteBackFails, WriteBack, RecoverExpiredLeases, ghosts, vars
    <3> QED BY <3>3, <3>4
  <2>2. \A m \in Notifications : Budgeted(m) /\ Room(m)
    BY <2>1 DEF OverrunInv
  <2>3. ASSUME NEW m \in Notifications, NEW budget \in 1..MaxBudget, Enqueue(m, budget)
        PROVE  Budgeted(n)' /\ Room(n)'
    BY <1>1, <2>2, <2>3, EnqueueRoom
  <2>4. ASSUME NEW m \in Notifications, Cancel(m) \/ BecomeDue(m) \/ LeaseExpires(m)
        PROVE  Budgeted(n)' /\ Room(n)'
    BY <1>1, <2>2, <2>4, QuietRoom
  <2>5. ASSUME NEW i \in Instances, Crash(i)
        PROVE  Budgeted(n)' /\ Room(n)'
    BY <1>1, <2>2, <2>5, QuietRoom
  <2>6. ASSUME NEW i \in Instances, NEW batch \in SUBSET Notifications, Claim(i, batch)
        PROVE  Budgeted(n)' /\ Room(n)'
    BY <1>1, <2>2, <2>6, ClaimRoom
  <2>7. ASSUME NEW d \in deliveries, DeliveryStep(d)
        PROVE  Budgeted(n)' /\ Room(n)'
    BY <1>1, <2>2, <2>7, WorkerRoom
  <2>8. CASE RecoverExpiredLeases
    BY <1>1, <2>2, <2>8, RecoverRoom
  <2>9. CASE UNCHANGED vars
    BY <2>2, <2>9, SameRoom DEF vars, DeliveriesOf
  <2> QED BY <2>1, <2>3, <2>4, <2>5, <2>6, <2>7, <2>8, <2>9 DEF Next
<1> QED BY <1>1, <1>2 DEF OverrunInv

\* However often leases expire under live workers, and in whatever order reaper and late
\* results write the rows, a notification is requested at most as often as its budget can
\* come to, as long as no operator requeues.
THEOREM OverrunsEnd == Spec => []OverrunsAreBounded
<1>1. OverrunInv => OverrunsAreBounded
  <2> SUFFICES ASSUME OverrunInv, requeues = 0, NEW n \in Notifications
               PROVE  sent[n] <= MostRequests[rows[n].max]
    BY DEF OverrunsAreBounded
  <2>1. TypeInv /\ Budgeted(n) /\ Room(n)
    BY DEF OverrunInv
  <2> DEFINE T == Total(DeliveriesOf(n))
  <2>2. /\ T \in Nat /\ sent[n] \in Nat /\ Planned(rows[n]) \in Nat
        /\ MostRequests[rows[n].max] \in Nat
    BY <2>1, WorkersWeigh
  <2>3. sent[n] + T + Planned(rows[n]) <= MostRequests[rows[n].max]
    BY <2>1 DEF Room
  <2> HIDE DEF T
  <2> QED BY <2>2, <2>3
<1> QED BY <1>1, OverrunInit, OverrunStep, PTL DEF Spec

================================================================================
