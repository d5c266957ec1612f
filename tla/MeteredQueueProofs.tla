-------------------------- MODULE MeteredQueueProofs --------------------------
(***************************************************************************)
(* Every dead letter is counted, for every number of notifications and     *)
(* processes.                                                              *)
(***************************************************************************)
EXTENDS MeteredQueue, NotifyQueueOverrunProofs

-------------------------------------------------------------------------------
(* The inductive invariant. A worker that has written back is gone from the      *)
(* deliveries, and its claim is never handed out again: no settled delivery is   *)
(* counted twice.                                                                *)

Finisher == [n : Notifications, claim : Nat, owner : Instances,
             series : {"succeeded", "dead"}]

MeterTypes ==
    /\ counters \in [Instances -> [Series -> Nat]]
    /\ finishing \subseteq Finisher /\ IsFiniteSet(finishing)
    /\ recovering \in [Instances -> Nat]
    /\ entries \in [{"succeeded", "dead"} -> Nat]
    /\ forgotten \in [Series -> Nat]

Written ==
    \A f \in finishing :
        /\ f.claim <= claims[f.n]
        /\ \A d \in deliveries : d.n = f.n => d.claim # f.claim

MeterInv == ResultInv /\ MeterTypes /\ Written /\ DeadLettersCounted

\* The finishing workers of a process that will count in series s.
Owing(i, s) == {f \in finishing : f.owner = i /\ f.series = s}

\* What process i has counted in series s and still has to count.
HeldBy(i, s) == counters[i][s] + OwedBy(i, s)

LEMMA HeldFacts ==
    ASSUME MeterTypes, NEW i \in Instances, NEW s \in Series
    PROVE  /\ IsFiniteSet(Owing(i, s)) /\ Cardinality(Owing(i, s)) \in Nat
           /\ counters[i][s] \in Nat /\ OwedBy(i, s) \in Nat /\ HeldBy(i, s) \in Nat
<1>1. IsFiniteSet(Owing(i, s))
  <2>1. Owing(i, s) \in SUBSET finishing
    BY DEF Owing
  <2> QED BY <2>1, FS_Subset DEF MeterTypes
<1>2. Cardinality(Owing(i, s)) \in Nat
  BY <1>1, FS_CardinalityType
<1>3. OwedBy(i, s) = IF s = "recovered" THEN recovering[i] ELSE Cardinality(Owing(i, s))
  BY DEF OwedBy, Owing
<1>4. counters[i][s] \in Nat /\ recovering[i] \in Nat
  BY DEF MeterTypes
<1>5. OwedBy(i, s) \in Nat
  BY <1>2, <1>3, <1>4
<1> QED BY <1>1, <1>2, <1>4, <1>5 DEF HeldBy

LEMMA HeldStaysNumber ==
    MeterTypes' => \A i \in Instances, s \in Series : HeldBy(i, s)' \in Nat
<1>1. MeterTypes => \A i \in Instances, s \in Series : HeldBy(i, s) \in Nat
  BY HeldFacts
<1>2. (MeterTypes => \A i \in Instances, s \in Series : HeldBy(i, s) \in Nat)'
  BY <1>1, PTL
<1> QED BY <1>2

LEMMA OwedStaysNumber ==
    MeterTypes' => \A i \in Instances, s \in Series : OwedBy(i, s)' \in Nat
<1>1. MeterTypes => \A i \in Instances, s \in Series : OwedBy(i, s) \in Nat
  BY HeldFacts
<1>2. (MeterTypes => \A i \in Instances, s \in Series : OwedBy(i, s) \in Nat)'
  BY <1>1, PTL
<1> QED BY <1>2

LEMMA TallyFacts ==
    ASSUME MeterTypes, NEW s \in Series
    PROVE  /\ Held(s) = [i \in Instances |-> HeldBy(i, s)]
           /\ Held(s) \in [Instances -> Nat]
           /\ SumFunction(Held(s)) \in Nat /\ Tally(s) \in Nat
<1>1. Held(s) = [i \in Instances |-> HeldBy(i, s)]
  BY DEF Held, HeldBy
<1>2. Held(s) \in [Instances -> Nat]
  BY <1>1, HeldFacts
<1>3. SumFunction(Held(s)) \in Nat
  BY <1>2, InstancesAssumption, SumIsNumber
<1> QED BY <1>1, <1>2, <1>3 DEF Tally, MeterTypes

LEMMA TallyIsNumber == (MeterTypes => \A s \in Series : Tally(s) \in Nat)'
<1>1. MeterTypes => \A s \in Series : Tally(s) \in Nat
  BY TallyFacts
<1> QED BY <1>1, PTL

\* A step that leaves every process but one alone changes the tally by what it changes
\* there and in what the dead have counted.
LEMMA TallyFollows ==
    ASSUME MeterTypes, MeterTypes', NEW s \in Series, NEW i \in Instances,
           \A j \in Instances \ {i} : HeldBy(j, s)' = HeldBy(j, s)
    PROVE  Tally(s)' + HeldBy(i, s) + forgotten[s] =
               Tally(s) + HeldBy(i, s)' + forgotten'[s]
<1>1. /\ Held(s) = [j \in Instances |-> HeldBy(j, s)]
      /\ Held(s) \in [Instances -> Nat]
      /\ SumFunction(Held(s)) \in Nat
  BY TallyFacts
<1>2. /\ Held(s)' = [j \in Instances |-> HeldBy(j, s)']
      /\ Held(s)' \in [Instances -> Nat]
      /\ SumFunction(Held(s)') \in Nat
  <2>1. Held(s)' = [j \in Instances |-> HeldBy(j, s)']
    BY DEF Held, HeldBy
  <2>2. \A j \in Instances : HeldBy(j, s)' \in Nat
    BY HeldStaysNumber
  <2>3. Held(s)' \in [Instances -> Nat]
    BY <2>1, <2>2
  <2> QED BY <2>1, <2>3, InstancesAssumption, SumIsNumber
<1> DEFINE f == Held(s)
           g == Held(s)'
<1>3. \A j \in Instances \ {i} : f[j] = g[j]
  BY <1>1, <1>2
<1>4. f[i] = HeldBy(i, s) /\ g[i] = HeldBy(i, s)'
  BY <1>1, <1>2
<1>5. f \in [Instances -> Nat] /\ g \in [Instances -> Nat]
  BY <1>1, <1>2
<1>6. SumFunction(f) \in Nat /\ SumFunction(g) \in Nat
  BY <1>1, <1>2
<1>7. Tally(s) = forgotten[s] + SumFunction(f) /\ Tally(s)' = forgotten'[s] + SumFunction(g)
  BY DEF Tally
<1>8. forgotten[s] \in Nat /\ forgotten'[s] \in Nat
  BY DEF MeterTypes
<1> HIDE DEF f, g
<1>9. SumFunction(g) + f[i] = SumFunction(f) + g[i]
  BY <1>3, <1>5, InstancesAssumption, OneTermChanges
<1>10. f[i] \in Nat /\ g[i] \in Nat
  BY <1>5
<1> QED BY <1>4, <1>6, <1>7, <1>8, <1>9, <1>10

LEMMA TallyStays ==
    ASSUME NEW s, UNCHANGED <<counters, finishing, recovering, forgotten>>
    PROVE  Tally(s)' = Tally(s)
BY DEF Tally, Held, OwedBy

\* What a worker between its write-back and its Inc adds to the debt of its process.
LEMMA OneMoreOwed ==
    ASSUME MeterTypes, NEW f \in Finisher, f \notin finishing,
           finishing' = finishing \cup {f}, recovering' = recovering,
           NEW i \in Instances, NEW s \in Series
    PROVE  OwedBy(i, s)' = OwedBy(i, s) + Bit(i = f.owner /\ s = f.series)
<1>1. f.series # "recovered"
  BY DEF Finisher
<1>2. CASE s = "recovered"
  <2>1. /\ OwedBy(i, s) = recovering[i] /\ OwedBy(i, s)' = recovering[i]
        /\ recovering[i] \in Nat
    BY <1>2 DEF OwedBy, MeterTypes
  <2> QED BY <1>1, <1>2, <2>1 DEF Bit
<1>3. CASE s # "recovered"
  <2>1. OwedBy(i, s) = Cardinality(Owing(i, s)) /\ OwedBy(i, s)' = Cardinality(Owing(i, s)')
    BY <1>3 DEF OwedBy, Owing
  <2>2. IsFiniteSet(Owing(i, s)) /\ Cardinality(Owing(i, s)) \in Nat /\ f \notin Owing(i, s)
    BY HeldFacts DEF Owing
  <2>3. CASE i = f.owner /\ s = f.series
    <3>1. Owing(i, s)' = Owing(i, s) \cup {f}
      BY <2>3 DEF Owing
    <3> QED BY <2>1, <2>2, <2>3, <3>1, FS_AddElement DEF Bit
  <2>4. CASE ~(i = f.owner /\ s = f.series)
    <3>1. Owing(i, s)' = Owing(i, s)
      BY <2>4 DEF Owing
    <3> QED BY <2>1, <2>2, <2>4, <3>1 DEF Bit
  <2> QED BY <2>3, <2>4
<1> QED BY <1>2, <1>3

LEMMA OneLessOwed ==
    ASSUME MeterTypes, NEW f \in finishing,
           finishing' = finishing \ {f}, recovering' = recovering,
           NEW i \in Instances, NEW s \in Series
    PROVE  OwedBy(i, s)' + Bit(i = f.owner /\ s = f.series) = OwedBy(i, s)
<1>1. f.series # "recovered"
  BY DEF MeterTypes, Finisher
<1>2. CASE s = "recovered"
  <2>1. /\ OwedBy(i, s) = recovering[i] /\ OwedBy(i, s)' = recovering[i]
        /\ recovering[i] \in Nat
    BY <1>2 DEF OwedBy, MeterTypes
  <2> QED BY <1>1, <1>2, <2>1 DEF Bit
<1>3. CASE s # "recovered"
  <2>1. OwedBy(i, s) = Cardinality(Owing(i, s)) /\ OwedBy(i, s)' = Cardinality(Owing(i, s)')
    BY <1>3 DEF OwedBy, Owing
  <2>2. IsFiniteSet(Owing(i, s)) /\ Cardinality(Owing(i, s)) \in Nat
    BY HeldFacts
  <2>3. CASE i = f.owner /\ s = f.series
    <3>1. Owing(i, s)' = Owing(i, s) \ {f} /\ f \in Owing(i, s)
      BY <2>3 DEF Owing
    <3>2. Cardinality(Owing(i, s) \ {f}) = Cardinality(Owing(i, s)) - 1
      BY <2>2, <3>1, FS_RemoveElement
    <3> QED BY <2>1, <2>2, <2>3, <3>1, <3>2 DEF Bit
  <2>4. CASE ~(i = f.owner /\ s = f.series)
    <3>1. Owing(i, s)' = Owing(i, s)
      BY <2>4 DEF Owing
    <3> QED BY <2>1, <2>2, <2>4, <3>1 DEF Bit
  <2> QED BY <2>3, <2>4
<1> QED BY <1>2, <1>3

-------------------------------------------------------------------------------
(* The steps, one after the other. *)

Ended == {"succeeded", "dead"}

LEMMA EntriesFollow ==
    ASSUME MeterTypes, NoteEntries
    PROVE  /\ entries' \in [Ended -> Nat]
           /\ \A s \in Ended : /\ IsFiniteSet(Entering(s)) /\ Cardinality(Entering(s)) \in Nat
                               /\ entries[s] \in Nat
                               /\ entries'[s] = entries[s] + Cardinality(Entering(s))
<1>1. ASSUME NEW s \in Ended
      PROVE  IsFiniteSet(Entering(s)) /\ Cardinality(Entering(s)) \in Nat
  <2>1. Entering(s) \in SUBSET Notifications
    BY DEF Entering
  <2> QED BY <2>1, NotificationsAssumption, FS_Subset, FS_CardinalityType
<1>2. \A s \in Ended : entries[s] \in Nat
  BY DEF MeterTypes, Ended
<1>3. entries' = [s \in Ended |-> entries[s] + Cardinality(Entering(s))]
  BY DEF NoteEntries, Ended
<1>4. \A s \in Ended : entries[s] + Cardinality(Entering(s)) \in Nat
  BY <1>1, <1>2
<1> QED BY <1>1, <1>2, <1>3, <1>4

\* A step that ends no notification and touches no counter.
LEMMA QuietMeters ==
    ASSUME MeterInv, NoteEntries, \A s \in Ended : Entering(s) = {},
           UNCHANGED <<counters, finishing, recovering, forgotten>>
    PROVE  MeterTypes' /\ DeadLettersCounted'
<1>1. \A s \in Ended : entries'[s] = entries[s]
  BY EntriesFollow, FS_EmptySet DEF MeterInv
<1>2. entries' \in [Ended -> Nat]
  BY EntriesFollow DEF MeterInv
<1>3. \A s \in Series : Tally(s)' = Tally(s)
  BY TallyStays
<1>4. MeterTypes'
  BY <1>2 DEF MeterInv, MeterTypes, Ended
<1>5. DeadLettersCounted'
  BY <1>1, <1>3 DEF MeterInv, DeadLettersCounted, Ended, Series
<1> QED BY <1>4, <1>5

\* The bounds survive when tallies and entries grow alike.
LEMMA CountsStay ==
    ASSUME MeterTypes, MeterTypes', DeadLettersCounted,
           NEW a \in Nat, NEW b \in Nat, NEW c \in Nat, NEW k \in Nat, b <= k, k <= b + c,
           Tally("succeeded")' = Tally("succeeded") + a,
           Tally("dead")' = Tally("dead") + b,
           Tally("recovered")' = Tally("recovered") + c,
           entries'["succeeded"] = entries["succeeded"] + a,
           entries'["dead"] = entries["dead"] + k
    PROVE  DeadLettersCounted'
<1>1. /\ Tally("succeeded") \in Nat /\ Tally("dead") \in Nat /\ Tally("recovered") \in Nat
      /\ entries["succeeded"] \in Nat /\ entries["dead"] \in Nat
  BY TallyFacts DEF Series, MeterTypes
<1> QED BY <1>1 DEF DeadLettersCounted

\* Deliveries end or go on: their claims stay used.
LEMMA WrittenStays ==
    ASSUME Written, claims' = claims, finishing' \subseteq finishing,
           \A d \in deliveries' : \E e \in deliveries : e.n = d.n /\ e.claim = d.claim
    PROVE  Written'
BY DEF Written

LEMMA ElsewhereMeters ==
    ASSUME MeterInv, Elsewhere
    PROVE  MeterTypes' /\ Written' /\ DeadLettersCounted'
<1>1. rows \in [Notifications -> Row]
  BY DEF MeterInv, ResultInv, TypeInv, TypeOK
<1>2. NoteEntries /\ UNCHANGED <<counters, finishing, recovering, forgotten>>
  BY DEF Elsewhere
<1>3. ASSUME NEW n \in Notifications,
             \/ \E budget \in 1..MaxBudget : Enqueue(n, budget)
             \/ BecomeDue(n)
             \/ LeaseExpires(n)
             \/ \E extra \in 1..MaxExtra : Requeue(n, extra)
             \/ Cancel(n)
      PROVE  (\A s \in Ended : Entering(s) = {}) /\ Written'
  <2>1. deliveries' = deliveries /\ claims' = claims
    BY <1>3 DEF Enqueue, BecomeDue, LeaseExpires, Requeue, Cancel, ghosts
  <2>2. Written'
    BY <1>2, <2>1, WrittenStays DEF MeterInv
  <2>3. ASSUME NEW s \in Ended, NEW m \in Notifications, rows[m].status # s
        PROVE  rows'[m].status # s
    <3>1. CASE m # n
      BY <1>1, <1>3, <2>3, <3>1 DEF Enqueue, BecomeDue, LeaseExpires, Requeue, Cancel
    <3>2. CASE m = n
      <4>1. rows[n] \in Row /\ rows[n].status # s /\ s \notin {"pending", "canceled"}
        BY <1>1, <2>3, <3>2 DEF Ended
      <4>2. CASE \E budget \in 1..MaxBudget : Enqueue(n, budget)
        BY <1>1, <3>2, <4>1, <4>2 DEF Enqueue
      <4>3. CASE BecomeDue(n) \/ LeaseExpires(n)
        BY <1>1, <3>2, <4>1, <4>3 DEF BecomeDue, LeaseExpires, Row
      <4>4. CASE (\E extra \in 1..MaxExtra : Requeue(n, extra)) \/ Cancel(n)
        BY <1>1, <3>2, <4>1, <4>4 DEF Requeue, Cancel, Row
      <4> QED BY <1>3, <4>2, <4>3, <4>4
    <3> QED BY <3>1, <3>2
  <2> QED BY <2>2, <2>3 DEF Entering
<1>4. ASSUME NEW i \in Instances, NEW batch \in SUBSET Notifications, Claim(i, batch)
      PROVE  (\A s \in Ended : Entering(s) = {}) /\ Written'
  <2>1. ASSUME NEW s \in Ended, NEW m \in Notifications, rows[m].status # s
        PROVE  rows'[m].status # s
    <3>1. rows'[m] = IF m \in batch THEN Claimed(rows[m], i) ELSE rows[m]
      BY <1>4 DEF Claim
    <3>2. Claimed(rows[m], i).status = "in_flight"
      BY <1>1 DEF Claimed, Row
    <3> QED BY <2>1, <3>1, <3>2 DEF Ended
  <2>2. ASSUME NEW f \in finishing'
        PROVE  f.claim <= claims'[f.n] /\ \A d \in deliveries' : d.n = f.n => d.claim # f.claim
    <3>1. f \in finishing /\ f \in Finisher
      BY <1>2, <2>2 DEF MeterInv, MeterTypes
    <3>2. f.n \in Notifications /\ f.claim \in Nat
      BY <3>1 DEF Finisher
    <3>3. /\ claims[f.n] \in Nat /\ f.claim <= claims[f.n]
          /\ claims'[f.n] = IF f.n \in batch THEN claims[f.n] + 1 ELSE claims[f.n]
      BY <1>4, <3>1, <3>2 DEF MeterInv, ResultInv, TypeInv, TypeOK, Written, Claim
    <3>4. ASSUME NEW d \in deliveries', d.n = f.n PROVE d.claim # f.claim
      <4>1. CASE d \in deliveries
        BY <3>1, <3>4, <4>1 DEF MeterInv, Written
      <4>2. CASE d \notin deliveries
        <5>1. PICK n \in batch : d = NewDelivery(n, i)
          BY <1>4, <4>2 DEF Claim
        <5>2. d.n = n /\ d.claim = claims[n] + 1
          BY <5>1 DEF NewDelivery
        <5> QED BY <3>2, <3>3, <3>4, <5>2
      <4> QED BY <4>1, <4>2
    <3>5. f.claim <= claims'[f.n]
      BY <3>2, <3>3
    <3> QED BY <3>4, <3>5
  <2> QED BY <2>1, <2>2 DEF Entering, Written
<1>5. (\A s \in Ended : Entering(s) = {}) /\ Written'
  BY <1>3, <1>4 DEF Elsewhere
<1> QED BY <1>2, <1>5, QuietMeters

\* A worker's step that settles nothing.
LEMMA UncountedMeters ==
    ASSUME MeterInv, NEW d \in deliveries, UncountedStep(d), NoteEntries,
           UNCHANGED <<counters, recovering, forgotten>>
    PROVE  MeterTypes' /\ Written' /\ DeadLettersCounted'
<1>1. TypeInv /\ NoneYet /\ DeliveryStep(d) /\ finishing' = finishing
  BY DEF MeterInv, ResultInv, UncountedStep, DeliveryStep
<1>2. /\ claims' = claims
      /\ \A e \in deliveries' : \E g \in deliveries : g.n = e.n /\ g.claim = e.claim
  BY <1>1, WorkerGoesOn DEF Advance
<1>3. Written'
  BY <1>1, <1>2, WrittenStays DEF MeterInv
<1>4. ASSUME NEW s \in Ended, NEW m \in Notifications, rows[m].status # s
      PROVE  rows'[m].status # s
  <2>1. CASE rows' = rows
    BY <1>4, <2>1
  <2>2. CASE ScheduleRetry(d)
    <3>1. /\ rows \in [Notifications -> Row] /\ d \in Delivery
          /\ rows' = IF Owned(d)
                     THEN [rows EXCEPT ![d.n] = [Released(d, "pending") EXCEPT !.due = FALSE]]
                     ELSE rows
      BY <1>1, <2>2 DEF TypeInv, TypeOK, ScheduleRetry, WriteBack
    <3>2. [Released(d, "pending") EXCEPT !.due = FALSE].status = "pending"
      BY <3>1 DEF Released, Row, Delivery
    <3>3. CASE m = d.n
      BY <1>4, <3>1, <3>2, <3>3 DEF Ended
    <3>4. CASE m # d.n
      BY <1>4, <3>1, <3>4
    <3> QED BY <3>3, <3>4
  <2> QED BY <2>1, <2>2
      DEF UncountedStep, Send, RefuseUnsent, Answer, RecordAttempt, WriteBackFails
<1>5. \A s \in Ended : Entering(s) = {}
  BY <1>4 DEF Entering
<1> QED BY <1>1, <1>3, <1>5, QuietMeters

\* A write-back of a terminal status: the row enters it, and its worker owes a count.
LEMMA FinishMeters ==
    ASSUME MeterInv, NEW d \in deliveries, NEW s \in Ended,
           WriteBack(d, Released(d, s)), WillCount(d, s), NoteEntries,
           UNCHANGED <<counters, recovering, forgotten>>
    PROVE  MeterTypes' /\ Written' /\ DeadLettersCounted'
<1> DEFINE f == [n |-> d.n, claim |-> d.claim, owner |-> d.owner, series |-> s]
<1>1. /\ rows \in [Notifications -> Row] /\ claims' = claims
      /\ d \in Delivery /\ deliveries' = deliveries \ {d} /\ MeterTypes
  BY DEF MeterInv, ResultInv, TypeInv, TypeOK, WriteBack
<1>2. f \in Finisher /\ f.n = d.n /\ f.claim = d.claim /\ f.owner = d.owner /\ f.series = s
  BY <1>1 DEF Finisher, Delivery, Ended
<1>3. CASE ~Owned(d)
  <2>1. rows' = rows /\ finishing' = finishing
    BY <1>3 DEF WriteBack, WillCount
  <2>2. \A t \in Ended : Entering(t) = {}
    BY <2>1 DEF Entering
  <2>3. Written'
    BY <1>1, <2>1, WrittenStays DEF MeterInv
  <2> QED BY <2>1, <2>2, <2>3, QuietMeters
<1>4. CASE Owned(d)
  <2>1. rows' = [rows EXCEPT ![d.n] = Released(d, s)] /\ finishing' = finishing \cup {f}
    BY <1>4 DEF WriteBack, WillCount
  <2>2. f \notin finishing /\ d.claim <= claims[d.n]
    BY <1>2 DEF MeterInv, ResultInv, OwnClaim, Written
  <2> HIDE DEF f
  <2>3. MeterTypes'
    <3>1. finishing' \subseteq Finisher
      BY <1>1, <1>2, <2>1 DEF MeterTypes
    <3>2. IsFiniteSet(finishing')
      BY <1>1, <2>1, FS_AddElement DEF MeterTypes
    <3>3. entries' \in [Ended -> Nat]
      BY <1>1, EntriesFollow
    <3> QED BY <1>1, <3>1, <3>2, <3>3 DEF MeterTypes, Ended
  <2>4. Written'
    <3>1. ASSUME NEW e \in deliveries', e.n = f.n PROVE e.claim # f.claim
      BY <1>1, <1>2, <3>1 DEF MeterInv, ResultInv, OwnClaim
    <3> QED BY <1>1, <1>2, <2>1, <2>2, <3>1 DEF MeterInv, Written
  <2>5. \A t \in Series : Tally(t)' = Tally(t) + Bit(t = s)
    <3> SUFFICES ASSUME NEW t \in Series PROVE Tally(t)' = Tally(t) + Bit(t = s)
      OBVIOUS
    <3>1. \A i \in Instances : OwedBy(i, t)' = OwedBy(i, t) + Bit(i = d.owner /\ t = s)
      BY <1>1, <1>2, <2>1, <2>2, OneMoreOwed
    <3>2. d.owner \in Instances
      BY <1>1 DEF Delivery
    <3>3. \A i \in Instances : /\ counters[i][t] \in Nat /\ OwedBy(i, t) \in Nat
                               /\ HeldBy(i, t) \in Nat
      BY <1>1, HeldFacts
    <3>4. \A i \in Instances : HeldBy(i, t)' = HeldBy(i, t) + Bit(i = d.owner /\ t = s)
      BY <3>1, <3>3 DEF HeldBy, Bit
    <3>5. \A i \in Instances \ {d.owner} : HeldBy(i, t)' = HeldBy(i, t)
      BY <3>3, <3>4 DEF Bit
    <3>6. HeldBy(d.owner, t)' = HeldBy(d.owner, t) + Bit(t = s)
      BY <3>2, <3>4 DEF Bit
    <3>7. Tally(t)' + HeldBy(d.owner, t) + forgotten[t] =
              Tally(t) + HeldBy(d.owner, t)' + forgotten'[t]
      BY <1>1, <2>3, <3>2, <3>5, TallyFollows
    <3>8. /\ Tally(t) \in Nat /\ Tally(t)' \in Nat
         /\ forgotten[t] \in Nat /\ forgotten'[t] = forgotten[t]
      BY <1>1, <2>3, TallyFacts, TallyIsNumber DEF MeterTypes
    <3> QED BY <3>2, <3>3, <3>6, <3>7, <3>8 DEF Bit
  <2>6. \A t \in Ended : entries'[t] = entries[t] + Bit(t = s)
    <3> SUFFICES ASSUME NEW t \in Ended PROVE Cardinality(Entering(t)) = Bit(t = s)
      BY <1>1, EntriesFollow
    <3>1. Released(d, s).status = s /\ rows[d.n].status = "in_flight" /\ d.n \in Notifications
      BY <1>1, <1>4 DEF Released, Row, Delivery, Owned
    <3>2. /\ rows'[d.n] = Released(d, s)
          /\ \A m \in Notifications \ {d.n} : rows'[m] = rows[m]
      BY <1>1, <2>1, <3>1
    <3>3. CASE t = s
      <4>1. Entering(t) = {d.n}
        BY <3>1, <3>2, <3>3 DEF Entering, Ended
      <4> QED BY <3>3, <4>1, FS_Singleton DEF Bit
    <3>4. CASE t # s
      <4>1. Entering(t) = {}
        BY <3>1, <3>2, <3>4 DEF Entering, Ended
      <4> QED BY <3>4, <4>1, FS_EmptySet DEF Bit
    <3> QED BY <3>3, <3>4
  <2>7. DeadLettersCounted'
    <3> DEFINE a == Bit(s = "succeeded")
               b == Bit(s = "dead")
    <3>1. /\ a \in Nat /\ b \in Nat /\ b <= b /\ b <= b + 0
          /\ Tally("succeeded")' = Tally("succeeded") + a
          /\ Tally("dead")' = Tally("dead") + b
          /\ Tally("recovered")' = Tally("recovered") + 0
          /\ entries'["succeeded"] = entries["succeeded"] + a
          /\ entries'["dead"] = entries["dead"] + b
      BY <2>5, <2>6 DEF Bit, Series, Ended
    <3> HIDE DEF a, b
    <3> QED BY <1>1, <2>3, <3>1, CountsStay DEF MeterInv
  <2> QED BY <2>3, <2>4, <2>7
<1> QED BY <1>3, <1>4

\* Nothing is counted or owed anew: the tallies are what they were.
LEMMA HeldStays ==
    ASSUME \A i \in Instances, t \in Series : HeldBy(i, t)' = HeldBy(i, t),
           forgotten' = forgotten
    PROVE  \A t \in Series : Tally(t)' = Tally(t)
<1> SUFFICES ASSUME NEW t \in Series PROVE Tally(t)' = Tally(t)
  OBVIOUS
<1>1. Held(t) = [i \in Instances |-> HeldBy(i, t)]
  BY DEF Held, HeldBy
<1>2. Held(t)' = [i \in Instances |-> HeldBy(i, t)']
  BY DEF Held, HeldBy
<1>3. Held(t)' = Held(t)
  BY <1>1, <1>2
<1> QED BY <1>3 DEF Tally

\* The counter follows what was owed.
LEMMA PaidMeters ==
    ASSUME MeterInv, MeterTypes', entries' = entries, forgotten' = forgotten,
           \A i \in Instances, t \in Series : HeldBy(i, t)' = HeldBy(i, t)
    PROVE  DeadLettersCounted'
<1>1. \A t \in Series : Tally(t)' = Tally(t)
  BY HeldStays
<1> QED BY <1>1 DEF MeterInv, DeadLettersCounted, Series

LEMMA CountTerminalMeters ==
    ASSUME MeterInv, NEW f \in finishing, CountTerminal(f)
    PROVE  MeterTypes' /\ Written' /\ DeadLettersCounted'
<1>1. /\ MeterTypes /\ f \in Finisher
      /\ counters' = [counters EXCEPT ![f.owner][f.series] = @ + 1]
      /\ finishing' = finishing \ {f} /\ recovering' = recovering
      /\ entries' = entries /\ forgotten' = forgotten
      /\ deliveries' = deliveries /\ claims' = claims
  BY DEF MeterInv, MeterTypes, CountTerminal, Add, vars
<1>2. f.owner \in Instances /\ f.series \in Series
  BY <1>1 DEF Finisher, Series
<1>3. counters \in [Instances -> [Series -> Nat]]
  BY <1>1 DEF MeterTypes
<1>4. ASSUME NEW i \in Instances, NEW t \in Series
      PROVE  counters'[i][t] = counters[i][t] + Bit(i = f.owner /\ t = f.series)
  <2>1. counters[i][t] \in Nat
    BY <1>3
  <2>2. CASE i = f.owner /\ t = f.series
    BY <1>1, <1>2, <1>3, <2>2 DEF Bit
  <2>3. CASE ~(i = f.owner /\ t = f.series)
    BY <1>1, <1>2, <1>3, <2>1, <2>3 DEF Bit
  <2> QED BY <2>2, <2>3
<1>5. counters' \in [Instances -> [Series -> Nat]]
  BY <1>1, <1>2, <1>3
<1>6. IsFiniteSet(finishing') /\ finishing' \subseteq Finisher
  BY <1>1, FS_RemoveElement DEF MeterTypes
<1>7. MeterTypes'
  BY <1>1, <1>5, <1>6 DEF MeterTypes
<1>8. ASSUME NEW i \in Instances, NEW t \in Series PROVE HeldBy(i, t)' = HeldBy(i, t)
  <2>1. OwedBy(i, t)' + Bit(i = f.owner /\ t = f.series) = OwedBy(i, t)
    BY <1>1, OneLessOwed
  <2>2. counters[i][t] \in Nat /\ OwedBy(i, t) \in Nat
    BY <1>1, HeldFacts
  <2>3. OwedBy(i, t)' \in Nat
    BY <1>7, OwedStaysNumber
  <2> QED BY <1>4, <2>1, <2>2, <2>3 DEF HeldBy, Bit
<1>9. Written'
  BY <1>1, WrittenStays DEF MeterInv
<1> QED BY <1>1, <1>7, <1>8, <1>9, PaidMeters

LEMMA CountRecoveredMeters ==
    ASSUME MeterInv, NEW i \in Instances, CountRecovered(i)
    PROVE  MeterTypes' /\ Written' /\ DeadLettersCounted'
<1>1. /\ MeterTypes
      /\ counters' = [counters EXCEPT ![i]["recovered"] = @ + recovering[i]]
      /\ recovering' = [recovering EXCEPT ![i] = 0] /\ finishing' = finishing
      /\ entries' = entries /\ forgotten' = forgotten
      /\ deliveries' = deliveries /\ claims' = claims
  BY DEF MeterInv, MeterTypes, CountRecovered, Add, vars
<1>2. /\ counters \in [Instances -> [Series -> Nat]] /\ recovering \in [Instances -> Nat]
      /\ "recovered" \in Series
  BY <1>1 DEF MeterTypes, Series
<1>3. counters' \in [Instances -> [Series -> Nat]] /\ recovering' \in [Instances -> Nat]
  BY <1>1, <1>2
<1>4. MeterTypes'
  BY <1>1, <1>3 DEF MeterTypes
<1>5. ASSUME NEW j \in Instances, NEW t \in Series PROVE HeldBy(j, t)' = HeldBy(j, t)
  <2>1. CASE j = i /\ t = "recovered"
    <3>1. counters'[j][t] = counters[j][t] + recovering[j] /\ recovering'[j] = 0
      BY <1>1, <1>2, <2>1
    <3>2. OwedBy(j, t) = recovering[j] /\ OwedBy(j, t)' = recovering'[j]
      BY <2>1 DEF OwedBy
    <3>3. counters[j][t] \in Nat /\ recovering[j] \in Nat
      BY <1>2
    <3> QED BY <3>1, <3>2, <3>3 DEF HeldBy
  <2>2. CASE ~(j = i /\ t = "recovered")
    <3>1. counters'[j][t] = counters[j][t]
      BY <1>1, <1>2, <2>2
    <3>2. OwedBy(j, t)' = OwedBy(j, t)
      BY <1>1, <1>2, <2>2 DEF OwedBy
    <3> QED BY <3>1, <3>2 DEF HeldBy
  <2> QED BY <2>1, <2>2
<1>6. Written'
  BY <1>1, WrittenStays DEF MeterInv
<1> QED BY <1>1, <1>4, <1>5, <1>6, PaidMeters

\* The reaper ends at most the rows whose leases it takes, and owes a count of them all.
LEMMA ReapMeters ==
    ASSUME MeterInv, NEW i \in Instances, Reap(i)
    PROVE  MeterTypes' /\ Written' /\ DeadLettersCounted'
<1> DEFINE taken == {n \in Notifications : Expired(n)}
           k == Cardinality(taken)
<1>1. /\ MeterTypes /\ NoteEntries
      /\ recovering[i] = 0 /\ recovering' = [recovering EXCEPT ![i] = k]
      /\ counters' = counters /\ finishing' = finishing /\ forgotten' = forgotten
      /\ deliveries' = deliveries /\ claims' = claims
      /\ rows' = [n \in Notifications |-> IF Expired(n) THEN Recovered(rows[n]) ELSE rows[n]]
  BY DEF MeterInv, Reap, RecoverExpiredLeases, ghosts
<1>2. IsFiniteSet(taken) /\ k \in Nat
  <2>1. taken \in SUBSET Notifications
    OBVIOUS
  <2> HIDE DEF taken
  <2> QED BY <2>1, NotificationsAssumption, FS_Subset, FS_CardinalityType
<1>3. rows \in [Notifications -> Row]
  BY DEF MeterInv, ResultInv, TypeInv, TypeOK
<1>4. Entering("succeeded") = {} /\ Entering("dead") \in SUBSET taken
  <2>1. ASSUME NEW n \in Notifications
        PROVE  Recovered(rows[n]).status \in {"dead", "pending"}
    BY <1>3 DEF Recovered, Row
  <2> QED BY <1>1, <2>1 DEF Entering
<1> HIDE DEF taken
<1>5. Cardinality(Entering("dead")) \in Nat /\ Cardinality(Entering("dead")) <= k
  BY <1>1, <1>2, <1>4, FS_Subset, FS_CardinalityType
<1> HIDE DEF k
<1>6. recovering \in [Instances -> Nat] /\ recovering' \in [Instances -> Nat]
  BY <1>1, <1>2 DEF MeterTypes
<1>7. MeterTypes'
  <2>1. entries' \in [Ended -> Nat]
    BY <1>1, EntriesFollow
  <2> QED BY <1>1, <1>6, <2>1 DEF MeterTypes, Ended
<1>8. ASSUME NEW t \in Series
      PROVE  Tally(t)' = Tally(t) + (IF t = "recovered" THEN k ELSE 0)
  <2>1. counters[i][t] \in Nat /\ HeldBy(i, t) \in Nat
    BY <1>1, HeldFacts
  <2>2. \A j \in Instances \ {i} : HeldBy(j, t)' = HeldBy(j, t)
    BY <1>1, <1>6 DEF HeldBy, OwedBy
  <2>3. HeldBy(i, t)' = HeldBy(i, t) + (IF t = "recovered" THEN k ELSE 0)
    <3>1. CASE t = "recovered"
      <4>1. OwedBy(i, t) = 0 /\ OwedBy(i, t)' = k /\ counters'[i][t] = counters[i][t]
        BY <1>1, <1>6, <3>1 DEF OwedBy
      <4> QED BY <1>2, <2>1, <3>1, <4>1 DEF HeldBy
    <3>2. CASE t # "recovered"
      <4>1. HeldBy(i, t)' = HeldBy(i, t)
        BY <1>1, <3>2 DEF HeldBy, OwedBy
      <4> QED BY <2>1, <3>2, <4>1
    <3> QED BY <3>1, <3>2
  <2>4. Tally(t)' + HeldBy(i, t) + forgotten[t] = Tally(t) + HeldBy(i, t)' + forgotten'[t]
    BY <1>1, <1>7, <2>2, TallyFollows
  <2>5. /\ Tally(t) \in Nat /\ Tally(t)' \in Nat
       /\ forgotten[t] \in Nat /\ forgotten'[t] = forgotten[t]
    BY <1>1, <1>7, TallyFacts, TallyIsNumber DEF MeterTypes
  <2> QED BY <1>2, <2>1, <2>3, <2>4, <2>5
<1>9. DeadLettersCounted'
  <2>1. /\ Tally("succeeded")' = Tally("succeeded") + 0
        /\ Tally("dead")' = Tally("dead") + 0
        /\ Tally("recovered")' = Tally("recovered") + k
    BY <1>8 DEF Series
  <2>2. /\ entries'["succeeded"] = entries["succeeded"] + 0
        /\ entries'["dead"] = entries["dead"] + Cardinality(Entering("dead"))
    BY <1>1, <1>4, EntriesFollow, FS_EmptySet DEF Ended
  <2>3. DeadLettersCounted
    BY DEF MeterInv
  <2> QED BY <1>1, <1>2, <1>5, <1>7, <2>1, <2>2, <2>3, CountsStay
<1>10. Written'
  BY <1>1, WrittenStays DEF MeterInv
<1> QED BY <1>7, <1>9, <1>10

\* What a dead process held is forgotten, and nothing else.
LEMMA DeathMeters ==
    ASSUME MeterInv, NEW i \in Instances, ProcessDies(i)
    PROVE  MeterTypes' /\ Written' /\ DeadLettersCounted'
<1>1. /\ MeterTypes
      /\ counters' = [counters EXCEPT ![i] = NoCount]
      /\ finishing' = {f \in finishing : f.owner # i}
      /\ recovering' = [recovering EXCEPT ![i] = 0]
      /\ forgotten' = [t \in Series |-> forgotten[t] + counters[i][t] + OwedBy(i, t)]
      /\ entries' = entries
  BY DEF MeterInv, ProcessDies
<1>2. claims' = claims /\ deliveries' \subseteq deliveries
  BY DEF ProcessDies, Crash, vars
<1>3. Written'
  BY <1>1, <1>2, WrittenStays DEF MeterInv
<1>4. /\ counters \in [Instances -> [Series -> Nat]] /\ recovering \in [Instances -> Nat]
      /\ \A t \in Series : forgotten[t] \in Nat /\ counters[i][t] \in Nat /\ OwedBy(i, t) \in Nat
  BY <1>1, HeldFacts DEF MeterTypes
<1>5. MeterTypes'
  <2>1. NoCount \in [Series -> Nat]
    BY DEF NoCount
  <2>2. counters' \in [Instances -> [Series -> Nat]] /\ recovering' \in [Instances -> Nat]
    BY <1>1, <1>4, <2>1
  <2>3. finishing' \in SUBSET finishing
    BY <1>1
  <2>4. IsFiniteSet(finishing') /\ finishing' \subseteq Finisher
    BY <1>1, <2>3, FS_Subset DEF MeterTypes
  <2>5. forgotten' \in [Series -> Nat]
    BY <1>1, <1>4
  <2> QED BY <1>1, <2>2, <2>4, <2>5 DEF MeterTypes
<1>6. ASSUME NEW t \in Series PROVE Tally(t)' = Tally(t)
  <2>1. HeldBy(i, t)' = 0
    <3>1. counters'[i][t] = 0 /\ recovering'[i] = 0
      BY <1>1, <1>4 DEF NoCount
    <3>2. Owing(i, t)' = {}
      BY <1>1 DEF Owing
    <3>3. OwedBy(i, t)' = IF t = "recovered" THEN recovering'[i] ELSE Cardinality(Owing(i, t)')
      BY DEF OwedBy, Owing
    <3> QED BY <3>1, <3>2, <3>3, FS_EmptySet DEF HeldBy
  <2>2. ASSUME NEW j \in Instances \ {i} PROVE HeldBy(j, t)' = HeldBy(j, t)
    <3>1. counters'[j][t] = counters[j][t] /\ recovering'[j] = recovering[j]
      BY <1>1, <1>4
    <3>2. Owing(j, t)' = Owing(j, t)
      BY <1>1 DEF Owing
    <3> QED BY <3>1, <3>2 DEF HeldBy, OwedBy, Owing
  <2>3. Tally(t)' + HeldBy(i, t) + forgotten[t] = Tally(t) + HeldBy(i, t)' + forgotten'[t]
    BY <1>1, <1>5, <2>2, TallyFollows
  <2>4. /\ HeldBy(i, t) = counters[i][t] + OwedBy(i, t)
        /\ forgotten'[t] = forgotten[t] + counters[i][t] + OwedBy(i, t)
    BY <1>1 DEF HeldBy
  <2>5. Tally(t) \in Nat /\ Tally(t)' \in Nat
    BY <1>1, <1>5, TallyFacts, TallyIsNumber
  <2>6. forgotten[t] \in Nat /\ counters[i][t] \in Nat /\ OwedBy(i, t) \in Nat
    BY <1>4
  <2> QED BY <2>1, <2>3, <2>4, <2>5, <2>6
<1>7. DeadLettersCounted'
  BY <1>1, <1>6 DEF MeterInv, DeadLettersCounted, Series
<1> QED BY <1>3, <1>5, <1>7

-------------------------------------------------------------------------------
(* The theorems. *)

LEMMA MeterInit == MeteredInit => MeterInv
<1> SUFFICES ASSUME MeteredInit PROVE MeterInv
  OBVIOUS
<1>1. MeterTypes
  <2>1. NoCount \in [Series -> Nat]
    BY DEF NoCount
  <2> QED BY <2>1, FS_EmptySet DEF MeteredInit, MeterTypes
<1>2. ASSUME NEW t \in Series PROVE Tally(t) = 0
  <2>1. \A i \in Instances : counters[i][t] = 0 /\ recovering[i] = 0
    BY DEF MeteredInit, NoCount
  <2>2. forgotten[t] = 0
    BY DEF MeteredInit, NoCount
  <2>3. \A i \in Instances : Owing(i, t) = {}
    BY DEF MeteredInit, Owing
  <2>4. \A i \in Instances : HeldBy(i, t) = 0
    <3> SUFFICES ASSUME NEW i \in Instances PROVE HeldBy(i, t) = 0
      OBVIOUS
    <3>1. OwedBy(i, t) = IF t = "recovered" THEN recovering[i] ELSE Cardinality(Owing(i, t))
      BY DEF OwedBy, Owing
    <3>2. Cardinality(Owing(i, t)) = 0
      BY <2>3, FS_EmptySet
    <3> QED BY <2>1, <3>1, <3>2 DEF HeldBy
  <2>5. Held(t) = [i \in Instances |-> 0]
    BY <1>1, <2>4, TallyFacts
  <2> QED BY <2>2, <2>5, InstancesAssumption, SumOfZeros DEF Tally
<1>3. DeadLettersCounted
  BY <1>2 DEF MeteredInit, DeadLettersCounted, Series
<1>4. Written
  BY DEF MeteredInit, Written
<1> QED BY <1>1, <1>3, <1>4, ResultInit DEF MeteredInit, MeterInv

\* A step of the metered queue is a step of the queue, or counts something.
LEMMA MeteredStepsAreSteps == [MeteredNext]_meteredVars => [Next]_vars
<1> SUFFICES ASSUME [MeteredNext]_meteredVars PROVE [Next]_vars
  OBVIOUS
<1>1. CASE Elsewhere
  BY <1>1 DEF Elsewhere, Next
<1>2. ASSUME NEW d \in deliveries, WorkerStep(d) PROVE [Next]_vars
  BY <1>2 DEF WorkerStep, UncountedStep, DeliveryStep, Next
<1>3. ASSUME NEW i \in Instances, Reap(i) \/ CountRecovered(i) \/ ProcessDies(i)
      PROVE  [Next]_vars
  BY <1>3 DEF Reap, CountRecovered, ProcessDies, Next
<1>4. ASSUME NEW f \in finishing, CountTerminal(f) PROVE [Next]_vars
  BY <1>4 DEF CountTerminal
<1>5. CASE UNCHANGED meteredVars
  BY <1>5 DEF meteredVars
<1> QED BY <1>1, <1>2, <1>3, <1>4, <1>5 DEF MeteredNext

LEMMA MeterStep == MeterInv /\ [MeteredNext]_meteredVars => MeterInv'
<1> SUFFICES ASSUME MeterInv, [MeteredNext]_meteredVars PROVE MeterInv'
  OBVIOUS
<1>1. ResultInv'
  BY MeteredStepsAreSteps, ResultStep DEF MeterInv
<1>2. CASE Elsewhere
  BY <1>1, <1>2, ElsewhereMeters DEF MeterInv
<1>3. ASSUME NEW d \in deliveries, WorkerStep(d) PROVE MeterInv'
  <2>1. NoteEntries /\ UNCHANGED <<counters, recovering, forgotten>>
    BY <1>3 DEF WorkerStep
  <2>2. CASE UncountedStep(d)
    BY <1>1, <2>1, <2>2, UncountedMeters DEF MeterInv
  <2>3. CASE FinishSuccess(d) /\ WillCount(d, "succeeded")
    <3>1. WriteBack(d, Released(d, "succeeded")) /\ "succeeded" \in Ended
      BY <2>3 DEF FinishSuccess, Ended
    <3> QED BY <1>1, <2>1, <2>3, <3>1, FinishMeters DEF MeterInv
  <2>4. CASE FinishDead(d) /\ WillCount(d, "dead")
    <3>1. WriteBack(d, Released(d, "dead")) /\ "dead" \in Ended
      BY <2>4 DEF FinishDead, Ended
    <3> QED BY <1>1, <2>1, <2>4, <3>1, FinishMeters DEF MeterInv
  <2> QED BY <1>3, <2>2, <2>3, <2>4 DEF WorkerStep
<1>4. ASSUME NEW f \in finishing, CountTerminal(f) PROVE MeterInv'
  BY <1>1, <1>4, CountTerminalMeters DEF MeterInv
<1>5. ASSUME NEW i \in Instances, Reap(i) PROVE MeterInv'
  BY <1>1, <1>5, ReapMeters DEF MeterInv
<1>6. ASSUME NEW i \in Instances, CountRecovered(i) PROVE MeterInv'
  BY <1>1, <1>6, CountRecoveredMeters DEF MeterInv
<1>7. ASSUME NEW i \in Instances, ProcessDies(i) PROVE MeterInv'
  BY <1>1, <1>7, DeathMeters DEF MeterInv
<1>8. CASE UNCHANGED meteredVars
  <2>1. UNCHANGED <<counters, finishing, recovering, entries, forgotten, vars>>
    BY <1>8 DEF meteredVars, meters
  <2>2. \A t \in Series : Tally(t)' = Tally(t)
    BY <2>1, TallyStays
  <2>3. MeterTypes' /\ Written'
    BY <2>1 DEF MeterInv, MeterTypes, Written, vars
  <2>4. DeadLettersCounted'
    BY <2>1, <2>2 DEF MeterInv, DeadLettersCounted, Series
  <2> QED BY <1>1, <2>3, <2>4 DEF MeterInv
<1> QED BY <1>2, <1>3, <1>4, <1>5, <1>6, <1>7, <1>8 DEF MeteredNext

\* Every dead letter is counted, no success is counted twice or by a worker whose result
\* was discarded, and what a dead process took with it is all that is missing from the
\* series: for every number of notifications and processes, overruns and deaths.
THEOREM DeadLettersAreCounted == MeteredSpec => []DeadLettersCounted
<1>1. MeterInv => DeadLettersCounted
  BY DEF MeterInv
<1> QED BY <1>1, MeterInit, MeterStep, PTL DEF MeteredSpec

\* Counting changes nothing in the queue: every behaviour of the queue with its counters,
\* and of processes that die with or without work in hand, is one of the queue, so what
\* is proved of the queue holds of it.
THEOREM CountersAreASideEffect == MeteredSpec => Spec
<1>1. MeteredInit => Init
  BY DEF MeteredInit
<1> QED BY <1>1, MeteredStepsAreSteps, PTL DEF MeteredSpec, Spec

===============================================================================
