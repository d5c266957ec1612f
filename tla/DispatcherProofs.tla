---------------------------- MODULE DispatcherProofs ----------------------------
(***************************************************************************)
(* No wake-up of the dispatch loop is lost and no place of a semaphore is  *)
(* lost or handed out twice, for every number of endpoints and             *)
(* notifications, every concurrency and batch size.                        *)
(*                                                                         *)
(* The argument: a due row nobody has refused or will announce is still    *)
(* ahead of the loop in its round, or will be looked at in a round that    *)
(* must follow, because the channel holds a token or the present round     *)
(* has claimed something. The places: only the loop takes one, and between *)
(* its count of the free ones and its claim workers only give back.        *)
(***************************************************************************)
EXTENDS Dispatcher, TLAPS, FiniteSetTheorems

\* The types the argument needs.
LoopType ==
    /\ place \in [Notifications -> Place]
    /\ wake \in BOOLEAN
    /\ phase \in Phase
    /\ rotation \in 0..Count-1
    /\ at \in 0..Count
    /\ dispatched \in BOOLEAN
    /\ phase = "claim" => at < Count /\ grant \in 1..BatchSize

Covered(n) == n \in passed \cup silent \cup Announced

\* e is still to be visited in this round.
Ahead(e) == \E i \in at..Count-1 : Names[(rotation + i) % Count] = e

\* Another round is certain, or this one still comes to e.
WillBeLookedAt(e) ==
    \/ wake
    \/ phase = "start"
    \/ phase \in {"visit", "claim"} /\ (dispatched \/ Ahead(e))

NothingSleptOn ==
    \A n \in Due : Endpoint[n] \in Configured => Covered(n) \/ WillBeLookedAt(Endpoint[n])

LoopInv == LoopType /\ NothingSleptOn

-------------------------------------------------------------------------------
(* A round visits every configured endpoint, wherever it starts. *)

LEMMA CountFacts ==
    /\ Count \in Nat /\ Count > 0 /\ 0 \in 0..Count-1 /\ 0 \in 0..Count
    /\ \A i \in Nat : i % Count \in 0..Count-1
BY NamesAssumption

\* Adding and subtracting one Count does not change a remainder.
LEMMA Wrap ==
    ASSUME NEW r \in 0..Count-1, NEW j \in 0..Count-1
    PROVE  \E i \in 0..Count-1 : (r + i) % Count = j
<1> DEFINE k == IF j >= r THEN j - r ELSE (j + Count) - r
<1>1. Count \in Nat \ {0}
  BY NamesAssumption
<1>2. k \in 0..Count-1
  BY <1>1
<1>3. (r + k) % Count = j
  BY <1>1
<1> QED BY <1>2, <1>3

\* Every configured endpoint is ahead of a round that starts.
LEMMA RoundIsComplete ==
    ASSUME NEW r \in 0..Count-1, NEW e \in Configured
    PROVE  \E i \in 0..Count-1 : Names[(r + i) % Count] = e
<1>1. PICK j \in 0..Count-1 : Names[j] = e
  BY DEF Configured
<1>2. PICK i \in 0..Count-1 : (r + i) % Count = j
  BY Wrap
<1> QED BY <1>1, <1>2

-------------------------------------------------------------------------------
(* The invariant. *)

\* Of a step that moves no row to the due ones, takes no row out of Covered and leaves
\* the loop and the channel alone.
LEMMA NothingSleptOnKept ==
    ASSUME LoopInv, Due' \subseteq Due, Due' \cap (passed \cup silent \cup Announced)
                                        \subseteq (passed \cup silent \cup Announced)',
           UNCHANGED <<wake, phase, rotation, at, dispatched>>
    PROVE  NothingSleptOn'
<1> SUFFICES ASSUME NEW n \in Due', Endpoint[n] \in Configured
             PROVE  Covered(n)' \/ WillBeLookedAt(Endpoint[n])'
  BY DEF NothingSleptOn, Configured
<1>1. Covered(n) \/ WillBeLookedAt(Endpoint[n])
  BY DEF LoopInv, NothingSleptOn
<1>2. Covered(n) => Covered(n)'
  BY DEF Covered
<1>3. WillBeLookedAt(Endpoint[n]) => WillBeLookedAt(Endpoint[n])'
  BY DEF WillBeLookedAt, Ahead
<1> QED BY <1>1, <1>2, <1>3

LEMMA LoopInit == Init => LoopInv
<1> SUFFICES ASSUME Init PROVE LoopInv
  OBVIOUS
<1>1. LoopType
  BY CountFacts DEF Init, LoopType, Place, Phase
<1>2. NothingSleptOn
  BY DEF Init, NothingSleptOn, WillBeLookedAt
<1> QED BY <1>1, <1>2 DEF LoopInv

\* Steps of writers, operators, workers and breakers.
LEMMA OutsideStep ==
    ASSUME LoopInv,
           \/ \E n \in Notifications :
                 \/ Submit(n) \/ Requeue(n) \/ RetryComesDue(n) \/ Cancel(n)
                 \/ \E where \in {"settled", "dead", "later", "lost"} : Finish(n, where)
           \/ \E expired \in SUBSET Notifications :
                 \E exhausted \in SUBSET expired : Reap(expired, exhausted)
           \/ \E w \in wakers : Wake(w)
           \/ \E e \in Configured : Leave(e) \/ Trip(e) \/ Readmit(e)
           \/ TimerFires
    PROVE  LoopInv'
<1> USE DEF LoopInv
<1>1. LoopType'
  <2>1. ASSUME NEW n \in Notifications,
               Submit(n) \/ Requeue(n) \/ RetryComesDue(n) \/ Cancel(n)
        PROVE  LoopType'
    BY <2>1 DEF LoopType, Place, Submit, Requeue, RetryComesDue, Cancel, BecomeDue,
                NoLongerDue, loop
  <2>2. ASSUME NEW n \in Notifications, NEW where \in {"settled", "dead", "later", "lost"},
               Finish(n, where)
        PROVE  LoopType'
    BY <2>2 DEF LoopType, Place, Finish, loop
  <2>3. ASSUME NEW expired \in SUBSET Notifications, NEW exhausted \in SUBSET expired,
               Reap(expired, exhausted)
        PROVE  LoopType'
    BY <2>3 DEF LoopType, Place, Reap, loop
  <2>4. ASSUME NEW w \in wakers, Wake(w) PROVE LoopType'
    BY <2>4 DEF LoopType, Wake, loop
  <2>5. ASSUME NEW e \in Configured, Leave(e) \/ Trip(e) \/ Readmit(e) PROVE LoopType'
    BY <2>5 DEF LoopType, Leave, Trip, Readmit, loop
  <2>6. CASE TimerFires
    BY <2>6 DEF LoopType, TimerFires, loop
  <2> QED BY <2>1, <2>2, <2>3, <2>4, <2>5, <2>6
<1>2. NothingSleptOn'
  <2>1. ASSUME NEW n \in Notifications, Submit(n) \/ Requeue(n)
        PROVE  NothingSleptOn'
    <3>1. Due' = Due \cup {n} /\ wakers' = wakers \cup {{n}}
      BY <2>1 DEF Submit, Requeue, BecomeDue, Due
    <3>2. UNCHANGED <<wake, phase, rotation, at, dispatched, passed, silent>>
      BY <2>1 DEF Submit, Requeue, loop, ghosts
    <3>3. Covered(n)'
      BY <3>1 DEF Covered, Announced
    <3>4. \A m : Covered(m) => Covered(m)'
      BY <3>1, <3>2 DEF Covered, Announced
    <3>5. \A e : WillBeLookedAt(e) => WillBeLookedAt(e)'
      BY <3>2 DEF WillBeLookedAt, Ahead
    <3> QED BY <3>1, <3>3, <3>4, <3>5 DEF NothingSleptOn, Configured
  <2>2. ASSUME NEW n \in Notifications, RetryComesDue(n)
        PROVE  NothingSleptOn'
    <3>1. Due' = Due \cup {n} /\ silent' = silent \cup {n}
      BY <2>2 DEF RetryComesDue, BecomeDue, Due
    <3>2. UNCHANGED <<wake, phase, rotation, at, dispatched, passed, wakers>>
      BY <2>2 DEF RetryComesDue, loop
    <3>3. \A m : Covered(m) \/ m = n => Covered(m)'
      BY <3>1, <3>2 DEF Covered, Announced
    <3>4. \A e : WillBeLookedAt(e) => WillBeLookedAt(e)'
      BY <3>2 DEF WillBeLookedAt, Ahead
    <3> QED BY <3>1, <3>3, <3>4 DEF NothingSleptOn, Configured
  <2>3. ASSUME NEW n \in Notifications, Cancel(n)
        PROVE  NothingSleptOn'
    <3>1. Due' \subseteq Due \ {n}
      BY <2>3 DEF Cancel, NoLongerDue, Due
    <3>2. passed' = passed \ {n} /\ silent' = silent \ {n}
          /\ UNCHANGED <<wake, phase, rotation, at, dispatched, wakers>>
      BY <2>3 DEF Cancel, loop
    <3> QED BY <3>1, <3>2, NothingSleptOnKept DEF Announced
  <2>4. ASSUME NEW n \in Notifications, NEW where \in {"settled", "dead", "later", "lost"},
               Finish(n, where)
        PROVE  NothingSleptOn'
    <3>1. Due' \subseteq Due
      BY <2>4 DEF Finish, Due, LoopType
    <3>2. UNCHANGED <<passed, silent, wake, phase, rotation, at, dispatched, wakers>>
      BY <2>4 DEF Finish, loop, ghosts
    <3> QED BY <3>1, <3>2, NothingSleptOnKept DEF Announced
  <2>5. ASSUME NEW expired \in SUBSET Notifications, NEW exhausted \in SUBSET expired,
               Reap(expired, exhausted)
        PROVE  NothingSleptOn'
    <3>1. Due' = Due \cup (expired \ exhausted)
          /\ wakers' = wakers \cup {expired \ exhausted}
      BY <2>5 DEF Reap, Due
    <3>2. UNCHANGED <<wake, phase, rotation, at, dispatched, passed, silent>>
      BY <2>5 DEF Reap, loop, ghosts
    <3>3. \A m : Covered(m) \/ m \in expired \ exhausted => Covered(m)'
      BY <3>1, <3>2 DEF Covered, Announced
    <3>4. \A e : WillBeLookedAt(e) => WillBeLookedAt(e)'
      BY <3>2 DEF WillBeLookedAt, Ahead
    <3> QED BY <3>1, <3>3, <3>4 DEF NothingSleptOn, Configured
  <2>6. ASSUME NEW w \in wakers, Wake(w) PROVE NothingSleptOn'
    BY <2>6 DEF Wake, NothingSleptOn, WillBeLookedAt
  <2>7. ASSUME NEW e \in Configured, Leave(e) \/ Trip(e) \/ Readmit(e)
        PROVE  NothingSleptOn'
    <3>1. UNCHANGED <<place, passed, silent, wake, phase, rotation, at, dispatched, wakers>>
      BY <2>7 DEF Leave, Trip, Readmit, loop, ghosts
    <3> QED BY <3>1, NothingSleptOnKept DEF Announced, Due
  <2>8. CASE TimerFires
    <3>1. UNCHANGED <<place, passed, silent, wake, phase, rotation, at, dispatched, wakers>>
      BY <2>8 DEF TimerFires, loop, ghosts
    <3> QED BY <3>1, NothingSleptOnKept DEF Announced, Due
  <2> QED BY <2>1, <2>2, <2>3, <2>4, <2>5, <2>6, <2>7, <2>8
<1> QED BY <1>1, <1>2

\* A visit that leaves e's rows covered, or takes them all, may pass on from e.
LEMMA VisitKeepsOthersAhead ==
    ASSUME LoopInv, at < Count, phase \in {"visit", "claim"}, phase' = "visit",
           at' = at + 1, UNCHANGED <<rotation, wake>>, dispatched => dispatched',
           NEW e, e # Here, WillBeLookedAt(e)
    PROVE  WillBeLookedAt(e)'
<1>1. CASE wake \/ dispatched
  BY <1>1 DEF WillBeLookedAt
<1>2. CASE Ahead(e)
  <2>1. PICK i \in at..Count-1 : Names[(rotation + i) % Count] = e
    BY <1>2 DEF Ahead
  <2>2. i # at
    BY <2>1 DEF Here
  <2>3. i \in at'..Count-1
    BY <2>2, NamesAssumption DEF LoopInv, LoopType
  <2>4. Ahead(e)'
    BY <2>1, <2>3 DEF Ahead
  <2> QED BY <2>4 DEF WillBeLookedAt
<1> QED BY <1>1, <1>2 DEF WillBeLookedAt

LEMMA LoopStepKeeps ==
    ASSUME LoopInv, LoopStep
    PROVE  LoopInv'
<1> USE DEF LoopInv
<1>1. CASE StartRound
  <2>1. LoopType'
    <3>1. rotation + 1 \in Nat
      BY CountFacts DEF LoopType
    <3>2. rotation' \in 0..Count-1
      BY <1>1, <3>1, CountFacts DEF StartRound
    <3> QED BY <1>1, <3>2, CountFacts DEF StartRound, LoopType, Phase
  <2>2. \A e \in Configured : Ahead(e)'
    <3>1. rotation' \in 0..Count-1 /\ at' = 0
      BY <1>1, <2>1 DEF StartRound, LoopType
    <3> QED BY <3>1, RoundIsComplete DEF Ahead
  <2>3. phase' = "visit" /\ Due' = Due
    BY <1>1 DEF StartRound, Due
  <2> QED BY <2>1, <2>2, <2>3 DEF NothingSleptOn, WillBeLookedAt, Configured
<1>2. CASE Skip
  <2>1. LoopType'
    BY <1>2, NamesAssumption DEF Skip, LoopType, Phase
  <2>2. /\ Due' = Due /\ passed' = passed \cup DueAt(Here)
        /\ UNCHANGED <<silent, wakers, wake, rotation, phase, dispatched>>
        /\ phase = "visit" /\ at < Count /\ at' = at + 1
    BY <1>2 DEF Skip, Due
  <2>3. \A m : Covered(m) => Covered(m)'
    BY <2>2 DEF Covered, Announced
  <2>4. \A m \in Due : Endpoint[m] = Here => Covered(m)'
    BY <2>2 DEF Covered, DueAt
  <2>5. \A e : e # Here /\ WillBeLookedAt(e) => WillBeLookedAt(e)'
    BY <2>2, VisitKeepsOthersAhead
  <2>6. NothingSleptOn'
    BY <2>2, <2>3, <2>4, <2>5 DEF NothingSleptOn, Configured
  <2> QED BY <2>1, <2>6
<1>3. ASSUME NEW g \in 1..BatchSize, Grant(g)
      PROVE  LoopInv'
  <2>1. LoopType'
    BY <1>3, NamesAssumption DEF Grant, LoopType, Phase
  <2>2. /\ phase = "visit" /\ phase' = "claim"
        /\ UNCHANGED <<place, passed, silent, wakers, wake, rotation, at, dispatched>>
    BY <1>3 DEF Grant, ghosts
  <2>3. \A e : WillBeLookedAt(e) => WillBeLookedAt(e)'
    BY <2>2 DEF WillBeLookedAt, Ahead
  <2>4. NothingSleptOn'
    BY <2>2, <2>3 DEF NothingSleptOn, Covered, Announced, Due, Configured
  <2> QED BY <2>1, <2>4
<1>4. ASSUME NEW batch \in SUBSET Notifications, Claim(batch)
      PROVE  LoopInv'
  <2>1. LoopType'
    BY <1>4, NamesAssumption DEF Claim, NoLongerDue, LoopType, Phase, Place
  <2>2. /\ Due' = Due \ batch
        /\ passed' = passed \ batch /\ silent' = silent \ batch
        /\ UNCHANGED <<wakers, wake, rotation>>
        /\ phase = "claim" /\ phase' = "visit" /\ at < Count /\ at' = at + 1
        /\ dispatched' = (dispatched \/ batch # {})
    BY <1>4 DEF Claim, NoLongerDue, Due, LoopType
  <2>3. batch = {} => DueAt(Here) = {}
    <3>1. Cardinality({}) = 0
      BY FS_EmptySet
    <3> QED BY <1>4, <2>2, <3>1 DEF Claim, First, LoopType
  <2>4. \A m \in Due' : Covered(m) => Covered(m)'
    BY <2>2 DEF Covered, Announced
  <2>5. CASE batch = {}
    <3>1. \A m \in Due' : Endpoint[m] # Here
      BY <2>2, <2>3, <2>5 DEF DueAt
    <3>2. \A e : e # Here /\ WillBeLookedAt(e) => WillBeLookedAt(e)'
      BY <2>2, VisitKeepsOthersAhead
    <3>3. NothingSleptOn'
      BY <2>2, <2>4, <3>1, <3>2 DEF NothingSleptOn, Configured
    <3> QED BY <2>1, <3>3
  <2>6. CASE batch # {}
    <3>1. NothingSleptOn'
      BY <2>2, <2>6 DEF NothingSleptOn, WillBeLookedAt
    <3> QED BY <2>1, <3>1
  <2> QED BY <2>5, <2>6
<1>5. CASE ClaimFails
  <2>1. LoopType'
    BY <1>5, NamesAssumption DEF ClaimFails, LoopType, Phase
  <2>2. /\ Due' = Due /\ passed' = passed \cup DueAt(Here)
        /\ UNCHANGED <<silent, wakers, wake, rotation, dispatched>>
        /\ phase = "claim" /\ phase' = "visit" /\ at < Count /\ at' = at + 1
    BY <1>5 DEF ClaimFails, Due, LoopType
  <2>3. \A m : Covered(m) => Covered(m)'
    BY <2>2 DEF Covered, Announced
  <2>4. \A m \in Due : Endpoint[m] = Here => Covered(m)'
    BY <2>2 DEF Covered, DueAt
  <2>5. \A e : e # Here /\ WillBeLookedAt(e) => WillBeLookedAt(e)'
    BY <2>2, VisitKeepsOthersAhead
  <2>6. NothingSleptOn'
    BY <2>2, <2>3, <2>4, <2>5 DEF NothingSleptOn, Configured
  <2> QED BY <2>1, <2>6
<1>6. CASE EndRound
  <2>1. LoopType'
    BY <1>6, CountFacts DEF EndRound, LoopType, Phase
  <2>2. /\ UNCHANGED <<place, passed, silent, wakers, wake>>
        /\ phase = "visit" /\ at = Count
        /\ phase' = IF dispatched THEN "start" ELSE "waiting"
    BY <1>6 DEF EndRound, ghosts
  <2>3. \A e : ~ Ahead(e)
    BY <2>2, NamesAssumption DEF Ahead
  <2>4. \A e : WillBeLookedAt(e) => WillBeLookedAt(e)'
    BY <2>2, <2>3 DEF WillBeLookedAt
  <2>5. NothingSleptOn'
    BY <2>2, <2>4 DEF NothingSleptOn, Covered, Announced, Due, Configured
  <2> QED BY <2>1, <2>5
<1>7. CASE Woken \/ Polled
  <2>1. LoopType'
    BY <1>7 DEF Woken, Polled, LoopType, Phase
  <2>2. phase' = "start"
    BY <1>7 DEF Woken, Polled
  <2> QED BY <2>1, <2>2 DEF NothingSleptOn, WillBeLookedAt
<1> QED BY <1>1, <1>2, <1>3, <1>4, <1>5, <1>6, <1>7 DEF LoopStep

-------------------------------------------------------------------------------

\* When the loop sleeps with an empty channel, every due row of a configured endpoint
\* was refused, is announced by the clock alone, or is about to be announced.
THEOREM NoWakeupIsLost == Spec => []NoLostWakeup
<1>1. Init => LoopInv
  BY LoopInit
<1>2. LoopInv /\ [Next]_vars => LoopInv'
  <2> SUFFICES ASSUME LoopInv, [Next]_vars PROVE LoopInv'
    OBVIOUS
  <2>1. CASE LoopStep
    BY <2>1, LoopStepKeeps
  <2>2. CASE Next /\ ~LoopStep
    BY <2>2, OutsideStep DEF Next
  <2>3. CASE UNCHANGED vars
    <3>1. UNCHANGED <<place, wake, phase, rotation, at, grant, dispatched, wakers, passed,
                      silent>>
      BY <2>3 DEF vars, loop, ghosts
    <3>2. LoopType'
      BY <3>1 DEF LoopInv, LoopType
    <3>3. NothingSleptOn'
      BY <3>1, NothingSleptOnKept DEF Announced, Due
    <3> QED BY <3>2, <3>3 DEF LoopInv
  <2> QED BY <2>1, <2>2, <2>3
<1>3. LoopInv => NoLostWakeup
  BY DEF LoopInv, NothingSleptOn, NoLostWakeup, Covered, WillBeLookedAt
<1> QED BY <1>1, <1>2, <1>3, PTL DEF Spec

-------------------------------------------------------------------------------
(* The places of the semaphores. *)

Claimed == {n \in Notifications : place[n] = "claimed"}
ClaimedAt(e) == {n \in Claimed : Endpoint[n] = e}

\* A semaphore is held by the workers that have a claimed row and by those that have
\* written back and not yet left; the visit under way has room for its grant.
PlacesAccounted ==
    /\ \A n \in Claimed : Endpoint[n] \in Configured
    /\ \A e \in Configured : busy[e] = leaving[e] + Cardinality(ClaimedAt(e))
    /\ \A e \in Configured : busy[e] <= Concurrency
    /\ phase = "claim" => at < Count /\ grant + busy[Here] <= Concurrency

PlacesInv == TypeOK /\ PlacesAccounted

LEMMA PlacesFacts ==
    /\ \A e : IsFiniteSet(ClaimedAt(e)) /\ Cardinality(ClaimedAt(e)) \in Nat
    /\ \A e : IsFiniteSet(ClaimedAt(e)') /\ Cardinality(ClaimedAt(e)') \in Nat
    /\ \A S \in SUBSET Notifications : IsFiniteSet(S) /\ Cardinality(S) \in Nat
<1>1. ASSUME NEW S \in SUBSET Notifications
      PROVE  IsFiniteSet(S) /\ Cardinality(S) \in Nat
  BY DispatcherAssumption, FS_Subset, FS_CardinalityType
<1>2. \A e : ClaimedAt(e) \in SUBSET Notifications /\ ClaimedAt(e)' \in SUBSET Notifications
  BY DEF ClaimedAt, Claimed
<1> QED BY <1>1, <1>2

\* The loop always stands at a configured endpoint.
LEMMA HereIsConfigured ==
    ASSUME TypeOK
    PROVE  Here \in Configured
<1>1. rotation \in Nat /\ at \in Nat
  BY NamesAssumption DEF TypeOK
<1>2. (rotation + at) % Count \in 0..Count-1
  BY <1>1, CountFacts
<1> QED BY <1>2 DEF Here, Configured

LEMMA PlacesInit == Init => PlacesInv
<1> SUFFICES ASSUME Init PROVE PlacesInv
  OBVIOUS
<1>1. TypeOK
  BY CountFacts DEF Init, TypeOK, Place, Phase, Timer
<1>2. Claimed = {}
  BY DEF Init, Claimed
<1>3. \A e : Cardinality(ClaimedAt(e)) = 0
  BY <1>2, FS_EmptySet DEF ClaimedAt
<1>4. PlacesAccounted
  BY <1>2, <1>3, DispatcherAssumption DEF Init, PlacesAccounted
<1> QED BY <1>1, <1>4 DEF PlacesInv

\* Steps that claim no row, finish no worker and leave the visit alone.
LEMMA PlacesKept ==
    ASSUME PlacesAccounted, Claimed' = Claimed, UNCHANGED <<busy, leaving, Here>>,
           phase' = "claim" => phase = "claim" /\ UNCHANGED <<at, grant>>
    PROVE  PlacesAccounted'
<1>1. \A e : ClaimedAt(e)' = ClaimedAt(e)
  BY DEF ClaimedAt
<1> QED BY <1>1 DEF PlacesAccounted, Configured

LEMMA RowStep ==
    ASSUME PlacesInv, NEW n \in Notifications,
           Submit(n) \/ Requeue(n) \/ RetryComesDue(n) \/ Cancel(n)
    PROVE  PlacesInv'
<1> USE DEF PlacesInv
<1>1. TypeOK'
  <2>1. CASE Submit(n) \/ Requeue(n) \/ RetryComesDue(n)
    <3>1. place' \in [Notifications -> Place] /\ Due' = Due \cup {n}
      BY <2>1 DEF TypeOK, Submit, Requeue, RetryComesDue, BecomeDue, Place, Due
    <3>2. before' \subseteq Notifications \X Notifications
      BY <2>1 DEF TypeOK, Submit, Requeue, RetryComesDue, BecomeDue, Due
    <3> QED BY <2>1, <3>1, <3>2 DEF TypeOK, Submit, Requeue, RetryComesDue, workers, loop, ghosts
  <2>2. CASE Cancel(n)
    <3>1. place' \in [Notifications -> Place] /\ Due' = Due \ {n}
      BY <2>2 DEF TypeOK, Cancel, NoLongerDue, Place, Due
    <3>2. before' \subseteq Notifications \X Notifications
      BY <2>2 DEF TypeOK, Cancel, NoLongerDue
    <3> QED BY <2>2, <3>1, <3>2 DEF TypeOK, Cancel, workers, loop
  <2> QED BY <2>1, <2>2
<1>2. Claimed' = Claimed
  BY DEF Claimed, Submit, Requeue, RetryComesDue, Cancel, BecomeDue, NoLongerDue
<1>3. UNCHANGED <<busy, leaving, phase, rotation, at, grant>>
  BY DEF Submit, Requeue, RetryComesDue, Cancel, workers, loop
<1> QED BY <1>1, <1>2, <1>3, PlacesKept DEF Here

LEMMA ReapStep ==
    ASSUME PlacesInv, NEW expired \in SUBSET Notifications, NEW exhausted \in SUBSET expired,
           Reap(expired, exhausted)
    PROVE  PlacesInv'
<1> USE DEF PlacesInv
<1>1. /\ \A n \in expired : place[n] = "lost"
      /\ UNCHANGED <<busy, leaving, open, wake, timer, phase, rotation, at, grant,
                     dispatched, faults, passed, silent>>
      /\ wakers' = wakers \cup {expired \ exhausted}
      /\ before' = before \cup (Due \X (expired \ exhausted))
  BY DEF Reap, workers, loop, ghosts
<1>2. /\ place' \in [Notifications -> Place]
      /\ Due' = Due \cup (expired \ exhausted)
      /\ Claimed' = Claimed
  BY <1>1 DEF TypeOK, Reap, Place, Due, Claimed
<1>3. before' \subseteq Notifications \X Notifications
  BY <1>1 DEF TypeOK, Due
<1>4. TypeOK'
  BY <1>1, <1>2, <1>3 DEF TypeOK
<1> QED BY <1>1, <1>2, <1>4, PlacesKept DEF Here

LEMMA FinishStep ==
    ASSUME PlacesInv, NEW n \in Notifications,
           NEW where \in {"settled", "dead", "later", "lost"}, Finish(n, where)
    PROVE  PlacesInv'
<1> USE DEF PlacesInv
<1> DEFINE e == Endpoint[n]
<1>1. /\ place[n] = "claimed" /\ place' = [place EXCEPT ![n] = where]
      /\ leaving' = [leaving EXCEPT ![e] = @ + 1]
      /\ UNCHANGED <<before, busy, open, wake, timer, phase, rotation, at, grant,
                     dispatched, wakers, faults, passed, silent>>
  BY DEF Finish, loop, ghosts
<1>2. n \in Claimed /\ e \in Configured
  BY <1>1 DEF Claimed, PlacesAccounted
<1>3. TypeOK'
  <2>1. place' \in [Notifications -> Place] /\ Due' = Due
    BY <1>1 DEF TypeOK, Place, Due
  <2>2. leaving' \in [Configured -> Nat]
    BY <1>1, <1>2 DEF TypeOK
  <2> QED BY <1>1, <2>1, <2>2 DEF TypeOK
<1>4. Claimed' = Claimed \ {n}
  BY <1>1 DEF TypeOK, Claimed
<1>5. ASSUME NEW f \in Configured
      PROVE  busy'[f] = leaving'[f] + Cardinality(ClaimedAt(f)')
  <2>1. /\ leaving[f] \in Nat /\ busy[f] \in Nat
        /\ busy[f] = leaving[f] + Cardinality(ClaimedAt(f))
    BY DEF TypeOK, PlacesAccounted
  <2>2. CASE f = e
    <3>1. ClaimedAt(f)' = ClaimedAt(f) \ {n} /\ n \in ClaimedAt(f)
      BY <1>2, <1>4, <2>2 DEF ClaimedAt
    <3>2. Cardinality(ClaimedAt(f)') = Cardinality(ClaimedAt(f)) - 1
      BY <3>1, PlacesFacts, FS_RemoveElement
    <3>3. leaving'[f] = leaving[f] + 1
      BY <1>1, <2>2 DEF TypeOK
    <3> QED BY <1>1, <2>1, <3>2, <3>3, PlacesFacts
  <2>3. CASE f # e
    <3>1. ClaimedAt(f)' = ClaimedAt(f)
      BY <1>4, <2>3 DEF ClaimedAt
    <3>2. leaving'[f] = leaving[f]
      BY <1>1, <2>3 DEF TypeOK
    <3> QED BY <1>1, <2>1, <3>1, <3>2
  <2> QED BY <2>2, <2>3
<1>6. Here' = Here
  BY <1>1 DEF Here
<1>7. PlacesAccounted'
  BY <1>1, <1>4, <1>5, <1>6 DEF PlacesAccounted, Configured
<1> QED BY <1>3, <1>7

LEMMA LeaveStep ==
    ASSUME PlacesInv, NEW e \in Configured, Leave(e)
    PROVE  PlacesInv'
<1> USE DEF PlacesInv
<1>1. /\ leaving[e] > 0
      /\ leaving' = [leaving EXCEPT ![e] = @ - 1] /\ busy' = [busy EXCEPT ![e] = @ - 1]
      /\ UNCHANGED <<place, before, open, wake, timer, phase, rotation, at, grant,
                     dispatched, wakers, faults, passed, silent>>
  BY DEF Leave, loop, ghosts
<1>2. /\ leaving \in [Configured -> Nat] /\ busy \in [Configured -> Nat]
      /\ \A f \in Configured : /\ busy[f] = leaving[f] + Cardinality(ClaimedAt(f))
                               /\ Cardinality(ClaimedAt(f)) \in Nat
                               /\ busy[f] <= Concurrency
  BY PlacesFacts DEF TypeOK, PlacesAccounted
<1>3. /\ leaving' \in [Configured -> Nat] /\ busy' \in [Configured -> Nat]
      /\ \A f \in Configured : /\ busy'[f] = leaving'[f] + Cardinality(ClaimedAt(f))
                               /\ busy'[f] <= busy[f]
  BY <1>1, <1>2
<1>4. Due' = Due /\ Claimed' = Claimed /\ Here' = Here
  BY <1>1 DEF Due, Claimed, Here
<1>5. TypeOK'
  BY <1>1, <1>3, <1>4 DEF TypeOK
<1>6. \A f : ClaimedAt(f)' = ClaimedAt(f)
  BY <1>4 DEF ClaimedAt
<1>7. Here \in Configured
  BY HereIsConfigured
<1>8. \A f \in Configured : busy'[f] <= Concurrency
  BY <1>2, <1>3, DispatcherAssumption
<1>9. phase' = "claim" => at' < Count /\ grant' + busy'[Here'] <= Concurrency
  <2>1. grant \in Nat /\ busy[Here] \in Nat /\ busy'[Here] \in Nat /\ busy'[Here] <= busy[Here]
    BY <1>2, <1>3, <1>7 DEF TypeOK
  <2> QED BY <1>1, <1>4, <2>1, DispatcherAssumption DEF PlacesAccounted
<1>10. PlacesAccounted'
  BY <1>1, <1>3, <1>4, <1>6, <1>8, <1>9 DEF PlacesAccounted, Configured
<1> QED BY <1>5, <1>10

\* Steps that move neither rows nor places.
LEMMA OtherStep ==
    ASSUME PlacesInv,
           \/ \E w \in wakers : Wake(w)
           \/ \E e \in Configured : Trip(e) \/ Readmit(e)
           \/ TimerFires \/ StartRound \/ EndRound \/ Woken \/ Polled
           \/ UNCHANGED vars
    PROVE  PlacesInv'
<1> USE DEF PlacesInv
<1>1. UNCHANGED <<place, before, busy, leaving, grant, passed, silent>>
  BY DEF Wake, Trip, Readmit, TimerFires, StartRound, EndRound, Woken, Polled, vars,
         workers, loop, ghosts
<1>2. Due' = Due /\ Claimed' = Claimed
  BY <1>1 DEF Due, Claimed
<1>3. TypeOK'
  <2>1. ASSUME NEW w \in wakers, Wake(w) PROVE TypeOK'
    BY <1>1, <1>2, <2>1 DEF TypeOK, Wake, loop
  <2>4. ASSUME NEW e \in Configured, Trip(e) \/ Readmit(e) PROVE TypeOK'
    <3>1. open' \subseteq Configured /\ faults' \in Nat
      BY <2>4 DEF TypeOK, Trip, Readmit
    <3> QED BY <1>1, <1>2, <2>4, <3>1 DEF TypeOK, Trip, Readmit, loop
  <2>5. CASE TimerFires \/ UNCHANGED vars
    BY <1>1, <1>2, <2>5 DEF TypeOK, Timer, TimerFires, vars, loop
  <2>2. CASE StartRound
    <3>1. rotation + 1 \in Nat
      BY NamesAssumption DEF TypeOK
    <3>2. rotation' \in 0..Count-1
      BY <2>2, <3>1, CountFacts DEF StartRound
    <3> QED BY <1>1, <1>2, <2>2, <3>2, CountFacts DEF TypeOK, StartRound, Phase
  <2>3. CASE EndRound \/ Woken \/ Polled
    BY <1>1, <1>2, <2>3, CountFacts DEF TypeOK, EndRound, Woken, Polled, Phase, Timer
  <2> QED BY <2>1, <2>2, <2>3, <2>4, <2>5
<1>4. phase' = "claim" => phase = "claim" /\ UNCHANGED <<at, grant, rotation>>
  BY DEF Wake, Trip, Readmit, TimerFires, StartRound, EndRound, Woken, Polled, vars, loop
<1>5. PlacesAccounted'
  <2>1. \A e : ClaimedAt(e)' = ClaimedAt(e)
    BY <1>2 DEF ClaimedAt
  <2>2. phase' = "claim" => Here' = Here
    BY <1>4 DEF Here
  <2> QED BY <1>1, <1>2, <1>4, <2>1, <2>2 DEF PlacesAccounted, Configured
<1> QED BY <1>3, <1>5

LEMMA VisitStep ==
    ASSUME PlacesInv,
           \/ Skip \/ ClaimFails
           \/ \E g \in 1..BatchSize : Grant(g)
           \/ \E batch \in SUBSET Notifications : Claim(batch)
    PROVE  PlacesInv'
<1> USE DEF PlacesInv
<1>1. Here \in Configured
  BY HereIsConfigured
<1>2. CASE Skip \/ ClaimFails
  <2>1. /\ UNCHANGED <<place, before, busy, leaving, open, wake, timer, rotation,
                       dispatched, wakers, silent>>
        /\ at' = at + 1 /\ phase' = "visit" /\ grant' \in {grant, 0}
        /\ faults' \in {faults, faults + 1}
        /\ passed' = passed \cup DueAt(Here) /\ at < Count
    BY <1>2 DEF Skip, ClaimFails, PlacesAccounted, workers
  <2>2. Due' = Due /\ Claimed' = Claimed
    BY <2>1 DEF Due, Claimed
  <2>3. TypeOK'
    BY <2>1, <2>2, NamesAssumption DEF TypeOK, Phase, DueAt
  <2>4. \A e : ClaimedAt(e)' = ClaimedAt(e)
    BY <2>2 DEF ClaimedAt
  <2>5. PlacesAccounted'
    BY <2>1, <2>2, <2>4 DEF PlacesAccounted, Configured
  <2> QED BY <2>3, <2>5
<1>3. ASSUME NEW g \in 1..BatchSize, Grant(g) PROVE PlacesInv'
  <2>1. /\ UNCHANGED <<place, before, busy, leaving, open, wake, timer, rotation, at,
                       dispatched, wakers, faults, passed, silent>>
        /\ at < Count /\ grant' = g /\ phase' = "claim" /\ g <= Concurrency - busy[Here]
    BY <1>3 DEF Grant, workers, ghosts
  <2>2. Due' = Due /\ Claimed' = Claimed /\ Here' = Here
    BY <2>1 DEF Due, Claimed, Here
  <2>3. g \in Nat /\ busy[Here] \in Nat
    BY <1>1, DispatcherAssumption DEF TypeOK
  <2>4. TypeOK'
    BY <2>1, <2>2, <2>3 DEF TypeOK, Phase
  <2>5. \A e : ClaimedAt(e)' = ClaimedAt(e)
    BY <2>2 DEF ClaimedAt
  <2>6. grant' + busy'[Here'] <= Concurrency
    BY <2>1, <2>2, <2>3, DispatcherAssumption
  <2>7. PlacesAccounted'
    BY <2>1, <2>2, <2>5, <2>6 DEF PlacesAccounted, Configured
  <2> QED BY <2>4, <2>7
<1>4. ASSUME NEW batch \in SUBSET Notifications, Claim(batch) PROVE PlacesInv'
  <2> DEFINE b == Here
  <2>1. /\ phase = "claim" /\ batch \subseteq DueAt(b) /\ Cardinality(batch) <= grant
        /\ place' = [n \in Notifications |-> IF n \in batch THEN "claimed" ELSE place[n]]
        /\ before' = {p \in before : p[1] \notin batch /\ p[2] \notin batch}
        /\ busy' = [busy EXCEPT ![b] = @ + Cardinality(batch)]
        /\ dispatched' = (dispatched \/ batch # {})
        /\ at' = at + 1 /\ phase' = "visit" /\ grant' = 0
        /\ passed' = passed \ batch /\ silent' = silent \ batch
        /\ UNCHANGED <<leaving, open, wake, timer, rotation, wakers, faults>>
    BY <1>4 DEF Claim, First, NoLongerDue
  <2>2. /\ b \in Configured /\ Cardinality(batch) \in Nat /\ IsFiniteSet(batch)
        /\ grant \in Nat /\ busy \in [Configured -> Nat] /\ leaving \in [Configured -> Nat]
        /\ at < Count /\ grant + busy[b] <= Concurrency
    BY <1>1, <2>1, PlacesFacts DEF TypeOK, PlacesAccounted
  <2> HIDE DEF b
  <2>3. \A n \in batch : n \in Due /\ Endpoint[n] = b
    BY <2>1 DEF DueAt
  <2>4. Due' = Due \ batch /\ Claimed' = Claimed \cup batch
    BY <2>1, <2>3 DEF Due, Claimed
  <2>5. TypeOK'
    <3>1. place' \in [Notifications -> Place]
      BY <2>1 DEF TypeOK, Place
    <3>2. busy' \in [Configured -> Nat] /\ at' \in 0..Count
      BY <2>1, <2>2, NamesAssumption DEF TypeOK
    <3>3. before' \subseteq Notifications \X Notifications
      BY <2>1 DEF TypeOK
    <3> QED BY <2>1, <2>4, <3>1, <3>2, <3>3 DEF TypeOK, Phase
  <2>6. ASSUME NEW e \in Configured
        PROVE  busy'[e] = leaving'[e] + Cardinality(ClaimedAt(e)') /\ busy'[e] <= Concurrency
    <3>1. /\ busy[e] = leaving[e] + Cardinality(ClaimedAt(e)) /\ busy[e] <= Concurrency
          /\ busy[e] \in Nat /\ leaving[e] \in Nat /\ Cardinality(ClaimedAt(e)) \in Nat
      BY <2>2, PlacesFacts DEF PlacesAccounted
    <3>2. CASE e = b
      <4>1. ClaimedAt(e)' = ClaimedAt(e) \cup batch /\ ClaimedAt(e) \cap batch = {}
        BY <2>3, <2>4, <3>2 DEF ClaimedAt, Claimed, Due
      <4>2. Cardinality(ClaimedAt(e) \cup batch)
            = Cardinality(ClaimedAt(e)) + Cardinality(batch) - Cardinality(ClaimedAt(e) \cap batch)
        BY <2>2, PlacesFacts, FS_Union
      <4>3. Cardinality(ClaimedAt(e) \cap batch) = 0
        BY <4>1, FS_EmptySet
      <4>4. Cardinality(ClaimedAt(e) \cup batch) = Cardinality(ClaimedAt(e)) + Cardinality(batch)
        BY <2>2, <3>1, <4>2, <4>3
      <4>5. Cardinality(ClaimedAt(e)') = Cardinality(ClaimedAt(e)) + Cardinality(batch)
        BY <4>1, <4>4
      <4>6. busy'[e] = busy[e] + Cardinality(batch) /\ leaving'[e] = leaving[e]
        BY <2>1, <2>2, <3>2
      <4> QED BY <2>1, <2>2, <3>1, <3>2, <4>5, <4>6, DispatcherAssumption
    <3>3. CASE e # b
      <4>1. ClaimedAt(e)' = ClaimedAt(e)
        BY <2>3, <2>4, <3>3 DEF ClaimedAt
      <4>2. busy'[e] = busy[e] /\ leaving'[e] = leaving[e]
        BY <2>1, <2>2, <3>3
      <4> QED BY <3>1, <4>1, <4>2
    <3> QED BY <3>2, <3>3
  <2>7. \A n \in Claimed' : Endpoint[n] \in Configured
    BY <2>2, <2>3, <2>4 DEF PlacesAccounted
  <2>8. PlacesAccounted'
    BY <2>1, <2>6, <2>7 DEF PlacesAccounted, Configured
  <2> QED BY <2>5, <2>8
<1> QED BY <1>2, <1>3, <1>4

LEMMA PlacesInvariant == Spec => []PlacesInv
<1>1. PlacesInv /\ [Next]_vars => PlacesInv'
  <2> SUFFICES ASSUME PlacesInv, [Next]_vars PROVE PlacesInv'
    OBVIOUS
  <2>1. ASSUME NEW n \in Notifications,
               Submit(n) \/ Requeue(n) \/ RetryComesDue(n) \/ Cancel(n)
        PROVE  PlacesInv'
    BY <2>1, RowStep
  <2>2. ASSUME NEW n \in Notifications, NEW where \in {"settled", "dead", "later", "lost"},
               Finish(n, where)
        PROVE  PlacesInv'
    BY <2>2, FinishStep
  <2>3. ASSUME NEW expired \in SUBSET Notifications, NEW exhausted \in SUBSET expired,
               Reap(expired, exhausted)
        PROVE  PlacesInv'
    BY <2>3, ReapStep
  <2>4. ASSUME NEW e \in Configured, Leave(e) PROVE PlacesInv'
    BY <2>4, LeaveStep
  <2>5. CASE \/ \E w \in wakers : Wake(w)
             \/ \E e \in Configured : Trip(e) \/ Readmit(e)
             \/ TimerFires \/ StartRound \/ EndRound \/ Woken \/ Polled
             \/ UNCHANGED vars
    BY <2>5, OtherStep
  <2>6. CASE \/ Skip \/ ClaimFails
             \/ \E g \in 1..BatchSize : Grant(g)
             \/ \E batch \in SUBSET Notifications : Claim(batch)
    BY <2>6, VisitStep
  <2> QED BY <2>1, <2>2, <2>3, <2>4, <2>5, <2>6 DEF Next, LoopStep
<1> QED BY PlacesInit, <1>1, PTL DEF Spec

\* Every variable of the loop has its type; in particular no semaphore is ever drained
\* below zero, for a worker leaves the place it took.
THEOREM TypeCorrect == Spec => []TypeOK
<1>1. PlacesInv => TypeOK
  BY DEF PlacesInv
<1> QED BY PlacesInvariant, <1>1, PTL

\* Claims, late write-backs and the visits between them never fill a semaphore past the
\* endpoint's concurrency, and every place taken is that of a worker that will leave it.
THEOREM PlacesAreAccounted == Spec => []PlacesAccounted
<1>1. PlacesInv => PlacesAccounted
  BY DEF PlacesInv
<1> QED BY PlacesInvariant, <1>1, PTL

================================================================================
