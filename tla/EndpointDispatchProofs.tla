------------------------- MODULE EndpointDispatchProofs -------------------------
(***************************************************************************)
(* What holds of one endpoint's dispatch for every number of places, every *)
(* threshold and every number of probes.                                   *)
(*                                                                         *)
(* The argument: only the dispatch goroutine fills places and only it      *)
(* turns a breaker half-open, so the places and the probes it counted are  *)
(* still there when it starts workers. Generations tell the answers of an  *)
(* earlier period apart.                                                   *)
(***************************************************************************)
EXTENDS EndpointDispatch, FiniteSetTheorems, TLAPS

\* grant is what the goroutine still means to start; it never exceeds the free places.
GrantFits ==
    /\ phase = "idle" => grant = 0
    /\ StartNeverBlocks

\* The generations of workers lie in the past or are the breaker's.
NoneAhead == \A s \in Slots : workers[s].generation <= breaker.generation

\* The accounts of a half-open breaker: every probe in flight has a worker, every worker
\* of the generation is a probe in flight or makes up for a stray answer, and the grant
\* is covered by free probes.
ProbeAccounts ==
    breaker.state = "half_open" =>
        /\ breaker.probesInFlight <= Cardinality(Probes)
        /\ Cardinality(Probes) <= breaker.probesInFlight + strays
        /\ breaker.probesInFlight + grant <= HalfOpenProbes

\* While the breaker is closed, the workers of its generation are those started since it
\* closed, and its failures are their fresh ones.
ClosedAccounts ==
    breaker.state = "closed" =>
        /\ \A s \in Slots : workers[s].busy =>
              (workers[s].old <=> workers[s].generation # breaker.generation)
        /\ breaker.consecutiveFailures <= fresh

DispatchInv ==
    /\ TypeOK
    /\ ~Enabled => breaker = NewBreaker
    /\ GrantFits
    /\ NoneAhead
    /\ ProbeAccounts
    /\ ClosedAccounts

-------------------------------------------------------------------------------
(* The breaker's methods. *)

LEMMA EnterFacts ==
    ASSUME NEW b \in BreakerRecord, NEW s \in BreakerState
    PROVE  /\ Enter(b, s) \in BreakerRecord
           /\ Enter(b, s).state = s /\ Enter(b, s).generation = b.generation + 1
           /\ Enter(b, s).consecutiveFailures = b.consecutiveFailures
<1> DEFINE e == [b EXCEPT !.state = s]
<1>1. /\ e \in BreakerRecord /\ e.state = s /\ e.generation = b.generation
      /\ e.consecutiveFailures = b.consecutiveFailures
  BY DEF BreakerRecord
<1>2. Enter(b, s) = [e EXCEPT !.generation = b.generation + 1]
  BY DEF Enter
<1>3. b.generation + 1 \in Nat
  BY DEF BreakerRecord
<1> HIDE DEF e
<1> QED BY <1>1, <1>2, <1>3 DEF BreakerRecord

LEMMA CooledDownFacts ==
    ASSUME NEW b \in BreakerRecord
    PROVE  /\ CooledDown(b) \in BreakerRecord
           /\ \/ CooledDown(b) = b
              \/ /\ Enabled /\ b.state = "open"
                 /\ CooledDown(b).state = "half_open"
                 /\ CooledDown(b).probesInFlight = 0
                 /\ CooledDown(b).generation = b.generation + 1
<1>1. Enter(b, "half_open") \in BreakerRecord
      /\ Enter(b, "half_open").state = "half_open"
      /\ Enter(b, "half_open").generation = b.generation + 1
  BY EnterFacts DEF BreakerState
<1> DEFINE c == [Enter(b, "half_open") EXCEPT !.probesInFlight = 0]
<1>2. /\ c \in BreakerRecord /\ c.state = "half_open" /\ c.probesInFlight = 0
      /\ c.generation = b.generation + 1
  BY <1>1 DEF BreakerRecord
<1> HIDE DEF c
<1>3. CooledDown(b) = IF Enabled /\ b.state = "open" /\ ~b.cooling THEN c ELSE b
  BY DEF CooledDown, c
<1> QED BY <1>2, <1>3

LEMMA AllowanceFacts ==
    ASSUME NEW b \in BreakerRecord, NEW limit \in Nat
    PROVE  /\ Allowance(b, limit) \in Nat /\ Allowance(b, limit) <= limit
           /\ Enabled /\ b.state = "half_open" /\ b.probesInFlight <= HalfOpenProbes
                => b.probesInFlight + Allowance(b, limit) <= HalfOpenProbes
BY BreakerAssumption DEF Allowance, FreeProbes, Least, BreakerRecord, BreakerState

LEMMA LeastFacts ==
    ASSUME NEW x \in Nat, NEW y \in Nat
    PROVE  Least(x, y) \in Nat /\ Least(x, y) <= x /\ Least(x, y) <= y
BY DEF Least

LEMMA AcquireFacts ==
    ASSUME NEW b \in BreakerRecord, NEW n \in Nat
    PROVE  /\ Acquire(b, n) \in BreakerRecord
           /\ Acquire(b, n).state = b.state /\ Acquire(b, n).generation = b.generation
           /\ Acquire(b, n).consecutiveFailures = b.consecutiveFailures
           /\ b.state = "half_open" => Acquire(b, n).probesInFlight = b.probesInFlight + n
BY DEF Acquire, BreakerRecord

LEMMA ProbeReturnedFacts ==
    ASSUME NEW b \in BreakerRecord
    PROVE  LET c == ProbeReturned(b) IN
           /\ c \in BreakerRecord
           /\ c.state = b.state /\ c.generation = b.generation
           /\ c.consecutiveFailures = b.consecutiveFailures
           /\ c.probesInFlight = IF b.state = "half_open" /\ b.probesInFlight > 0
                                 THEN b.probesInFlight - 1 ELSE b.probesInFlight
BY DEF ProbeReturned, BreakerRecord

LEMMA OnHealthyFacts ==
    ASSUME NEW b \in BreakerRecord
    PROVE  LET c == OnHealthy(b) IN
           /\ c \in BreakerRecord /\ c.state = "closed" /\ c.consecutiveFailures = 0
           /\ c.generation = IF b.state = "closed" THEN b.generation ELSE b.generation + 1
<1> DEFINE c == [b EXCEPT !.consecutiveFailures = 0]
<1>1. /\ c \in BreakerRecord /\ c.consecutiveFailures = 0
      /\ c.state = b.state /\ c.generation = b.generation
  BY DEF BreakerRecord
<1>2. OnHealthy(b) = IF b.state = "closed" THEN c ELSE Enter(c, "closed")
  BY DEF OnHealthy
<1> HIDE DEF c
<1>3. /\ Enter(c, "closed") \in BreakerRecord /\ Enter(c, "closed").state = "closed"
      /\ Enter(c, "closed").consecutiveFailures = 0
      /\ Enter(c, "closed").generation = b.generation + 1
  BY <1>1, EnterFacts DEF BreakerState
<1> QED BY <1>1, <1>2, <1>3

LEMMA OnUnhealthyFacts ==
    ASSUME NEW b \in BreakerRecord
    PROVE  LET c == OnUnhealthy(b) IN
           /\ c \in BreakerRecord /\ c.state # "half_open"
           /\ \/ c.state = b.state /\ c.generation = b.generation
              \/ c.state = "open" /\ c.generation = b.generation + 1
           /\ c.state = "closed" => c.consecutiveFailures = b.consecutiveFailures + 1
           /\ b.state = "closed" /\ c.state = "open"
                => b.consecutiveFailures + 1 >= FailureThreshold
           /\ c.state = "closed" => b.state = "closed"
<1> DEFINE c == [b EXCEPT !.consecutiveFailures = @ + 1]
           t == [Enter(c, "open") EXCEPT !.cooling = TRUE, !.probesInFlight = 0]
<1>1. /\ c \in BreakerRecord /\ c.consecutiveFailures = b.consecutiveFailures + 1
      /\ c.state = b.state /\ c.generation = b.generation
  BY DEF BreakerRecord
<1>2. OnUnhealthy(b) = IF \/ c.state = "half_open"
                          \/ c.state = "closed" /\ c.consecutiveFailures >= FailureThreshold
                       THEN t ELSE c
  BY DEF OnUnhealthy, Trip
<1>3. t \in BreakerRecord /\ t.state = "open" /\ t.generation = b.generation + 1
  <2> HIDE DEF c
  <2>1. /\ Enter(c, "open") \in BreakerRecord /\ Enter(c, "open").state = "open"
        /\ Enter(c, "open").generation = b.generation + 1
    BY <1>1, EnterFacts DEF BreakerState
  <2> QED BY <2>1 DEF BreakerRecord
<1>4. c.state \in BreakerState
  BY <1>1 DEF BreakerRecord
<1> HIDE DEF c, t
<1> QED BY <1>1, <1>2, <1>3, <1>4 DEF BreakerState

LEMMA ReportFacts ==
    ASSUME NEW b \in BreakerRecord, NEW verdict \in Verdict, NEW g \in Nat,
           NEW c, c = Report(b, verdict, g)
    PROVE  /\ c \in BreakerRecord
           /\ ~Enabled => c = b
           /\ b.generation <= c.generation
           /\ c.state = "half_open" =>
                 /\ b.state = "half_open" /\ c.generation = b.generation
                 /\ Enabled => c.probesInFlight = IF b.probesInFlight > 0
                                                  THEN b.probesInFlight - 1 ELSE 0
           /\ c.state = "closed" /\ b.state # "closed" =>
                 c.generation = b.generation + 1 /\ c.consecutiveFailures = 0
           /\ c.state = "closed" /\ b.state = "closed" =>
                 /\ c.generation = b.generation
                 /\ \/ c.consecutiveFailures = b.consecutiveFailures
                    \/ c.consecutiveFailures = 0
                    \/ /\ verdict = "unhealthy" /\ g = b.generation
                       /\ c.consecutiveFailures = b.consecutiveFailures + 1
                 /\ Enabled /\ verdict = "healthy" /\ g = b.generation
                       => c.consecutiveFailures = 0
           /\ b.state = "closed" /\ c.state = "open" =>
                 /\ verdict = "unhealthy" /\ g = b.generation
                 /\ b.consecutiveFailures + 1 >= FailureThreshold
<1> DEFINE r == ProbeReturned(b)
<1>1. /\ r \in BreakerRecord /\ r.state = b.state /\ r.generation = b.generation
      /\ r.consecutiveFailures = b.consecutiveFailures
      /\ b.state = "half_open" => r.probesInFlight = IF b.probesInFlight > 0
                                                     THEN b.probesInFlight - 1 ELSE 0
      /\ b.generation \in Nat /\ b.consecutiveFailures \in Nat /\ b.state \in BreakerState
      /\ r.consecutiveFailures \in Nat /\ r.generation \in Nat
  BY ProbeReturnedFacts DEF BreakerRecord
<1>2. /\ OnHealthy(r) \in BreakerRecord /\ OnHealthy(r).state = "closed"
      /\ OnHealthy(r).consecutiveFailures = 0
      /\ OnHealthy(r).generation = IF r.state = "closed" THEN r.generation
                                                         ELSE r.generation + 1
  BY <1>1, OnHealthyFacts
<1>3. LET u == OnUnhealthy(r) IN
      /\ u \in BreakerRecord /\ u.state # "half_open"
      /\ \/ u.state = r.state /\ u.generation = r.generation
         \/ u.state = "open" /\ u.generation = r.generation + 1
      /\ u.state = "closed" => u.consecutiveFailures = r.consecutiveFailures + 1
      /\ r.state = "closed" /\ u.state = "open"
           => r.consecutiveFailures + 1 >= FailureThreshold
      /\ u.state = "closed" => r.state = "closed"
  BY <1>1, OnUnhealthyFacts
<1>4. CASE ~Enabled
  <2>1. c = b
    BY <1>4 DEF Report
  <2> QED BY <1>1, <1>4, <2>1
<1>5. CASE Enabled /\ (verdict = "ignore" \/ g # b.generation)
  <2>1. c = r
    BY <1>5 DEF Report
  <2> HIDE DEF r
  <2> QED BY <1>1, <1>5, <2>1
<1>6. CASE Enabled /\ verdict = "healthy" /\ g = b.generation
  <2>1. c = OnHealthy(r)
    BY <1>6 DEF Report
  <2> HIDE DEF r
  <2> QED BY <1>1, <1>2, <1>6, <2>1
<1>7. CASE Enabled /\ verdict = "unhealthy" /\ g = b.generation
  <2>1. c = OnUnhealthy(r)
    BY <1>7 DEF Report
  <2> HIDE DEF r
  <2> QED BY <1>1, <1>3, <1>7, <2>1
<1> QED BY <1>4, <1>5, <1>6, <1>7, BreakerAssumption DEF Verdict

-------------------------------------------------------------------------------
(* The places. *)

LEMMA PlaceFacts ==
    /\ IsFiniteSet(IdleSlots) /\ Cardinality(IdleSlots) \in Nat
    /\ IsFiniteSet(Probes) /\ Cardinality(Probes) \in Nat
    /\ IsFiniteSet(IdleSlots') /\ Cardinality(IdleSlots') \in Nat
    /\ IsFiniteSet(Probes') /\ Cardinality(Probes') \in Nat
<1>1. ASSUME NEW S \in SUBSET Slots
      PROVE  IsFiniteSet(S) /\ Cardinality(S) \in Nat
  BY DispatchAssumption, FS_Subset, FS_CardinalityType
<1>2. /\ IdleSlots \in SUBSET Slots /\ Probes \in SUBSET Slots
      /\ IdleSlots' \in SUBSET Slots /\ Probes' \in SUBSET Slots
  BY DEF IdleSlots, Probes, Unreported
<1> QED BY <1>1, <1>2

LEMMA DispatchInit == Init => DispatchInv
<1> SUFFICES ASSUME Init PROVE DispatchInv
  OBVIOUS
<1>1. NewBreaker \in BreakerRecord /\ NewBreaker.state = "closed"
      /\ NewBreaker.generation = 0 /\ NewBreaker.consecutiveFailures = 0
  BY DEF NewBreaker, BreakerRecord, BreakerState
<1>2. workers \in [Slots -> Worker]
  BY DEF Init, Idle, Worker
<1>3. TypeOK
  BY <1>1, <1>2 DEF Init, TypeOK
<1>4. NoneAhead /\ ClosedAccounts
  BY <1>1 DEF Init, Idle, NoneAhead, ClosedAccounts
<1>5. GrantFits /\ ProbeAccounts
  BY <1>1 DEF Init, GrantFits, StartNeverBlocks, ProbeAccounts
<1> QED BY <1>3, <1>4, <1>5 DEF Init, DispatchInv

-------------------------------------------------------------------------------
(* The steps. *)

\* While the breaker is not enabled it stays as it was created, closed.
LEMMA HalfOpenIsEnabled ==
    ASSUME DispatchInv, breaker.state # "closed"
    PROVE  Enabled
BY DEF DispatchInv, NewBreaker

LEMMA AskStep == DispatchInv /\ AskAllowance => DispatchInv'
<1> SUFFICES ASSUME DispatchInv, AskAllowance PROVE DispatchInv'
  OBVIOUS
<1> USE BreakerAssumption, DispatchAssumption
<1> DEFINE free == Cardinality(IdleSlots)
           cooled == CooledDown(breaker)
           allowed == Allowance(cooled, free)
           budget == Least(allowed, BatchSize)
<1>1. /\ TypeOK /\ GrantFits /\ NoneAhead /\ ProbeAccounts /\ ClosedAccounts
      /\ breaker \in BreakerRecord /\ breaker.generation \in Nat
      /\ breaker.probesInFlight \in Nat
      /\ phase = "idle" /\ grant = 0 /\ strays \in Nat
  BY DEF DispatchInv, TypeOK, GrantFits, AskAllowance, BreakerRecord
<1>2. /\ breaker' = cooled /\ grant' = budget
      /\ phase' = IF budget > 0 THEN "granted" ELSE "idle"
      /\ UNCHANGED <<workers, faults, fresh, strays>>
  BY DEF AskAllowance
<1>3. /\ cooled \in BreakerRecord
      /\ \/ cooled = breaker
         \/ /\ Enabled /\ breaker.state = "open" /\ cooled.state = "half_open"
            /\ cooled.probesInFlight = 0 /\ cooled.generation = breaker.generation + 1
  BY <1>1, CooledDownFacts
<1>4. free \in Nat
  BY PlaceFacts
<1> HIDE DEF free, cooled
<1>5. /\ allowed \in Nat /\ allowed <= free
      /\ Enabled /\ cooled.state = "half_open" /\ cooled.probesInFlight <= HalfOpenProbes
           => cooled.probesInFlight + allowed <= HalfOpenProbes
  BY <1>3, <1>4, AllowanceFacts
<1> HIDE DEF allowed
<1>6. budget \in Nat /\ budget <= allowed
  BY <1>5, LeastFacts
<1> HIDE DEF budget
<1>7. TypeOK'
  BY <1>1, <1>2, <1>3, <1>6 DEF TypeOK
<1>8. (~Enabled => breaker = NewBreaker)'
  BY <1>2, <1>3 DEF DispatchInv
<1>9. GrantFits'
  <2>1. Cardinality(IdleSlots)' = free
    BY <1>2 DEF IdleSlots, free
  <2> QED BY <1>2, <1>4, <1>5, <1>6, <2>1 DEF GrantFits, StartNeverBlocks
<1>10. NoneAhead'
  <2>1. breaker.generation <= breaker'.generation /\ breaker'.generation \in Nat
    BY <1>1, <1>2, <1>3
  <2>2. \A s \in Slots : workers[s].generation \in Nat
    BY <1>1 DEF TypeOK, Worker
  <2> QED BY <1>1, <1>2, <2>1, <2>2 DEF NoneAhead
<1>11. ProbeAccounts'
  <2>1. CASE cooled = breaker
    <3>1. Probes' = Probes
      BY <1>2, <2>1 DEF Probes, Unreported
    <3>2. breaker.state = "half_open" => breaker.probesInFlight <= HalfOpenProbes
      BY <1>1 DEF ProbeAccounts
    <3>3. breaker.state = "half_open" => Enabled
      BY HalfOpenIsEnabled
    <3>4. breaker.state = "half_open" => breaker.probesInFlight + grant' <= HalfOpenProbes
      BY <1>1, <1>2, <1>5, <1>6, <2>1, <3>2, <3>3
    <3> QED BY <1>1, <1>2, <2>1, <3>1, <3>4 DEF ProbeAccounts
  <2>2. CASE cooled # breaker
    <3>1. Probes' = {}
      <4>1. \A s \in Slots : workers[s].generation \in Nat
        BY <1>1 DEF TypeOK, Worker
      <4> QED BY <1>1, <1>2, <1>3, <2>2, <4>1 DEF Probes, Unreported, NoneAhead
    <3>2. Cardinality(Probes') = 0
      BY <3>1, FS_EmptySet
    <3>3. Cardinality(Probes)' = 0
      BY <3>2
    <3> QED BY <1>1, <1>2, <1>3, <1>5, <1>6, <2>2, <3>3 DEF ProbeAccounts
  <2> QED BY <2>1, <2>2
<1>12. ClosedAccounts'
  BY <1>1, <1>2, <1>3 DEF ClosedAccounts
<1> QED BY <1>7, <1>8, <1>9, <1>10, <1>11, <1>12 DEF DispatchInv

LEMMA ClaimStep ==
    ASSUME NEW k \in 0..BatchSize, DispatchInv, Claim(k)
    PROVE  DispatchInv'
<1> USE BreakerAssumption, DispatchAssumption
<1>1. /\ TypeOK /\ GrantFits /\ NoneAhead /\ ProbeAccounts /\ ClosedAccounts
      /\ grant \in Nat /\ k \in Nat /\ k <= grant /\ phase = "granted" /\ grant' = k
      /\ phase' = IF k > 0 THEN "claimed" ELSE "idle"
      /\ UNCHANGED <<breaker, workers, faults, fresh, strays>>
  BY DEF DispatchInv, TypeOK, Claim
<1>2. TypeOK' /\ NoneAhead' /\ ClosedAccounts'
  BY <1>1 DEF TypeOK, NoneAhead, ClosedAccounts
<1>3. Cardinality(IdleSlots)' = Cardinality(IdleSlots) /\ Cardinality(Probes)' = Cardinality(Probes)
  BY <1>1 DEF IdleSlots, Probes, Unreported
<1>4. GrantFits'
  BY <1>1, <1>3, PlaceFacts DEF GrantFits, StartNeverBlocks
<1>5. breaker.probesInFlight \in Nat
  BY <1>1 DEF TypeOK, BreakerRecord
<1>6. ProbeAccounts'
  BY <1>1, <1>3, <1>5 DEF ProbeAccounts
<1> QED BY <1>1, <1>2, <1>4, <1>6 DEF DispatchInv

LEMMA StartStep ==
    ASSUME NEW places \in SUBSET Slots, DispatchInv, Start(places)
    PROVE  DispatchInv'
<1> USE BreakerAssumption, DispatchAssumption
<1> DEFINE new == [busy |-> TRUE, reported |-> FALSE,
                   generation |-> breaker.generation, old |-> FALSE]
<1>1. /\ TypeOK /\ GrantFits /\ NoneAhead /\ ProbeAccounts /\ ClosedAccounts
      /\ breaker \in BreakerRecord /\ breaker.generation \in Nat
      /\ breaker.probesInFlight \in Nat /\ grant \in Nat /\ strays \in Nat
      /\ \A s \in Slots : workers[s] \in Worker
  BY DEF DispatchInv, TypeOK, BreakerRecord
<1>2. /\ places \subseteq IdleSlots /\ Cardinality(places) = grant
      /\ breaker' = Acquire(breaker, grant)
      /\ workers' = [s \in Slots |-> IF s \in places THEN new ELSE workers[s]]
      /\ grant' = 0 /\ phase' = "idle"
      /\ UNCHANGED <<faults, fresh, strays>>
  BY DEF Start
<1>3. /\ breaker' \in BreakerRecord
      /\ breaker'.state = breaker.state /\ breaker'.generation = breaker.generation
      /\ breaker'.consecutiveFailures = breaker.consecutiveFailures
      /\ breaker.state = "half_open"
           => breaker'.probesInFlight = breaker.probesInFlight + grant
  BY <1>1, <1>2, AcquireFacts
<1>4. new \in Worker /\ new.busy /\ ~new.reported /\ ~new.old
      /\ new.generation = breaker.generation
  BY <1>1 DEF Worker
<1> HIDE DEF new
<1>5. TypeOK'
  BY <1>1, <1>2, <1>3, <1>4 DEF TypeOK
<1>6. (~Enabled => breaker = NewBreaker)'
  <2>1. NewBreaker.state # "half_open"
    BY DEF NewBreaker
  <2>2. breaker.state # "half_open" => breaker' = breaker
    BY <1>2 DEF Acquire
  <2> QED BY <2>1, <2>2 DEF DispatchInv
<1>7. GrantFits'
  BY <1>2 DEF GrantFits, StartNeverBlocks
<1>8. NoneAhead'
  BY <1>1, <1>2, <1>3, <1>4 DEF NoneAhead
<1>9. ProbeAccounts'
  <2>1. Probes' = Probes \cup places
    BY <1>1, <1>2, <1>3, <1>4 DEF Probes, Unreported, IdleSlots
  <2>2. Probes \cap places = {}
    BY <1>2 DEF Probes, Unreported, IdleSlots
  <2>3. IsFiniteSet(Probes) /\ IsFiniteSet(places) /\ Cardinality(Probes) \in Nat
    BY PlaceFacts, FS_Subset
  <2>4. Cardinality(Probes \cup places) =
            Cardinality(Probes) + Cardinality(places) - Cardinality(Probes \cap places)
    BY <2>3, FS_Union
  <2>5. Cardinality(Probes') = Cardinality(Probes) + grant
    <3>1. Cardinality(Probes \cap places) = 0
      BY <2>2, FS_EmptySet
    <3>2. Cardinality(Probes \cup places) = Cardinality(Probes) + grant
      BY <1>1, <1>2, <2>3, <2>4, <3>1
    <3> QED BY <2>1, <3>2
  <2>6. Cardinality(Probes)' = Cardinality(Probes) + grant
    BY <2>5
  <2> QED BY <1>1, <1>2, <1>3, <2>3, <2>6 DEF ProbeAccounts
<1>10. ClosedAccounts'
  BY <1>1, <1>2, <1>3, <1>4 DEF ClosedAccounts, IdleSlots
<1> QED BY <1>5, <1>6, <1>7, <1>8, <1>9, <1>10 DEF DispatchInv

LEMMA ReleaseStep ==
    ASSUME NEW s \in Slots, DispatchInv, Release(s)
    PROVE  DispatchInv'
<1> USE BreakerAssumption, DispatchAssumption
<1>1. /\ TypeOK /\ GrantFits /\ NoneAhead /\ ProbeAccounts /\ ClosedAccounts
      /\ breaker \in BreakerRecord /\ breaker.generation \in Nat /\ grant \in Nat
      /\ workers \in [Slots -> Worker]
      /\ workers[s].busy /\ workers[s].reported
      /\ workers' = [workers EXCEPT ![s] = Idle]
      /\ UNCHANGED <<breaker, phase, grant, faults, fresh, strays>>
  BY DEF DispatchInv, TypeOK, BreakerRecord, Release
<1>2. Idle \in Worker /\ ~Idle.busy /\ Idle.generation = 0
  BY DEF Idle, Worker
<1>3. \A p \in Slots : workers'[p] = IF p = s THEN Idle ELSE workers[p]
  BY <1>1
<1>4. TypeOK' /\ (~Enabled => breaker = NewBreaker)'
  BY <1>1, <1>2 DEF TypeOK, DispatchInv
<1>5. NoneAhead' /\ ClosedAccounts'
  BY <1>1, <1>2, <1>3 DEF NoneAhead, ClosedAccounts
<1>6. GrantFits'
  <2>1. IdleSlots \subseteq IdleSlots'
    BY <1>1, <1>2, <1>3 DEF IdleSlots
  <2>2. Cardinality(IdleSlots) <= Cardinality(IdleSlots')
    BY <2>1, PlaceFacts, FS_Subset
  <2>3. Cardinality(IdleSlots) <= Cardinality(IdleSlots)'
    BY <2>2
  <2>4. Cardinality(IdleSlots) \in Nat /\ Cardinality(IdleSlots)' \in Nat
    BY PlaceFacts
  <2> QED BY <1>1, <2>3, <2>4 DEF GrantFits, StartNeverBlocks
<1>7. ProbeAccounts'
  <2>1. Probes' = Probes
    BY <1>1, <1>2, <1>3 DEF Probes, Unreported
  <2> QED BY <1>1, <2>1 DEF ProbeAccounts
<1> QED BY <1>4, <1>5, <1>6, <1>7, <1>1 DEF DispatchInv

LEMMA CooldownStep == DispatchInv /\ CooldownElapses => DispatchInv'
<1> SUFFICES ASSUME DispatchInv, CooldownElapses PROVE DispatchInv'
  OBVIOUS
<1> USE BreakerAssumption, DispatchAssumption
<1>1. /\ TypeOK /\ GrantFits /\ NoneAhead
      /\ breaker \in BreakerRecord /\ breaker.state = "open"
      /\ breaker' = [breaker EXCEPT !.cooling = FALSE]
      /\ UNCHANGED <<phase, grant, workers, faults, fresh, strays>>
  BY DEF DispatchInv, TypeOK, CooldownElapses
<1>2. /\ breaker' \in BreakerRecord /\ breaker'.state = "open"
      /\ breaker'.generation = breaker.generation
  BY <1>1 DEF BreakerRecord
<1>3. TypeOK' /\ NoneAhead' /\ ProbeAccounts' /\ ClosedAccounts'
  BY <1>1, <1>2 DEF TypeOK, NoneAhead, ProbeAccounts, ClosedAccounts
<1>4. GrantFits'
  BY <1>1 DEF GrantFits, StartNeverBlocks, IdleSlots
<1>5. Enabled
  BY <1>1, HalfOpenIsEnabled
<1> QED BY <1>3, <1>4, <1>5 DEF DispatchInv

LEMMA ReportStep ==
    ASSUME NEW s \in Slots, NEW verdict \in Verdict, DispatchInv, ReportVerdict(s, verdict)
    PROVE  /\ DispatchInv'
           /\ breaker.state = "closed" /\ breaker'.state = "open"
                => fresh' >= FailureThreshold
<1> USE BreakerAssumption, DispatchAssumption
<1> DEFINE g == workers[s].generation
           after == Report(breaker, verdict, g)
           young == ~workers[s].old
<1>1. /\ TypeOK /\ GrantFits /\ NoneAhead /\ ProbeAccounts /\ ClosedAccounts
      /\ breaker \in BreakerRecord /\ breaker.generation \in Nat
      /\ breaker.state \in BreakerState
      /\ breaker.probesInFlight \in Nat /\ breaker.consecutiveFailures \in Nat
      /\ grant \in Nat /\ strays \in Nat /\ fresh \in Nat /\ faults \in Nat
      /\ \A p \in Slots : workers[p] \in Worker
      /\ \A p \in Slots : workers[p].generation \in Nat
      /\ ~Enabled => breaker = NewBreaker
  BY DEF DispatchInv, TypeOK, BreakerRecord, Worker
<1>2. s \in Unreported /\ breaker' = after /\ UNCHANGED <<phase, grant>>
  BY DEF ReportVerdict
<1>2w. workers' = [p \in Slots |->
                     [workers[p] EXCEPT !.reported = @ \/ p = s,
                                        !.old = workers[p].busy
                                                /\ (@ \/ Closes(after))]]
  BY DEF ReportVerdict
<1>2h. /\ faults' = IF verdict = "unhealthy" THEN faults + 1 ELSE faults
       /\ fresh' = IF Closes(after) \/ (verdict = "healthy" /\ young) THEN 0
                   ELSE IF verdict = "unhealthy" /\ young THEN fresh + 1 ELSE fresh
       /\ strays' = IF after.state # "half_open" THEN 0
                    ELSE IF g # breaker.generation THEN strays + 1 ELSE strays
  <2>1. /\ faults' = IF verdict = "unhealthy" THEN faults + 1 ELSE faults
        /\ fresh' = CASE Closes(after) \/ (verdict = "healthy" /\ young) -> 0
                      [] verdict = "unhealthy" /\ young /\ ~Closes(after) -> fresh + 1
                      [] OTHER -> fresh
        /\ strays' = CASE after.state # "half_open" -> 0
                       [] after.state = "half_open" /\ g # breaker.generation -> strays + 1
                       [] OTHER -> strays
    BY DEF ReportVerdict
  <2> HIDE DEF after, g, young
  <2>2. fresh' = IF Closes(after) \/ (verdict = "healthy" /\ young) THEN 0
                 ELSE IF verdict = "unhealthy" /\ young THEN fresh + 1 ELSE fresh
    BY <2>1
  <2>3. strays' = IF after.state # "half_open" THEN 0
                  ELSE IF g # breaker.generation THEN strays + 1 ELSE strays
    BY <2>1
  <2> QED BY <2>1, <2>2, <2>3
<1>3. \A p \in Slots :
         /\ workers'[p] \in Worker
         /\ workers'[p].busy = workers[p].busy
         /\ workers'[p].generation = workers[p].generation
         /\ workers'[p].reported = (workers[p].reported \/ p = s)
         /\ workers'[p].old = (workers[p].busy /\ (workers[p].old \/ Closes(after)))
  BY <1>1, <1>2w DEF Worker, Closes
<1>4. /\ after \in BreakerRecord
      /\ ~Enabled => after = breaker
      /\ breaker.generation <= after.generation
      /\ after.state = "half_open" =>
            /\ breaker.state = "half_open" /\ after.generation = breaker.generation
            /\ Enabled => after.probesInFlight = IF breaker.probesInFlight > 0
                                                 THEN breaker.probesInFlight - 1 ELSE 0
      /\ after.state = "closed" /\ breaker.state # "closed" =>
            after.generation = breaker.generation + 1 /\ after.consecutiveFailures = 0
      /\ after.state = "closed" /\ breaker.state = "closed" =>
            /\ after.generation = breaker.generation
            /\ \/ after.consecutiveFailures = breaker.consecutiveFailures
               \/ after.consecutiveFailures = 0
               \/ /\ verdict = "unhealthy" /\ g = breaker.generation
                  /\ after.consecutiveFailures = breaker.consecutiveFailures + 1
            /\ Enabled /\ verdict = "healthy" /\ g = breaker.generation
                  => after.consecutiveFailures = 0
      /\ breaker.state = "closed" /\ after.state = "open" =>
            /\ verdict = "unhealthy" /\ g = breaker.generation
            /\ breaker.consecutiveFailures + 1 >= FailureThreshold
      /\ after.generation \in Nat
  <2>1. g \in Nat
    BY <1>1
  <2> HIDE DEF g
  <2>2. after \in BreakerRecord => after.generation \in Nat
    BY DEF BreakerRecord
  <2>3. after = Report(breaker, verdict, g)
    OBVIOUS
  <2>4. breaker \in BreakerRecord
    BY <1>1
  <2> HIDE DEF after
  <2> QED BY ONLY <2>1, <2>2, <2>3, <2>4, ReportFacts, verdict \in Verdict
<1>5. workers[s].busy /\ ~workers[s].reported /\ s \in Slots
  BY <1>2 DEF Unreported
<1> HIDE DEF after
<1>6. TypeOK'
  <2>1. workers' \in [Slots -> Worker]
    <3>1. \A p \in Slots : workers'[p] \in Worker
      BY <1>3
    <3>2. workers' = [p \in Slots |-> workers'[p]]
      BY <1>2w
    <3> QED BY <3>1, <3>2
  <2>2. faults' \in Nat /\ fresh' \in Nat /\ strays' \in Nat
    BY <1>1, <1>2h
  <2> QED BY <1>1, <1>2, <1>4, <2>1, <2>2 DEF TypeOK
<1>7. (~Enabled => breaker = NewBreaker)'
  BY <1>1, <1>2, <1>4
<1>8. GrantFits'
  <2>1. IdleSlots' = IdleSlots
    BY <1>3 DEF IdleSlots
  <2>2. Cardinality(IdleSlots)' = Cardinality(IdleSlots)
    BY <2>1
  <2> QED BY <1>1, <1>2, <2>2 DEF GrantFits, StartNeverBlocks
<1>9. NoneAhead'
  <2>1. \A p \in Slots : workers'[p].generation <= after.generation
    <3>1. \A p \in Slots : /\ workers'[p].generation = workers[p].generation
                           /\ workers[p].generation \in Nat
                           /\ workers[p].generation <= breaker.generation
      BY <1>1, <1>3 DEF NoneAhead
    <3> QED BY <1>1, <1>4, <3>1
  <2> QED BY <1>2, <2>1 DEF NoneAhead
<1>10. ProbeAccounts'
  <2> SUFFICES ASSUME after.state = "half_open" PROVE ProbeAccounts'
    BY <1>2 DEF ProbeAccounts
  <2>1. /\ breaker.state = "half_open" /\ after.generation = breaker.generation
        /\ after.probesInFlight = IF breaker.probesInFlight > 0
                                  THEN breaker.probesInFlight - 1 ELSE 0
    BY <1>4, HalfOpenIsEnabled
  <2>2. /\ breaker.probesInFlight <= Cardinality(Probes)
        /\ Cardinality(Probes) <= breaker.probesInFlight + strays
        /\ breaker.probesInFlight + grant <= HalfOpenProbes
    BY <1>1, <2>1 DEF ProbeAccounts
  <2>3. Probes' = Probes \ {s}
    <3>1. breaker'.generation = breaker.generation
      BY <1>2, <2>1
    <3>2. Unreported' = Unreported \ {s}
      BY <1>3 DEF Unreported
    <3>3. \A p \in Slots : workers'[p].generation = workers[p].generation
      BY <1>3
    <3> QED BY <3>1, <3>2, <3>3 DEF Probes, Unreported
  <2>4. s \in Probes <=> g = breaker.generation
    BY <1>2 DEF Probes
  <2>5. IsFiniteSet(Probes) /\ Cardinality(Probes) \in Nat
    BY PlaceFacts
  <2>6. CASE s \in Probes
    <3>1. /\ Cardinality(Probes \ {s}) = Cardinality(Probes) - 1
          /\ Cardinality(Probes \ {s}) \in Nat
      BY <2>5, <2>6, FS_RemoveElement, FS_CardinalityType
    <3>2. Cardinality(Probes)' = Cardinality(Probes) - 1 /\ Cardinality(Probes)' \in Nat
      BY <2>3, <3>1
    <3>3. strays' = strays
      BY <1>2h, <2>4, <2>6
    <3>4. /\ after.probesInFlight <= Cardinality(Probes)'
          /\ Cardinality(Probes)' <= after.probesInFlight + strays'
          /\ after.probesInFlight + grant <= HalfOpenProbes
      BY <1>1, <2>1, <2>2, <2>5, <3>2, <3>3
    <3> QED BY <1>2, <3>4 DEF ProbeAccounts
  <2>7. CASE s \notin Probes
    <3>1. Cardinality(Probes)' = Cardinality(Probes)
      BY <2>3, <2>7
    <3>2. strays' = strays + 1
      BY <1>2h, <2>4, <2>7
    <3>3. /\ after.probesInFlight <= Cardinality(Probes)'
          /\ Cardinality(Probes)' <= after.probesInFlight + strays'
          /\ after.probesInFlight + grant <= HalfOpenProbes
      BY <1>1, <2>1, <2>2, <2>5, <3>1, <3>2
    <3> QED BY <1>2, <3>3 DEF ProbeAccounts
  <2> QED BY <2>6, <2>7
<1>11. ClosedAccounts'
  <2> SUFFICES ASSUME after.state = "closed" PROVE ClosedAccounts'
    BY <1>2 DEF ClosedAccounts
  <2>1. CASE breaker.state = "closed"
    <3>1. /\ after.generation = breaker.generation /\ ~Closes(after)
          /\ \A p \in Slots : workers[p].busy =>
                (workers[p].old <=> workers[p].generation # breaker.generation)
          /\ breaker.consecutiveFailures <= fresh
      BY <1>1, <1>4, <2>1 DEF ClosedAccounts, Closes
    <3>2. \A p \in Slots : workers'[p].busy =>
             (workers'[p].old <=> workers'[p].generation # breaker'.generation)
      BY <1>2, <1>3, <3>1
    <3>3. young <=> g = breaker.generation
      BY <1>5, <3>1
    <3>4. after.consecutiveFailures <= fresh'
      <4>1. CASE verdict = "healthy" /\ young
        <5>1. after.consecutiveFailures = 0
          <6>1. ~Enabled => after.consecutiveFailures = 0
            BY <1>1, <1>4 DEF NewBreaker
          <6> QED BY <1>4, <2>1, <3>3, <4>1, <6>1
        <5>2. fresh' = 0
          BY <1>2h, <4>1
        <5> QED BY <5>1, <5>2
      <4>2. CASE verdict = "unhealthy" /\ young
        <5>1. fresh' = fresh + 1
          BY <1>2h, <3>1, <4>2
        <5> QED BY <1>1, <1>4, <2>1, <3>1, <5>1
      <4>3. CASE ~young \/ verdict = "ignore"
        <5>1. fresh' = fresh
          BY <1>2h, <3>1, <4>3
        <5>2. ~(verdict = "unhealthy" /\ g = breaker.generation)
          BY <3>3, <4>3
        <5> QED BY <1>1, <1>4, <2>1, <3>1, <5>1, <5>2
      <4> QED BY <4>1, <4>2, <4>3 DEF Verdict
    <3> QED BY <1>2, <3>2, <3>4 DEF ClosedAccounts
  <2>2. CASE breaker.state # "closed"
    <3>1. /\ after.generation = breaker.generation + 1
          /\ after.consecutiveFailures = 0 /\ Closes(after)
      BY <1>4, <2>2 DEF Closes
    <3>2. fresh' = 0
      BY <1>2h, <3>1
    <3>3. \A p \in Slots : workers'[p].generation # breaker'.generation
      <4>1. \A p \in Slots : /\ workers'[p].generation = workers[p].generation
                             /\ workers[p].generation \in Nat
                             /\ workers[p].generation <= breaker.generation
        BY <1>1, <1>3 DEF NoneAhead
      <4> QED BY <1>1, <1>2, <3>1, <4>1
    <3>4. \A p \in Slots : workers'[p].busy => workers'[p].old
      BY <1>3, <3>1
    <3>5. breaker'.consecutiveFailures <= fresh'
      BY <1>2, <3>1, <3>2
    <3> QED BY <3>3, <3>4, <3>5 DEF ClosedAccounts
  <2> QED BY <2>1, <2>2
<1>12. breaker.state = "closed" /\ breaker'.state = "open" => fresh' >= FailureThreshold
  <2> SUFFICES ASSUME breaker.state = "closed", after.state = "open"
               PROVE  fresh' >= FailureThreshold
    BY <1>2
  <2>1. /\ verdict = "unhealthy" /\ g = breaker.generation
        /\ breaker.consecutiveFailures + 1 >= FailureThreshold
        /\ breaker.consecutiveFailures <= fresh
    BY <1>1, <1>4 DEF ClosedAccounts
  <2>2. young /\ ~Closes(after)
    BY <1>1, <1>5, <2>1 DEF ClosedAccounts, Closes
  <2>3. fresh' = fresh + 1
    BY <1>2h, <2>1, <2>2
  <2> QED BY <1>1, <2>1, <2>3
<1> QED BY <1>6, <1>7, <1>8, <1>9, <1>10, <1>11, <1>12 DEF DispatchInv

-------------------------------------------------------------------------------
(* The theorems. *)

LEMMA DispatchStep == DispatchInv /\ [Next]_vars => DispatchInv'
<1> SUFFICES ASSUME DispatchInv, [Next]_vars PROVE DispatchInv'
  OBVIOUS
<1>1. CASE AskAllowance
  BY <1>1, AskStep
<1>2. ASSUME NEW k \in 0..BatchSize, Claim(k) PROVE DispatchInv'
  BY <1>2, ClaimStep
<1>3. ASSUME NEW places \in SUBSET Slots, Start(places) PROVE DispatchInv'
  BY <1>3, StartStep
<1>4. ASSUME NEW s \in Slots, NEW verdict \in Verdict, ReportVerdict(s, verdict)
      PROVE  DispatchInv'
  BY <1>4, ReportStep
<1>5. ASSUME NEW s \in Slots, Release(s) PROVE DispatchInv'
  BY <1>5, ReleaseStep
<1>6. CASE CooldownElapses
  BY <1>6, CooldownStep
<1>7. CASE UNCHANGED vars
  <2>1. UNCHANGED <<breaker, phase, grant, workers, faults, fresh, strays>>
    BY <1>7 DEF vars
  <2>2. IdleSlots' = IdleSlots /\ Probes' = Probes
    BY <2>1 DEF IdleSlots, Probes, Unreported
  <2> QED BY <2>1, <2>2 DEF DispatchInv, TypeOK, GrantFits, StartNeverBlocks, NoneAhead,
                            ProbeAccounts, ClosedAccounts
<1> QED BY <1>1, <1>2, <1>3, <1>4, <1>5, <1>6, <1>7 DEF Next

LEMMA DispatchInvariant == Spec => []DispatchInv
BY DispatchInit, DispatchStep, PTL DEF Spec

\* Every variable of one endpoint's dispatch has its type.
THEOREM TypeCorrect == Spec => []TypeOK
<1>1. DispatchInv => TypeOK
  BY DEF DispatchInv
<1> QED BY DispatchInvariant, <1>1, PTL

\* Whatever the number of places and the batch size, the dispatch goroutine finds the
\* places it counted before the claim still free: it never waits on the semaphore
\* (dispatchEndpoint).
THEOREM DispatchNeverBlocks == Spec => []StartNeverBlocks
<1>1. DispatchInv => StartNeverBlocks
  BY DEF DispatchInv, GrantFits
<1> QED BY DispatchInvariant, <1>1, PTL

\* Whatever the order of trips, late answers and ignored verdicts, a half-open breaker
\* counts no probe that has no worker left to report it (Acquire, Report).
THEOREM NoProbeLeaks == Spec => []ProbesHaveWorkers
<1>1. DispatchInv => ProbesHaveWorkers
  BY DEF DispatchInv, ProbeAccounts, ProbesHaveWorkers
<1> QED BY DispatchInvariant, <1>1, PTL

\* For every half_open_probes, a half-open endpoint exceeds it by no more than the late
\* answers of earlier generations it has had (Report returns a probe for any answer).
THEOREM ProbesAreExplained == Spec => []ProbesExplained
<1>1. DispatchInv => ProbesExplained
  <2> SUFFICES ASSUME DispatchInv, breaker.state = "half_open"
               PROVE  Cardinality(Probes) <= HalfOpenProbes + strays
    BY DEF ProbesExplained
  <2>1. /\ Cardinality(Probes) <= breaker.probesInFlight + strays
        /\ breaker.probesInFlight + grant <= HalfOpenProbes
        /\ breaker.probesInFlight \in Nat /\ grant \in Nat /\ strays \in Nat
    BY DEF DispatchInv, ProbeAccounts, TypeOK, BreakerRecord
  <2> QED BY <2>1, PlaceFacts, BreakerAssumption
<1> QED BY DispatchInvariant, <1>1, PTL

\* For every failure_threshold, only that many failures in a row of requests started
\* since the breaker closed make it open (onUnhealthy, and the generation of Report).
THEOREM TripsAreFresh == Spec => OnlyFreshFailuresTrip
<1> DEFINE Trips == breaker.state = "closed" /\ breaker'.state = "open"
<1>1. DispatchInv /\ [Next]_vars => [Trips => fresh' >= FailureThreshold]_vars
  <2> SUFFICES ASSUME DispatchInv, Next, Trips PROVE fresh' >= FailureThreshold
    BY DEF vars
  <2>1. breaker \in BreakerRecord /\ grant \in Nat
    BY DEF DispatchInv, TypeOK
  <2>2. ~AskAllowance
    BY <2>1, CooledDownFacts DEF AskAllowance
  <2>3. \A k \in 0..BatchSize : ~Claim(k)
    BY DEF Claim
  <2>4. \A places \in SUBSET Slots : ~Start(places)
    BY <2>1, AcquireFacts DEF Start
  <2>5. ~CooldownElapses
    BY DEF CooldownElapses
  <2>6. \A s \in Slots : ~Release(s)
    BY DEF Release
  <2>7. PICK s \in Slots, verdict \in Verdict : ReportVerdict(s, verdict)
    BY <2>2, <2>3, <2>4, <2>5, <2>6 DEF Next
  <2> QED BY <2>7, ReportStep
<1> QED BY DispatchInvariant, <1>1, PTL DEF Spec, OnlyFreshFailuresTrip

=================================================================================
