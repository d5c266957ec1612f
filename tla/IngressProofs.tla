------------------------------ MODULE IngressProofs ------------------------------
(***************************************************************************)
(* Submissions are idempotent for every number of clients, tries and       *)
(* faults, an error answer is the truth, and an operator who pages through *)
(* the table meanwhile sees every row once, ties excepted.                 *)
(*                                                                         *)
(* The argument: between the query that misses a key and the INSERT under  *)
(* it the handler holds the only write lock, so what the query saw is what *)
(* the INSERT meets; and a handler answers what its transaction held. The  *)
(* cursor parts the rows: all that is shown lies at or above it, all that  *)
(* is owed below it, and late rows are neither.                            *)
(***************************************************************************)
EXTENDS ListWalk, FiniteSetTheorems, WellFoundedInduction, TLAPS

NotStored(r) == \A x \in rows : x.id # r

\* The request names a row that stands for it.
Named(r) == \E x \in rows : x.id = requests[r].id /\ Registry!StandsFor(x.id, r)

InTransaction(r) == requests[r].phase \in {"begun", "missing", "found"}

\* What each phase of a handler knows of the lock, of the table and of its answer.
Sound(r) ==
    /\ InTransaction(r) => lock = r
    /\ requests[r].phase \in {"received", "begun", "missing"} => requests[r].createdAt # 0
    /\ requests[r].phase # "over" => requests[r].code = 0
    /\ requests[r].phase \notin {"committed", "over"} => NotStored(r)
    /\ requests[r].code \in {400, 503} => NotStored(r)
    /\ requests[r].phase = "missing" => Holders(r) = {}
    /\ requests[r].phase \in {"found", "committed"} => Named(r)
    /\ Accepted(r) => Named(r)

\* Tries are made in order.
Fresh ==
    \A c \in Clients : \A k \in 1..MaxTries[c] :
        k > tries[c] => requests[<<c, k>>].phase = "unsent"

RowsKeyed == \A x \in rows : x.key = Key[Client(x.id)]

IngressInv ==
    /\ TypeOK
    /\ \A r \in Tries : Sound(r)
    /\ Fresh
    /\ RowsKeyed

-------------------------------------------------------------------------------

LEMMA TryFacts ==
    /\ \A r \in Tries : Client(r) \in Clients
    /\ \A c \in Clients : \A k \in 1..MaxTries[c] : <<c, k>> \in Tries
BY DEF Tries, Client

LEMMA IngressInit == Init => IngressInv
<1> SUFFICES ASSUME Init PROVE IngressInv
  OBVIOUS
<1>1. /\ requests \in [Tries -> Request]
      /\ \A r \in Tries : requests[r].phase = "unsent" /\ requests[r].code = 0
  BY IngressAssumption DEF Init, Unsent, Request, Phase
<1>2. TypeOK
  BY <1>1, IngressAssumption DEF Init, TypeOK
<1>3. \A r \in Tries : Sound(r)
  BY <1>1 DEF Init, Sound, InTransaction, NotStored, Accepted
<1>4. Fresh /\ RowsKeyed
  BY <1>1, TryFacts DEF Init, Fresh, RowsKeyed
<1> QED BY <1>2, <1>3, <1>4 DEF IngressInv

\* A step of one request that writes no row disturbs no other request, provided that it
\* takes the lock from nobody.
LEMMA OneRequestMoves ==
    ASSUME IngressInv, NEW r \in Tries, NEW new \in Request,
           requests' = [requests EXCEPT ![r] = new], rows' = rows,
           lock' \in Tries \cup {None},
           \A q \in Tries \ {r} : InTransaction(q) => lock' = lock,
           requests[r].phase # "unsent", Sound(r)',
           tries' = tries, clock' = clock, faults' \in 0..MaxFaults
    PROVE  IngressInv'
<1>1. /\ TypeOK /\ \A q \in Tries : Sound(q)
      /\ Fresh /\ RowsKeyed /\ requests \in [Tries -> Request]
  BY DEF IngressInv, TypeOK
<1>2. \A q \in Tries \ {r} : requests'[q] = requests[q]
  BY <1>1
<1>3. TypeOK'
  BY <1>1 DEF TypeOK
<1>4. ASSUME NEW q \in Tries, q # r PROVE Sound(q)'
  <2>1. requests'[q] = requests[q] /\ Sound(q)
    BY <1>1, <1>2, <1>4
  <2>2. Named(q)' <=> Named(q)
    BY <2>1 DEF Named, Registry!StandsFor
  <2>3. NotStored(q)' <=> NotStored(q)
    BY DEF NotStored
  <2>4. Holders(q)' = Holders(q)
    BY DEF Holders
  <2>5. InTransaction(q)' => lock' = q
    BY <1>4, <2>1 DEF InTransaction, Sound
  <2> QED BY <2>1, <2>2, <2>3, <2>4, <2>5 DEF Sound, Accepted, InTransaction
<1>5. \A q \in Tries : Sound(q)'
  BY <1>4
<1>6. Fresh'
  BY <1>1, <1>2, TryFacts DEF Fresh
<1>7. RowsKeyed'
  BY <1>1 DEF RowsKeyed
<1> QED BY <1>3, <1>5, <1>6, <1>7 DEF IngressInv

\* Such a step changes nothing in the register unless the request is answered with a 2xx.
LEMMA RegisterStands ==
    ASSUME rows' = rows, \A q \in Tries : Accepted(q)' <=> Accepted(q),
           \A q \in Tries : Accepted(q) => requests'[q] = requests[q]
    PROVE  UNCHANGED Registry!vars
<1>1. {q \in Tries : Accepted(q)}' = {q \in Tries : Accepted(q)}
  OBVIOUS
<1>2. {<<q, requests[q].id>> : q \in {p \in Tries : Accepted(p)}}'
      = {<<q, requests[q].id>> : q \in {p \in Tries : Accepted(p)}}
  BY <1>1
<1> QED BY <1>2 DEF Registry!vars

-------------------------------------------------------------------------------
(* The handlers. *)

RegisterStep == [Registry!Next]_(Registry!vars)

LEMMA RequestFacts ==
    ASSUME IngressInv, NEW r \in Tries
    PROVE  /\ requests[r] \in Request /\ requests \in [Tries -> Request] /\ Sound(r)
           /\ requests[r].phase \in Phase /\ requests[r].createdAt \in 0..MaxTime
           /\ requests[r].id \in Tries \cup {None} /\ requests[r].code \in {0, 200, 202, 400, 503}
           /\ rows \subseteq Row /\ faults \in 0..MaxFaults /\ lock \in Tries \cup {None}
BY DEF IngressInv, TypeOK, Request

LEMMA OverFacts ==
    ASSUME NEW q \in Request, NEW c \in {0, 200, 202, 400, 503}
    PROVE  /\ Over(q, c) \in Request
           /\ Over(q, c).phase = "over" /\ Over(q, c).code = c /\ Over(q, c).id = q.id
<1> DEFINE a == [q EXCEPT !.phase = "over"]
           b == [a EXCEPT !.createdAt = 0]
           d == [b EXCEPT !.code = c]
<1>1. a \in Request /\ a.phase = "over" /\ a.id = q.id
  BY DEF Request, Phase
<1> HIDE DEF a
<1>2. b \in Request /\ b.phase = "over" /\ b.id = q.id
  BY <1>1, IngressAssumption DEF Request
<1> HIDE DEF b
<1>3. d \in Request /\ d.phase = "over" /\ d.id = q.id /\ d.code = c
  BY <1>2 DEF Request
<1>4. Over(q, c) = d
  BY DEF Over, a, b
<1> HIDE DEF d
<1> QED BY <1>3, <1>4

LEMMA GivenUpFacts ==
    ASSUME NEW q \in Request, NEW c \in {0, 200, 202, 400, 503}
    PROVE  /\ Over([q EXCEPT !.id = None], c) \in Request
           /\ Over([q EXCEPT !.id = None], c).phase = "over"
           /\ Over([q EXCEPT !.id = None], c).code = c
<1> DEFINE p == [q EXCEPT !.id = None]
<1>1. p \in Request
  BY DEF Request
<1> HIDE DEF p
<1>2. /\ Over(p, c) \in Request
      /\ Over(p, c).phase = "over" /\ Over(p, c).code = c
  BY <1>1, OverFacts
<1> QED BY <1>2 DEF p

LEMMA FoundFacts ==
    ASSUME NEW q \in Request, NEW x \in Row
    PROVE  /\ Found(q, x) \in Request /\ Found(q, x).phase = "found"
           /\ Found(q, x).id = x.id /\ Found(q, x).code = q.code
           /\ Found(q, x).createdAt = q.createdAt
<1> DEFINE a == [q EXCEPT !.phase = "found"]
           b == [a EXCEPT !.id = x.id]
<1>1. /\ a \in Request /\ a.phase = "found" /\ a.code = q.code
      /\ a.createdAt = q.createdAt
  BY DEF Request, Phase
<1>2. x.id \in Tries
  BY DEF Row
<1> HIDE DEF a
<1>3. /\ b \in Request /\ b.phase = "found" /\ b.code = q.code
      /\ b.createdAt = q.createdAt /\ b.id = x.id
  BY <1>1, <1>2 DEF Request
<1>4. Found(q, x) = b
  BY DEF Found, a
<1> HIDE DEF b
<1> QED BY <1>3, <1>4

LEMMA BeginStep ==
    ASSUME IngressInv, NEW r \in Tries, Begin(r)
    PROVE  IngressInv' /\ RegisterStep
<1> DEFINE new == [requests[r] EXCEPT !.phase = "begun"]
<1>1. /\ requests[r].phase = "received" /\ lock = None /\ lock' = r
      /\ requests' = [requests EXCEPT ![r] = new]
      /\ UNCHANGED <<rows, tries, clock, faults>>
  BY RequestFacts DEF Begin
<1>2. /\ new \in Request /\ new.phase = "begun" /\ new.code = 0
      /\ new.createdAt # 0 /\ requests'[r] = new /\ NotStored(r)
  BY <1>1, RequestFacts DEF Request, Phase, Sound
<1> HIDE DEF new
<1>3. Sound(r)'
  BY <1>1, <1>2 DEF Sound, InTransaction, Accepted, NotStored
<1>4. \A q \in Tries \ {r} : ~InTransaction(q)
  BY <1>1, IngressAssumption DEF IngressInv, Sound
<1>5. IngressInv'
  <2>1. /\ requests' = [requests EXCEPT ![r] = new] /\ rows' = rows
        /\ lock' \in Tries \cup {None} /\ faults' \in 0..MaxFaults
        /\ \A q \in Tries \ {r} : InTransaction(q) => lock' = lock
        /\ requests[r].phase # "unsent" /\ tries' = tries /\ clock' = clock
    BY <1>1, <1>4, RequestFacts
  <2> QED BY <1>2, <1>3, <2>1, OneRequestMoves
<1>6. UNCHANGED Registry!vars
  BY <1>1, <1>2, RequestFacts, RegisterStands DEF Accepted, Sound
<1> QED BY <1>5, <1>6 DEF RegisterStep

LEMMA LookupStep ==
    ASSUME IngressInv, NEW r \in Tries, Lookup(r)
    PROVE  IngressInv' /\ RegisterStep
<1>1. /\ requests[r].phase = "begun" /\ lock = r
      /\ requests[r].code = 0 /\ NotStored(r) /\ requests[r].createdAt # 0
      /\ UNCHANGED <<rows, lock, tries, clock, faults>>
  BY RequestFacts DEF Lookup, Sound, InTransaction
<1>2. PICK new \in Request :
        /\ requests' = [requests EXCEPT ![r] = new] /\ requests'[r] = new
        /\ new.code = 0 /\ new.createdAt # 0
        /\ \/ new.phase = "missing" /\ Holders(r) = {}
           \/ new.phase = "found" /\ \E x \in Holders(r) : new.id = x.id
  <2>1. CASE /\ Holders(r) = {}
             /\ requests' = [requests EXCEPT ![r].phase = "missing"]
    <3> DEFINE missing == [requests[r] EXCEPT !.phase = "missing"]
    <3>1. /\ missing \in Request /\ missing.phase = "missing"
          /\ missing.code = 0 /\ missing.createdAt # 0
      BY <1>1, RequestFacts DEF Request, Phase
    <3>2. requests' = [requests EXCEPT ![r] = missing]
      BY <2>1
    <3>3. requests'[r] = missing
      BY <3>2, RequestFacts
    <3> HIDE DEF missing
    <3> QED BY <2>1, <3>1, <3>2, <3>3
  <2>2. ASSUME NEW x \in Holders(r), requests' = [requests EXCEPT ![r] = Found(@, x)]
        PROVE  \E new \in Request :
                  /\ requests' = [requests EXCEPT ![r] = new] /\ requests'[r] = new
                  /\ new.code = 0 /\ new.createdAt # 0
                  /\ new.phase = "found" /\ new.id = x.id
    <3> DEFINE found == Found(requests[r], x)
    <3>1. x \in Row
      BY RequestFacts DEF Holders
    <3>2. /\ found \in Request /\ found.phase = "found" /\ found.id = x.id
          /\ found.code = 0 /\ found.createdAt # 0
      BY <1>1, <3>1, RequestFacts, FoundFacts
    <3>3. requests' = [requests EXCEPT ![r] = found]
      BY <2>2
    <3>4. requests'[r] = found
      BY <3>3, RequestFacts
    <3> HIDE DEF found
    <3> QED BY <3>2, <3>3, <3>4
  <2> QED BY <2>1, <2>2 DEF Lookup
<1>3. Sound(r)'
  <2>1. NotStored(r)' /\ Holders(r)' = Holders(r)
    BY <1>1 DEF NotStored, Holders
  <2>2. ASSUME NEW x \in Holders(r), new.id = x.id
        PROVE  Named(r)'
    <3>1. x \in rows /\ x.key = Key[Client(r)] /\ Key[Client(r)] # NoKey
      BY DEF Holders
    <3>2. Key[Client(x.id)] = Key[Client(r)]
      BY <3>1 DEF IngressInv, RowsKeyed
    <3>3. Registry!StandsFor(x.id, r)
      BY <3>1, <3>2 DEF Registry!StandsFor
    <3>4. x \in rows' /\ x.id = requests'[r].id
      BY <1>1, <1>2, <2>2, <3>1
    <3> QED BY <3>3, <3>4 DEF Named, Registry!StandsFor
  <2> QED BY <1>1, <1>2, <2>1, <2>2 DEF Sound, InTransaction, Accepted
<1>4. IngressInv'
  <2>1. /\ requests' = [requests EXCEPT ![r] = new] /\ rows' = rows
        /\ lock' \in Tries \cup {None} /\ faults' \in 0..MaxFaults
        /\ \A q \in Tries \ {r} : InTransaction(q) => lock' = lock
        /\ requests[r].phase # "unsent" /\ tries' = tries /\ clock' = clock
    BY <1>1, <1>2, RequestFacts
  <2> QED BY <1>2, <1>3, <2>1, OneRequestMoves
<1>5. UNCHANGED Registry!vars
  BY <1>1, <1>2, RequestFacts, RegisterStands DEF Accepted
<1> QED BY <1>4, <1>5 DEF RegisterStep

LEMMA CommitFoundStep ==
    ASSUME IngressInv, NEW r \in Tries, CommitFound(r)
    PROVE  IngressInv' /\ RegisterStep
<1> DEFINE new == [requests[r] EXCEPT !.phase = "committed"]
<1>1. /\ requests[r].phase = "found" /\ lock = r /\ lock' = None
      /\ requests' = [requests EXCEPT ![r] = new]
      /\ UNCHANGED <<rows, tries, clock, faults>>
  BY RequestFacts DEF CommitFound, Sound, InTransaction
<1>2. /\ new \in Request /\ new.phase = "committed" /\ new.code = 0
      /\ new.id = requests[r].id /\ requests'[r] = new /\ Named(r)
  BY <1>1, RequestFacts DEF Request, Phase, Sound
<1> HIDE DEF new
<1>3. Sound(r)'
  <2>1. Named(r)'
    BY <1>1, <1>2 DEF Named, Registry!StandsFor
  <2> QED BY <1>2, <2>1 DEF Sound, InTransaction, Accepted
<1>4. \A q \in Tries \ {r} : ~InTransaction(q)
  BY <1>1 DEF IngressInv, Sound
<1>5. IngressInv'
  <2>1. /\ requests' = [requests EXCEPT ![r] = new] /\ rows' = rows
        /\ lock' \in Tries \cup {None} /\ faults' \in 0..MaxFaults
        /\ \A q \in Tries \ {r} : InTransaction(q) => lock' = lock
        /\ requests[r].phase # "unsent" /\ tries' = tries /\ clock' = clock
    BY <1>1, <1>4, RequestFacts
  <2> QED BY <1>2, <1>3, <2>1, OneRequestMoves
<1>6. UNCHANGED Registry!vars
  BY <1>1, <1>2, RequestFacts, RegisterStands DEF Accepted, Sound
<1> QED BY <1>5, <1>6 DEF RegisterStep

LEMMA FailStep ==
    ASSUME IngressInv, NEW r \in Tries, Fail(r)
    PROVE  IngressInv' /\ RegisterStep
<1> DEFINE new == Over([requests[r] EXCEPT !.id = None], 503)
<1>1. /\ requests[r].phase \in {"received", "begun", "missing", "found"}
      /\ requests' = [requests EXCEPT ![r] = new] /\ lock' = Released({r})
      /\ faults < MaxFaults /\ faults' = faults + 1
      /\ UNCHANGED <<rows, tries, clock>>
  BY DEF Fail
<1>2. /\ new \in Request /\ new.phase = "over" /\ new.code = 503
      /\ requests'[r] = new /\ NotStored(r) /\ requests[r].code = 0
  <2>1. new \in Request /\ new.phase = "over" /\ new.code = 503
    BY RequestFacts, GivenUpFacts
  <2> HIDE DEF new
  <2> QED BY <1>1, <2>1, RequestFacts DEF Sound
<1> HIDE DEF new
<1>3. Sound(r)'
  BY <1>1, <1>2 DEF Sound, InTransaction, Accepted, NotStored
<1>4. \A q \in Tries \ {r} : InTransaction(q) => lock' = lock
  BY <1>1 DEF IngressInv, Sound, Released
<1>5. lock' \in Tries \cup {None} /\ faults' \in 0..MaxFaults
  BY <1>1, RequestFacts, IngressAssumption DEF Released
<1>6. IngressInv'
  <2>1. /\ requests' = [requests EXCEPT ![r] = new] /\ rows' = rows
        /\ lock' \in Tries \cup {None} /\ faults' \in 0..MaxFaults
        /\ \A q \in Tries \ {r} : InTransaction(q) => lock' = lock
        /\ requests[r].phase # "unsent" /\ tries' = tries /\ clock' = clock
    BY <1>1, <1>4, <1>5, RequestFacts
  <2>2. new \in Request
    BY <1>2
  <2> QED BY <1>3, <2>1, <2>2, OneRequestMoves
<1>7. UNCHANGED Registry!vars
  BY <1>1, <1>2, RequestFacts, RegisterStands DEF Accepted
<1> QED BY <1>6, <1>7 DEF RegisterStep

LEMMA AnswerStep ==
    ASSUME IngressInv, NEW r \in Tries, Answer(r)
    PROVE  IngressInv' /\ RegisterStep
<1> DEFINE heard == IF requests[r].id = r THEN 202 ELSE 200
           new == Over(requests[r], heard)
<1>1. /\ requests[r].phase = "committed" /\ requests' = [requests EXCEPT ![r] = new]
      /\ UNCHANGED <<rows, lock, tries, clock, faults>>
  BY DEF Answer
<1>2. /\ new \in Request /\ new.phase = "over" /\ new.code \in {200, 202}
      /\ new.id = requests[r].id /\ requests'[r] = new /\ Named(r)
      /\ requests[r].code = 0
  <2>1. new \in Request /\ new.phase = "over" /\ new.code \in {200, 202}
        /\ new.id = requests[r].id
    <3>1. heard \in {200, 202} /\ heard \in {0, 200, 202, 400, 503}
      OBVIOUS
    <3>2. requests[r] \in Request
      BY RequestFacts
    <3> HIDE DEF heard
    <3> QED BY <3>1, <3>2, OverFacts
  <2> HIDE DEF new
  <2> QED BY <1>1, <2>1, RequestFacts DEF Sound
<1> HIDE DEF new
<1>3. Sound(r)'
  <2>1. Named(r)'
    BY <1>1, <1>2 DEF Named, Registry!StandsFor
  <2> QED BY <1>2, <2>1 DEF Sound, InTransaction
<1>4. IngressInv'
  <2>1. /\ requests' = [requests EXCEPT ![r] = new] /\ rows' = rows
        /\ lock' \in Tries \cup {None} /\ faults' \in 0..MaxFaults
        /\ \A q \in Tries \ {r} : InTransaction(q) => lock' = lock
        /\ requests[r].phase # "unsent" /\ tries' = tries /\ clock' = clock
    BY <1>1, <1>2, RequestFacts
  <2> QED BY <1>2, <1>3, <2>1, OneRequestMoves
<1>5. PICK x \in rows : x.id = requests[r].id /\ Registry!StandsFor(x.id, r)
  BY <1>2 DEF Named
<1>6. /\ {y.id : y \in rows}' = {y.id : y \in rows}
      /\ x.id \in {y.id : y \in rows}
  BY <1>1
<1>7. {<<q, requests[q].id>> : q \in {p \in Tries : Accepted(p)}}'
      = {<<q, requests[q].id>> : q \in {p \in Tries : Accepted(p)}} \cup {<<r, x.id>>}
  <2>1. \A q \in Tries \ {r} : requests'[q] = requests[q]
    BY <1>1, RequestFacts
  <2>2. {q \in Tries : Accepted(q)}' = {q \in Tries : Accepted(q)} \cup {r}
    BY <1>2, <2>1 DEF Accepted
  <2>3. r \notin {q \in Tries : Accepted(q)}
    BY <1>2 DEF Accepted
  <2>4. /\ requests'[r].id = x.id
        /\ \A q \in {p \in Tries : Accepted(p)} : requests'[q].id = requests[q].id
    BY <1>2, <1>5, <2>1, <2>3
  <2>5. \A q : q \in {p \in Tries : Accepted(p)}'
            <=> q \in {p \in Tries : Accepted(p)} \/ q = r
    BY <2>2
  <2> QED BY <2>2, <2>4
<1>8. Registry!Tell(r, x.id)
  BY <1>5, <1>6, <1>7 DEF Registry!Tell
<1> QED BY <1>4, <1>6, <1>8 DEF RegisterStep, Registry!Next

LEMMA InsertStep ==
    ASSUME IngressInv, NEW r \in Tries, Insert(r)
    PROVE  IngressInv' /\ RegisterStep
<1> DEFINE new == [requests[r] EXCEPT !.phase = "committed", !.id = r]
<1>1. /\ TypeOK /\ \A q \in Tries : Sound(q)
      /\ Fresh /\ RowsKeyed /\ requests \in [Tries -> Request]
  BY DEF IngressInv, TypeOK
<1>2. requests[r].phase = "missing"
  BY DEF Insert
<1>3. /\ lock = r /\ Holders(r) = {} /\ NotStored(r)
      /\ requests[r].code = 0 /\ requests[r].createdAt # 0
  BY <1>2, RequestFacts DEF Sound, InTransaction
<1>4. /\ rows' = rows \cup {NewRow(r)} /\ lock' = None
      /\ requests' = [requests EXCEPT ![r] = new]
      /\ UNCHANGED <<tries, clock, faults>>
  BY <1>3 DEF Insert
<1>5. /\ new \in Request /\ new.phase = "committed" /\ new.id = r /\ new.code = 0
  <2> DEFINE a == [requests[r] EXCEPT !.phase = "committed"]
             b == [a EXCEPT !.id = r]
  <2>1. a \in Request /\ a.phase = "committed" /\ a.code = 0
    BY <1>3, RequestFacts DEF Request, Phase
  <2> HIDE DEF a
  <2>2. b \in Request /\ b.phase = "committed" /\ b.id = r /\ b.code = 0
    BY <2>1 DEF Request
  <2>3. new = b
    BY DEF a
  <2> HIDE DEF b, new
  <2> QED BY <2>2, <2>3
<1> HIDE DEF new
<1>6. requests'[r] = new /\ \A q \in Tries \ {r} : requests'[q] = requests[q]
  BY <1>1, <1>4
<1>7. NewRow(r) \in Row /\ NewRow(r).id = r /\ NewRow(r).key = Key[Client(r)]
  <2>1. requests[r].createdAt \in 1..MaxTime
    BY <1>3, RequestFacts, IngressAssumption
  <2> QED BY <2>1, TryFacts DEF NewRow, Row
<1>8. TypeOK'
  BY <1>1, <1>4, <1>5, <1>7 DEF TypeOK
<1>9. RowsKeyed'
  BY <1>1, <1>4, <1>7 DEF RowsKeyed
<1>10. Fresh'
  BY <1>1, <1>2, <1>4, <1>6, TryFacts DEF Fresh
<1>11. Sound(r)'
  <2>1. NewRow(r) \in rows' /\ NewRow(r).id = requests'[r].id
    BY <1>4, <1>5, <1>6, <1>7
  <2>2. Named(r)'
    BY <1>7, <2>1 DEF Named, Registry!StandsFor
  <2> QED BY <1>5, <1>6, <2>2 DEF Sound, InTransaction, Accepted
<1>12. ASSUME NEW q \in Tries, q # r PROVE Sound(q)'
  <2>1. requests'[q] = requests[q] /\ Sound(q) /\ ~InTransaction(q)
    BY <1>1, <1>3, <1>6, <1>12 DEF Sound
  <2>2. Named(q) => Named(q)'
    BY <1>4, <2>1 DEF Named, Registry!StandsFor
  <2>3. NotStored(q) => NotStored(q)'
    BY <1>4, <1>7, <1>12 DEF NotStored
  <2> QED BY <2>1, <2>2, <2>3 DEF Sound, Accepted, InTransaction
<1>13. IngressInv'
  BY <1>8, <1>9, <1>10, <1>11, <1>12 DEF IngressInv
<1>14. Registry!Enter(r)
  <2>1. {x.id : x \in rows}' = {x.id : x \in rows} \cup {r}
    BY <1>4, <1>7
  <2>2. \A e \in {x.id : x \in rows} : ~Registry!StandsFor(e, r)
    <3>1. ASSUME NEW x \in rows PROVE ~Registry!StandsFor(x.id, r)
      <4>1. x.id # r /\ x.key = Key[Client(x.id)]
        BY <1>1, <1>3 DEF NotStored, RowsKeyed
      <4>2. Key[Client(r)] # NoKey => x.key # Key[Client(r)]
        BY <1>3 DEF Holders
      <4> QED BY <4>1, <4>2 DEF Registry!StandsFor
    <3> QED BY <3>1
  <2>3. \A q \in Tries : Accepted(q)' <=> Accepted(q)
    BY <1>3, <1>5, <1>6 DEF Accepted
  <2>4. \A q \in Tries : Accepted(q) => requests'[q] = requests[q]
    BY <1>3, <1>6 DEF Accepted
  <2>5. {q \in Tries : Accepted(q)}' = {q \in Tries : Accepted(q)}
    BY <2>3
  <2>6. {<<q, requests[q].id>> : q \in {p \in Tries : Accepted(p)}}'
        = {<<q, requests[q].id>> : q \in {p \in Tries : Accepted(p)}}
    BY <2>4, <2>5
  <2> QED BY <2>1, <2>2, <2>6 DEF Registry!Enter
<1> QED BY <1>13, <1>14 DEF RegisterStep, Registry!Next

-------------------------------------------------------------------------------
(* The clients, the clock and crashes. *)

LEMMA SubmitStep ==
    ASSUME IngressInv, NEW c \in Clients, Submit(c)
    PROVE  IngressInv' /\ RegisterStep
<1> DEFINE r == <<c, tries[c] + 1>>
           new == IF c \in Invalid THEN Over(Unsent, 400)
                  ELSE [Unsent EXCEPT !.phase = "received", !.createdAt = clock]
<1>1. /\ TypeOK /\ \A q \in Tries : Sound(q)
      /\ Fresh /\ RowsKeyed /\ requests \in [Tries -> Request]
  BY DEF IngressInv, TypeOK
<1>2. /\ tries[c] < MaxTries[c] /\ tries' = [tries EXCEPT ![c] = @ + 1]
      /\ requests' = [requests EXCEPT ![r] = new]
      /\ UNCHANGED <<rows, lock, clock>>
      /\ \/ faults' = faults
         \/ faults < MaxFaults /\ faults' = faults + 1
  BY DEF Submit
<1>3. /\ tries[c] \in Nat /\ MaxTries[c] \in Nat /\ tries[c] + 1 \in 1..MaxTries[c]
      /\ DOMAIN tries = Clients
  <2>1. DOMAIN tries = Clients /\ tries[c] \in 0..MaxTries[c]
    BY <1>1 DEF TypeOK
  <2>2. MaxTries[c] \in Nat
    BY IngressAssumption
  <2> QED BY <1>2, <2>1, <2>2
<1>4. r \in Tries /\ requests[r].phase = "unsent"
  BY <1>1, <1>3, TryFacts DEF Fresh
<1>5. requests[r].code = 0 /\ NotStored(r)
  BY <1>1, <1>4 DEF Sound
<1>6. /\ new \in Request
      /\ \/ new.phase = "over" /\ new.code = 400
         \/ new.phase = "received" /\ new.code = 0 /\ new.createdAt # 0
  <2>1. clock \in 1..MaxTime /\ clock \in 0..MaxTime /\ clock # 0
    BY <1>1, IngressAssumption DEF TypeOK
  <2>2. Unsent \in Request
    BY IngressAssumption DEF Unsent, Request, Phase
  <2>3. CASE c \in Invalid
    <3>1. new = Over(Unsent, 400)
      BY <2>3
    <3> HIDE DEF new
    <3> QED BY <2>2, <3>1, OverFacts
  <2>4. CASE c \notin Invalid
    <3>1. new = [phase |-> "received", createdAt |-> clock, id |-> None, code |-> 0]
      BY <2>4 DEF Unsent
    <3> HIDE DEF new
    <3> QED BY <2>1, <3>1 DEF Request, Phase
  <2> QED BY <2>3, <2>4
<1> HIDE DEF r, new
<1>7. requests'[r] = new /\ \A q \in Tries \ {r} : requests'[q] = requests[q]
  BY <1>1, <1>2, <1>4
<1>8. TypeOK'
  <2>1. /\ DOMAIN tries' = Clients
        /\ \A b \in Clients : tries'[b] \in 0..MaxTries[b]
    BY <1>1, <1>2, <1>3 DEF TypeOK
  <2>2. faults' \in 0..MaxFaults
    BY <1>1, <1>2, IngressAssumption DEF TypeOK
  <2> QED BY <1>1, <1>2, <1>6, <2>1, <2>2 DEF TypeOK
<1>9. ASSUME NEW q \in Tries PROVE Sound(q)'
  <2>1. CASE q = r
    BY <1>2, <1>5, <1>6, <1>7, <2>1 DEF Sound, InTransaction, Accepted, NotStored
  <2>2. CASE q # r
    <3>1. requests'[q] = requests[q] /\ Sound(q)
      BY <1>1, <1>7, <2>2
    <3>2. /\ Named(q)' <=> Named(q)
          /\ NotStored(q)' <=> NotStored(q)
          /\ Holders(q)' = Holders(q)
      BY <1>2, <3>1 DEF Named, Registry!StandsFor, NotStored, Holders
    <3> QED BY <1>2, <3>1, <3>2 DEF Sound, Accepted, InTransaction
  <2> QED BY <2>1, <2>2
<1>10. Fresh'
  <2> SUFFICES ASSUME NEW b \in Clients, NEW k \in 1..MaxTries[b], k > tries'[b]
               PROVE  requests'[<<b, k>>].phase = "unsent"
    BY DEF Fresh
  <2>1. k \in Nat /\ tries[b] \in Nat
    BY <1>1, IngressAssumption DEF TypeOK
  <2>2. k > tries[b] /\ <<b, k>> # r
    BY <1>2, <1>3, <2>1 DEF r
  <2> QED BY <1>1, <1>7, <2>2, TryFacts DEF Fresh
<1>11. RowsKeyed'
  BY <1>1, <1>2 DEF RowsKeyed
<1>12. IngressInv'
  BY <1>8, <1>9, <1>10, <1>11 DEF IngressInv
<1>13. UNCHANGED Registry!vars
  BY <1>2, <1>5, <1>6, <1>7, RegisterStands DEF Accepted
<1> QED BY <1>12, <1>13 DEF RegisterStep

LEMMA CrashStep ==
    ASSUME IngressInv, NEW gone \in SUBSET Running, Crash(gone)
    PROVE  IngressInv' /\ RegisterStep
<1>1. /\ TypeOK /\ \A q \in Tries : Sound(q)
      /\ Fresh /\ RowsKeyed /\ requests \in [Tries -> Request]
      /\ gone \subseteq Running /\ gone \subseteq Tries
  BY DEF IngressInv, TypeOK, Running
<1>2. /\ requests' = [r \in Tries |->
                        IF r \in gone THEN Over([requests[r] EXCEPT !.id = None], 0)
                        ELSE requests[r]]
      /\ lock' = Released(gone)
      /\ faults < MaxFaults /\ faults' = faults + 1
      /\ UNCHANGED <<rows, tries, clock>>
  BY DEF Crash
<1>3. ASSUME NEW q \in gone
      PROVE  /\ requests'[q] \in Request /\ requests'[q].phase = "over"
             /\ requests'[q].code = 0 /\ requests[q].code = 0
             /\ requests[q].phase # "unsent" /\ q \in Tries
  <2>1. requests[q] \in Request /\ q \in Tries
    BY <1>1
  <2>2. requests'[q] = Over([requests[q] EXCEPT !.id = None], 0)
    BY <1>2, <2>1
  <2>3. requests[q].phase \notin {"unsent", "over"}
    BY <1>1 DEF Running
  <2> QED BY <1>1, <2>1, <2>2, <2>3, GivenUpFacts DEF Sound
<1>4. \A q \in Tries \ gone : requests'[q] = requests[q]
  BY <1>2
<1>5. TypeOK'
  <2>1. requests' \in [Tries -> Request]
    <3>1. \A q \in Tries : requests'[q] \in Request
      BY <1>1, <1>3, <1>4
    <3>2. requests' = [q \in Tries |-> requests'[q]]
      BY <1>2
    <3> QED BY <3>1, <3>2
  <2>2. lock' \in Tries \cup {None} /\ faults' \in 0..MaxFaults
    BY <1>1, <1>2, IngressAssumption DEF TypeOK, Released
  <2> QED BY <1>1, <1>2, <2>1, <2>2 DEF TypeOK
<1>6. ASSUME NEW q \in Tries PROVE Sound(q)'
  <2>1. CASE q \in gone
    BY <1>3, <2>1 DEF Sound, InTransaction, Accepted
  <2>2. CASE q \notin gone
    <3>1. requests'[q] = requests[q] /\ Sound(q)
      BY <1>1, <1>4, <2>2
    <3>2. /\ Named(q)' <=> Named(q)
          /\ NotStored(q)' <=> NotStored(q)
          /\ Holders(q)' = Holders(q)
      BY <1>2, <3>1 DEF Named, Registry!StandsFor, NotStored, Holders
    <3>3. InTransaction(q) => lock' = q
      BY <1>2, <2>2, <3>1 DEF Sound, Released
    <3> QED BY <3>1, <3>2, <3>3 DEF Sound, Accepted, InTransaction
  <2> QED BY <2>1, <2>2
<1>7. Fresh'
  <2> SUFFICES ASSUME NEW b \in Clients, NEW k \in 1..MaxTries[b], k > tries'[b]
               PROVE  requests'[<<b, k>>].phase = "unsent"
    BY DEF Fresh
  <2>1. requests[<<b, k>>].phase = "unsent" /\ <<b, k>> \in Tries
    BY <1>1, <1>2, TryFacts DEF Fresh
  <2>2. <<b, k>> \notin gone
    BY <1>3, <2>1
  <2> QED BY <1>4, <2>1, <2>2
<1>8. RowsKeyed'
  BY <1>1, <1>2 DEF RowsKeyed
<1>9. IngressInv'
  BY <1>5, <1>6, <1>7, <1>8 DEF IngressInv
<1>10. UNCHANGED Registry!vars
  <2>1. \A q \in Tries : Accepted(q)' <=> Accepted(q)
    BY <1>3, <1>4 DEF Accepted
  <2>2. \A q \in Tries : Accepted(q) => requests'[q] = requests[q]
    BY <1>3, <1>4 DEF Accepted
  <2> QED BY <1>2, <2>1, <2>2, RegisterStands
<1> QED BY <1>9, <1>10 DEF RegisterStep

LEMMA QuietStep ==
    ASSUME IngressInv, UNCHANGED <<requests, rows, lock, tries, faults>>,
           clock' \in 1..MaxTime
    PROVE  IngressInv' /\ RegisterStep
<1>1. \A q \in Tries : Sound(q)'
  BY DEF IngressInv, Sound, InTransaction, Accepted, NotStored, Holders, Named,
         Registry!StandsFor
<1>2. TypeOK' /\ Fresh' /\ RowsKeyed'
  BY DEF IngressInv, TypeOK, Fresh, RowsKeyed
<1>3. UNCHANGED Registry!vars
  BY RegisterStands DEF Accepted
<1> QED BY <1>1, <1>2, <1>3 DEF IngressInv, RegisterStep

-------------------------------------------------------------------------------
(* The theorems. *)

LEMMA IngressStep == IngressInv /\ [Next]_vars => IngressInv' /\ RegisterStep
<1> SUFFICES ASSUME IngressInv, [Next]_vars PROVE IngressInv' /\ RegisterStep
  OBVIOUS
<1>1. ASSUME NEW c \in Clients, Submit(c) PROVE IngressInv' /\ RegisterStep
  BY <1>1, SubmitStep
<1>2. CASE Tick
  <2>1. clock \in 1..MaxTime /\ clock' \in 1..MaxTime
    BY <1>2, IngressAssumption DEF IngressInv, TypeOK, Tick
  <2> QED BY <1>2, <2>1, QuietStep DEF Tick
<1>3. ASSUME NEW r \in Tries, Handle(r) PROVE IngressInv' /\ RegisterStep
  BY <1>3, BeginStep, LookupStep, InsertStep, CommitFoundStep, AnswerStep DEF Handle
<1>4. ASSUME NEW r \in Tries, Fail(r) PROVE IngressInv' /\ RegisterStep
  BY <1>4, FailStep
<1>5. ASSUME NEW gone \in SUBSET Running, Crash(gone) PROVE IngressInv' /\ RegisterStep
  BY <1>5, CrashStep
<1>6. CASE UNCHANGED vars
  <2>1. clock' \in 1..MaxTime
    BY <1>6 DEF IngressInv, TypeOK, vars
  <2> QED BY <1>6, <2>1, QuietStep DEF vars
<1> QED BY <1>1, <1>2, <1>3, <1>4, <1>5, <1>6 DEF Next

\* For every number of clients, tries and faults: a try that was answered 503 or 400
\* stores nothing (Enqueue's deferred Rollback, handleSubmit's answers).
THEOREM ErrorsAreTrue == Spec => []ErrorMeansNotStored
<1>1. IngressInv => ErrorMeansNotStored
  BY DEF IngressInv, Sound, NotStored, ErrorMeansNotStored
<1>2. IngressInv /\ [Next]_vars => IngressInv'
  BY IngressStep
<1> QED BY IngressInit, <1>1, <1>2, PTL DEF Spec

\* For every number of clients, tries and faults the table and the answers are an
\* idempotent register (Enqueue under _txlock=immediate, handleSubmit).
THEOREM RegistryIsKept == Spec => KeepsRegistry
<1>1. Init => Registry!Init
  <2> SUFFICES ASSUME Init PROVE Registry!Init
    OBVIOUS
  <2>1. {x.id : x \in rows} = {}
    BY DEF Init
  <2>2. {r \in Tries : Accepted(r)} = {}
    BY DEF Init, Accepted, Unsent
  <2> QED BY <2>1, <2>2 DEF Registry!Init
<1>2. IngressInv /\ [Next]_vars => IngressInv'
  BY IngressStep
<1>3. IngressInv /\ [Next]_vars => [Registry!Next]_(Registry!vars)
  BY IngressStep DEF RegisterStep
<1> QED BY IngressInit, <1>1, <1>2, <1>3, PTL DEF Spec, KeepsRegistry, Registry!Spec

-------------------------------------------------------------------------------
(* The walk. *)

\* There is a relation on the numbers that orders them, and it is well-founded.
LEMMA NatOrder ==
    \E R : IsWellFoundedOn(R, Nat) /\ \A x, y \in Nat : x < y => <<x, y>> \in R
<1> DEFINE R == OpToRel(<, Nat)
<1>1. IsWellFoundedOn(R, Nat)
  BY NatLessThanWellFounded
<1>2. \A x, y \in Nat : x < y => <<x, y>> \in R
  BY DEF OpToRel
<1> HIDE DEF R
<1> QED BY <1>1, <1>2

\* A set of numbers has a smallest one.
LEMMA MinFacts ==
    ASSUME NEW S \in SUBSET Nat, S # {}
    PROVE  Min(S) \in S /\ \A x \in S : Min(S) <= x
<1>1. PICK R : IsWellFoundedOn(R, Nat) /\ \A x, y \in Nat : x < y => <<x, y>> \in R
  BY NatOrder
<1>2. S \subseteq Nat
  OBVIOUS
<1>3. \E m \in S : \A y \in S : ~(<<y, m>> \in R)
  <2>1. IsWellFoundedOn(R, Nat)
    BY <1>1
  <2> QED BY <2>1, <1>2, WFMin
<1>4. PICK m \in S : \A y \in S : ~(<<y, m>> \in R)
  BY <1>3
<1>5. ASSUME NEW y \in S PROVE m <= y
  <2>1. m \in Nat /\ y \in Nat
    BY <1>2
  <2>2. ~(y < m)
    BY <1>1, <1>4, <2>1, Zenon
  <2> QED BY <2>1, <2>2
<1>6. \E k \in S : \A y \in S : k <= y
  BY <1>5
<1> QED BY <1>6 DEF Min

\* Rows stay; a step adds at most one.
RowsGrow == \E x : rows' = rows \/ rows' = rows \cup {x}

LEMMA RowsOnlyGrow == [Next]_vars => RowsGrow
<1> SUFFICES ASSUME [Next]_vars PROVE RowsGrow
  OBVIOUS
<1>1. ASSUME NEW r, Insert(r) PROVE RowsGrow
  BY <1>1 DEF Insert, RowsGrow
<1>2. CASE ~\E r : Insert(r)
  BY <1>2 DEF Next, Handle, Submit, Tick, Begin, Lookup, CommitFound, Answer, Fail, Crash,
     vars, RowsGrow
<1> QED BY <1>1, <1>2

\* Everything shown lies at or above the cursor, everything owed below it.
WalkParted ==
    /\ walk.shown # {} => walk.before # 0
    /\ \A x \in walk.shown : x.createdAt >= walk.before
    /\ walk.on /\ walk.before # 0 => \A x \in walk.owed : x.createdAt < walk.before
    /\ walk.owed \subseteq rows

WalkInv ==
    /\ IngressInv
    /\ IsFiniteSet(rows)
    /\ walk \in Walk
    /\ WalkParted
    /\ ShownOnce
    /\ NoneSkipped

LEMMA WalkInit == ListInit => WalkInv
<1> SUFFICES ASSUME ListInit PROVE WalkInv
  OBVIOUS
<1>1. IngressInv /\ rows = {} /\ walk = NewWalk
  BY IngressInit DEF ListInit, Init
<1>2. IsFiniteSet(rows)
  BY <1>1, FS_EmptySet
<1>3. MaxTime \in Nat
  BY IngressAssumption
<1>4. walk \in Walk
  BY <1>1, <1>3 DEF Walk, NewWalk
<1> QED BY <1>1, <1>2, <1>4 DEF NewWalk, WalkInv, WalkParted, ShownOnce, NoneSkipped

\* While the walk rests the table may grow, by rows of any age.
LEMMA SubmissionsStep ==
    ASSUME WalkInv, [Next]_vars, UNCHANGED walk
    PROVE  WalkInv'
<1>1. IngressInv'
  BY IngressStep DEF WalkInv
<1>2. RowsGrow
  BY RowsOnlyGrow
<1>3. IsFiniteSet(rows') /\ rows \subseteq rows'
  BY <1>2, FS_AddElement DEF RowsGrow, WalkInv
<1> QED BY <1>1, <1>3 DEF WalkInv, WalkParted, ShownOnce, NoneSkipped

LEMMA PageStep ==
    ASSUME WalkInv, ReadPage
    PROVE  WalkInv'
<1> DEFINE matching == Before(walk.before)
           count == Cardinality(matching)
           size == IF count < Limit THEN count ELSE Limit
           full == size = Limit
<1>1. /\ walk.on /\ walk \in Walk /\ UNCHANGED vars
      /\ rows \subseteq Row /\ IsFiniteSet(rows) /\ MaxTime \in Nat
      /\ WalkParted /\ walk.twice = {}
  BY IngressAssumption DEF ReadPage, WalkInv, IngressInv, TypeOK, ShownOnce
<1>2. \A x \in rows : x.createdAt \in 1..MaxTime /\ x.createdAt \in Nat /\ x.createdAt # 0
  BY <1>1 DEF Row
<1>3. matching \subseteq rows /\ IsFiniteSet(matching) /\ count \in Nat
  BY <1>1, FS_Subset, FS_CardinalityType DEF Before
<1>4. size \in Nat /\ Limit \in Nat /\ Limit > 0
  BY <1>3, ListAssumption
<1>5. PICK page \in NewestPage(matching, size) :
        LET last == IF full THEN Min({x.createdAt : x \in page}) ELSE walk.before
        IN  walk' = [on |-> full,
                     before |-> last,
                     shown |-> IF full THEN walk.shown \cup page ELSE {},
                     owed |-> (IF walk.before = 0 THEN rows ELSE walk.owed)
                              \ (page \cup Tied(matching \ page, full, last)),
                     twice |-> walk.twice \cup (walk.shown \cap page)]
  BY DEF ReadPage
<1> DEFINE last == IF full THEN Min({x.createdAt : x \in page}) ELSE walk.before
           owed == IF walk.before = 0 THEN rows ELSE walk.owed
<1>6. /\ page \subseteq matching /\ Cardinality(page) = size
      /\ \A x \in page, y \in matching \ page : y.createdAt <= x.createdAt
  BY DEF NewestPage, kSubset
<1>7. IsFiniteSet(page)
  BY <1>3, <1>6, FS_Subset
<1>8. /\ walk'.on = full /\ walk'.before = last
      /\ walk'.shown = IF full THEN walk.shown \cup page ELSE {}
      /\ walk'.owed = owed \ (page \cup Tied(matching \ page, full, last))
      /\ walk'.twice = walk.twice \cup (walk.shown \cap page)
      /\ walk' = [on |-> walk'.on, before |-> walk'.before, shown |-> walk'.shown,
                  owed |-> walk'.owed, twice |-> walk'.twice]
  BY <1>5
<1>9. owed \subseteq matching
  BY <1>1, <1>2 DEF WalkParted, Before
<1>10. walk.shown \cap page = {}
  <2>1. ASSUME NEW x \in walk.shown, x \in page PROVE FALSE
    <3>1. x.createdAt < walk.before /\ x.createdAt >= walk.before /\ x.createdAt \in Nat
      BY <1>1, <1>2, <1>3, <1>6, <2>1 DEF WalkParted, Before
    <3>2. walk.before \in Nat
      BY <1>1 DEF Walk
    <3> QED BY <3>1, <3>2
  <2> QED BY <2>1
<1>11. full => /\ last \in 1..MaxTime
               /\ \A x \in page : x.createdAt >= last
               /\ \E x \in page : x.createdAt = last
  <2> SUFFICES ASSUME full
               PROVE  /\ last \in 1..MaxTime
                      /\ \A x \in page : x.createdAt >= last
                      /\ \E x \in page : x.createdAt = last
    OBVIOUS
  <2> DEFINE times == {x.createdAt : x \in page}
  <2>1. page # {}
    BY <1>4, <1>6, FS_EmptySet
  <2>2. times \in SUBSET Nat /\ times # {} /\ times \subseteq 1..MaxTime
    BY <1>2, <1>3, <1>6, <2>1
  <2>3. Min(times) \in times /\ \A t \in times : Min(times) <= t
    BY <2>2, MinFacts
  <2>4. last = Min(times)
    OBVIOUS
  <2> HIDE DEF last
  <2> QED BY <2>2, <2>3, <2>4
<1> HIDE DEF matching, count, size, last, owed
<1>12. IngressInv' /\ rows' = rows /\ IsFiniteSet(rows')
  <2>1. [Next]_vars
    BY <1>1
  <2> QED BY <1>1, <2>1, IngressStep DEF WalkInv, vars
<1>13. walk'.twice = {}
  BY <1>1, <1>8, <1>10
<1>14. walk'.owed \subseteq owed /\ owed \subseteq rows /\ walk'.owed \subseteq rows
  BY <1>3, <1>8, <1>9
<1>15. walk' \in Walk
  <2>1. walk'.before \in 0..MaxTime
    <3>1. walk.before \in 0..MaxTime
      BY <1>1 DEF Walk
    <3>2. ~full => last = walk.before
      BY DEF last
    <3> QED BY <1>1, <1>8, <1>11, <3>1, <3>2
  <2>2. walk'.on \in BOOLEAN
    BY <1>8 DEF full
  <2>3. walk'.shown \in SUBSET Row
    <3>1. walk.shown \subseteq Row /\ page \subseteq Row
      BY <1>1, <1>3, <1>6 DEF Walk
    <3> QED BY <1>8, <3>1
  <2>4. walk'.owed \in SUBSET Row /\ walk'.twice \in SUBSET Row
    BY <1>1, <1>13, <1>14
  <2> QED BY <1>8, <2>1, <2>2, <2>3, <2>4 DEF Walk
<1>16. CASE full
  <2>1. PICK z \in page : z.createdAt = last
    BY <1>11, <1>16
  <2>2. last \in Nat /\ last # 0
    BY <1>1, <1>11, <1>16
  <2>3. ASSUME NEW x \in walk'.shown PROVE x.createdAt >= last
    <3>1. CASE x \in page
      BY <1>11, <1>16, <3>1
    <3>2. CASE x \in walk.shown
      <4>1. walk.before # 0 /\ x.createdAt >= walk.before /\ walk.before \in Nat
        BY <1>1, <3>2 DEF WalkParted, Walk
      <4>2. last < walk.before
        BY <1>6, <2>1, <4>1 DEF matching, Before
      <4>3. x.createdAt \in Nat
        BY <1>1, <3>2 DEF Walk, Row
      <4> QED BY <2>2, <4>1, <4>2, <4>3
    <3> QED BY <1>8, <1>16, <2>3, <3>1, <3>2
  <2>4. ASSUME NEW x \in walk'.owed PROVE x.createdAt < last
    <3>1. x \in matching \ page /\ x \notin Tied(matching \ page, full, last)
      BY <1>8, <1>9, <2>4
    <3>2. x.createdAt <= last /\ x.createdAt # last
      BY <1>6, <1>16, <2>1, <3>1 DEF Tied
    <3>3. x.createdAt \in Nat
      BY <1>2, <1>3, <3>1
    <3> QED BY <2>2, <3>2, <3>3
  <2>5. walk'.on /\ walk'.before = last
    BY <1>8, <1>16
  <2>6. WalkParted'
    BY <1>12, <1>14, <2>2, <2>3, <2>4, <2>5 DEF WalkParted
  <2> QED BY <1>12, <1>13, <1>15, <2>5, <2>6 DEF WalkInv, ShownOnce, NoneSkipped
<1>17. CASE ~full
  <2>1. size = count
    BY <1>17 DEF full, size
  <2>2. page = matching
    BY <1>3, <1>6, <2>1, FS_Subset DEF count
  <2>3. walk'.owed = {} /\ walk'.shown = {} /\ ~walk'.on
    BY <1>8, <1>9, <1>17, <2>2
  <2> QED BY <1>12, <1>13, <1>15, <2>3 DEF WalkInv, WalkParted, ShownOnce, NoneSkipped
<1> QED BY <1>16, <1>17

LEMMA WalkInvariant == ListSpec => []WalkInv
<1>1. WalkInv /\ [ListNext]_<<vars, walk>> => WalkInv'
  <2> SUFFICES ASSUME WalkInv, [ListNext]_<<vars, walk>> PROVE WalkInv'
    OBVIOUS
  <2>1. CASE ReadPage
    BY <2>1, PageStep
  <2>2. CASE [Next]_vars /\ UNCHANGED walk
    BY <2>2, SubmissionsStep
  <2> QED BY <2>1, <2>2 DEF ListNext
<1> QED BY WalkInit, <1>1, PTL DEF ListSpec

\* Tables, handlers and walk keep their types.
THEOREM TypeCorrect == ListSpec => []WalkTypeOK
<1>1. WalkInv => WalkTypeOK
  BY DEF WalkInv, IngressInv, WalkTypeOK
<1> QED BY WalkInvariant, <1>1, PTL

\* However clients submit between two pages, no row is on two pages of a walk (SQLite.List
\* with a strict cursor), for every limit and number of submissions.
THEOREM RowsAreShownOnce == ListSpec => []ShownOnce
<1>1. WalkInv => ShownOnce
  BY DEF WalkInv
<1> QED BY WalkInvariant, <1>1, PTL

\* A walk that ends has shown all there was when it began, ties with a page's last row
\* excepted (handleList's next_before), for every limit and number of submissions.
THEOREM NoRowIsSkipped == ListSpec => []NoneSkipped
<1>1. WalkInv => NoneSkipped
  BY DEF WalkInv
<1> QED BY WalkInvariant, <1>1, PTL

================================================================================
