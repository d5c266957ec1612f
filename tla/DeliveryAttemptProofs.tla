------------------------- MODULE DeliveryAttemptProofs -------------------------
(***************************************************************************)
(* What becomes of an attempt, for every configuration, set of status      *)
(* codes, word length and number of redirects: two packages read different *)
(* fields of one result, the dispatcher its outcome for the retry and its  *)
(* code and error for the breaker, and they agree.                         *)
(*                                                                         *)
(* The argument: Deliver builds results of three shapes, and each fixes    *)
(* which fields can go together; cause remembers what the result was built *)
(* from. Before it: what Load lets pass is sound, and of the layers of a   *)
(* request's headers the last to write a name decides it. After it: the    *)
(* wait for the next attempt lies on the configured curve.                 *)
(***************************************************************************)
EXTENDS DeliveryAttempt, WellFoundedInduction, TLAPS

Finished == phase \in {"returned", "decided"}

\* The three shapes. A request that was never sent:
IsRefused ==
    /\ result = Result("permanent", 0, "none", 0)
    /\ cause.code = 0 /\ cause.why \in Unsent

\* none that was sent or answered, or a redirect that cannot be followed:
IsBroken ==
    /\ result.outcome = "retryable" /\ result.code = 0 /\ result.retryAfter = 0
    /\ result.error \in TransportErrors
    /\ hops = 0 /\ result.error # "bad_location" => cause = Failed(result.error)
    /\ result.error = "bad_location" => cause.code \in Redirects
    /\ result.error = "too_many_redirects" => hops > 0

\* an answer.
IsAnswered ==
    /\ result.outcome = ClassifyStatus(result.code)
    /\ result.code \in Codes
    /\ result.error = "none"
    /\ result.retryAfter = ParseRetryAfter(asked)
    /\ result.outcome # "retryable" => asked = 0
    /\ hops = 0 => cause = Answered(result.code)

\* What deliverOne makes of the shapes.
FateFits ==
    /\ result.outcome = "success" => fate = "succeeded"
    /\ result.outcome = "retryable" => fate = IF attempt < budget THEN "rescheduled" ELSE "dead"
    /\ result.outcome = "permanent" => fate = "dead"

DelayFits ==
    fate = "rescheduled" /\ result.retryAfter > 0 => delay = Smaller(result.retryAfter, ep.max)

AttemptInv ==
    /\ hops \in Nat
    /\ phase \in {"starting", "exited", "loaded", "ready"} => hops = 0
    /\ hops > 0 => cause.why = "answered" /\ cause.code \in Redirects
    /\ asked \in RetryAfters \cup {0}
    /\ phase \notin {"returned", "decided"} => asked = 0 /\ fate = "none"
    /\ phase \notin {"returned", "decided"} /\ hops = 0 => cause = Failed("none")
    /\ Finished => IsRefused \/ IsBroken \/ IsAnswered
    /\ IsRefused \/ IsBroken => asked = 0
    /\ phase = "decided" => FateFits /\ DelayFits
    /\ fate # "none" => phase = "decided"

LEMMA AttemptInit == Init => AttemptInv
BY DEF Init, AttemptInv, Finished, IsRefused, IsBroken, NoResult, Result, Failed

\* A status code is one of three things.
LEMMA ThreeOutcomes ==
    \A code : ClassifyStatus(code) \in {"success", "retryable", "permanent"}
BY DEF ClassifyStatus

\* Steps that end before there is a result.
LEMMA BeforeStep ==
    ASSUME AttemptInv,
           \/ \E i \in DOMAIN file.endpoints : Start(i)
           \/ RefuseToStart
           \/ \E callerBudget, n : TakeUp(callerBudget, n)
           \/ \E caller, key, body : SendRequest(caller, key, body)
           \/ UNCHANGED vars
    PROVE  AttemptInv'
<1>1. CASE UNCHANGED vars
  BY <1>1 DEF AttemptInv, vars, settings, Finished, IsRefused, IsBroken, IsAnswered,
     ClassifyStatus, FateFits, DelayFits
<1>2. CASE ~UNCHANGED vars
  <2>1. /\ UNCHANGED <<hops, result, fate, delay, cause, asked>>
        /\ ~Finished /\ ~Finished'
        /\ phase \in {"starting", "exited", "loaded", "ready"}
    BY <1>2 DEF Start, RefuseToStart, TakeUp, SendRequest, attemptVars, settings, Finished
  <2> QED BY <2>1 DEF AttemptInv, Finished, IsRefused, IsBroken
<1> QED BY <1>1, <1>2

LEMMA RefuseStep ==
    ASSUME AttemptInv, NEW why \in Unsent, Refuse(why)
    PROVE  AttemptInv'
BY DEF AttemptInv, Refuse, Return, Result, Failed, Finished, IsRefused, IsBroken

LEMMA FailStep ==
    ASSUME AttemptInv, NEW caller, NEW key, NEW body, FailToSend(caller, key, body)
    PROVE  AttemptInv'
BY DEF AttemptInv, FailToSend, Return, Result, Failed, Finished, IsRefused, IsBroken,
   TransportErrors

LEMMA TransportStep ==
    ASSUME AttemptInv, NEW error \in NetworkErrors, TransportFails(error)
    PROVE  AttemptInv'
BY DEF AttemptInv, TransportFails, Return, Result, Failed, FirstCause, Finished, IsRefused,
   IsBroken, NetworkErrors, TransportErrors

LEMMA RedirectStep ==
    ASSUME AttemptInv, NEW code \in Codes, FollowRedirect(code)
    PROVE  AttemptInv'
<1>1. hops' = hops + 1 /\ hops' > 0 /\ hops' \in Nat
  BY DEF AttemptInv, FollowRedirect
<1>2. cause'.why = "answered" /\ cause'.code \in Redirects
  BY DEF AttemptInv, FollowRedirect, FirstCause, Answered, Failed
<1>3. CASE hops + 1 < MaxHops
  BY <1>1, <1>2, <1>3 DEF AttemptInv, FollowRedirect, Finished, IsRefused, IsBroken
<1>4. CASE ~(hops + 1 < MaxHops)
  BY <1>1, <1>2, <1>4 DEF AttemptInv, FollowRedirect, Return, Result, Finished, IsRefused,
     IsBroken, TransportErrors
<1> QED BY <1>3, <1>4

LEMMA MisguidedStep ==
    ASSUME AttemptInv, NEW code \in Codes, MisguidedRedirect(code)
    PROVE  AttemptInv'
<1>1. cause'.why = "answered" /\ cause'.code \in Redirects
  BY DEF AttemptInv, MisguidedRedirect, FirstCause, Answered, Failed
<1> QED
  BY <1>1 DEF AttemptInv, MisguidedRedirect, Return, Result, Finished, IsRefused, IsBroken,
     TransportErrors

LEMMA RespondStep ==
    ASSUME AttemptInv, NEW code \in Codes, NEW retryAfter \in RetryAfters,
           Respond(code, retryAfter)
    PROVE  AttemptInv'
<1>1. /\ result' = Result(ClassifyStatus(code), code, "none", ParseRetryAfter(asked'))
      /\ asked' = IF ClassifyStatus(code) = "retryable" THEN retryAfter ELSE 0
      /\ phase' = "returned" /\ phase = "sending"
      /\ cause' = IF cause.why = "none" THEN Answered(code) ELSE cause
      /\ UNCHANGED <<ep, hops, fate, delay>>
  BY DEF Respond, Return, FirstCause, settings
<1>2. (ClassifyStatus(result.code))' = ClassifyStatus(code)
  BY <1>1 DEF ClassifyStatus, Result
<1>3. /\ result'.outcome = ClassifyStatus(code) /\ result'.code = code
      /\ result'.error = "none" /\ result'.retryAfter = ParseRetryAfter(asked')
  BY <1>1 DEF Result
<1>4. hops = 0 => cause = Failed("none")
  BY <1>1 DEF AttemptInv
<1>5. IsAnswered'
  <2>1. hops' = 0 => cause' = Answered(code)
    BY <1>1, <1>4 DEF Failed
  <2>2. (result.outcome = ClassifyStatus(result.code))'
    BY <1>2, <1>3
  <2>3. (result.retryAfter = ParseRetryAfter(asked))'
    BY <1>3 DEF ParseRetryAfter, Wrapped
  <2>4. result'.outcome # "retryable" => asked' = 0
    BY <1>1, <1>3
  <2> QED BY <1>3, <2>1, <2>2, <2>3, <2>4 DEF IsAnswered, Answered
<1>6. ~IsRefused' /\ ~IsBroken'
  BY <1>3, AttemptAssumption DEF IsRefused, IsBroken, Result
<1>7. asked' \in RetryAfters \cup {0}
  BY <1>1
<1> QED BY <1>1, <1>5, <1>6, <1>7 DEF AttemptInv, Finished

LEMMA DecideStep ==
    ASSUME AttemptInv, NEW r, NEW out, Decide(r, out)
    PROVE  AttemptInv'
<1>1. /\ phase = "returned" /\ phase' = "decided"
      /\ UNCHANGED <<ep, budget, attempt, hops, result, cause, asked>>
  BY DEF Decide, settings
<1>2. Finished /\ Finished'
  BY <1>1 DEF Finished
<1>3. IsRefused' = IsRefused /\ IsBroken' = IsBroken /\ IsAnswered' = IsAnswered
  BY <1>1 DEF IsRefused, IsBroken, IsAnswered, ClassifyStatus
<1>4. FateFits'
  BY <1>1 DEF Decide, FateFits
<1>5. DelayFits'
  BY <1>1 DEF Decide, DelayFits, ResolveDelay
<1> QED BY <1>1, <1>2, <1>3, <1>4, <1>5 DEF AttemptInv

LEMMA AttemptStep == AttemptInv /\ [Next]_vars => AttemptInv'
<1> SUFFICES ASSUME AttemptInv, [Next]_vars PROVE AttemptInv'
  OBVIOUS
<1>1. ASSUME NEW why \in Unsent, Refuse(why) PROVE AttemptInv'
  BY <1>1, RefuseStep
<1>2. ASSUME NEW error \in NetworkErrors, TransportFails(error) PROVE AttemptInv'
  BY <1>2, TransportStep
<1>3. ASSUME NEW code \in Codes, FollowRedirect(code) PROVE AttemptInv'
  BY <1>3, RedirectStep
<1>4. ASSUME NEW code \in Codes, NEW retryAfter \in RetryAfters, Respond(code, retryAfter)
      PROVE  AttemptInv'
  BY <1>4, RespondStep
<1>5. ASSUME NEW r, NEW out, Decide(r, out) PROVE AttemptInv'
  BY <1>5, DecideStep
<1>6. ASSUME NEW caller, NEW key, NEW body, FailToSend(caller, key, body) PROVE AttemptInv'
  BY <1>6, FailStep
<1>7. ASSUME NEW code \in Codes, MisguidedRedirect(code) PROVE AttemptInv'
  BY <1>7, MisguidedStep
<1> QED BY <1>1, <1>2, <1>3, <1>4, <1>5, <1>6, <1>7, BeforeStep DEF Next

LEMMA AttemptInvariant == Spec => []AttemptInv
BY AttemptInit, AttemptStep, PTL DEF Spec

-------------------------------------------------------------------------------

\* Whatever the lists say: what is retried, and nothing else, counts against the vendor,
\* shutdowns aside (breakerVerdict beside classifyStatus and classifyTransportError); and
\* only a header or a key that cannot be sent counts without the vendor's or the network's
\* doing.
THEOREM BreakerAgrees == Spec => []BreakerCountsRetries
<1>1. AttemptInv => BreakerCountsRetries
  <2> SUFFICES ASSUME AttemptInv, phase = "decided"
               PROVE  /\ BreakerVerdict(result) = "unhealthy"
                           <=> result.outcome = "retryable" /\ result.error # "shutdown"
                      /\ BreakerVerdict(result) = "unhealthy" =>
                           \/ cause.why \in NetworkErrors \ {"shutdown"}
                           \/ cause.code \in Redirects
                           \/ cause.code \in Codes /\ ClassifyStatus(cause.code) = "retryable"
                           \/ cause.why = "malformed"
    BY DEF BreakerCountsRetries
  <2>1. IsRefused \/ IsBroken \/ IsAnswered
    BY DEF AttemptInv, Finished
  <2>2. hops = 0 \/ cause.code \in Redirects
    BY DEF AttemptInv
  <2>3. CASE IsRefused
    BY <2>3 DEF IsRefused, Result, BreakerVerdict
  <2>4. CASE IsBroken
    <3>1. BreakerVerdict(result) = "unhealthy" <=> result.error # "shutdown"
      BY <2>4 DEF IsBroken, BreakerVerdict, TransportErrors, NetworkErrors
    <3>2. \/ cause.code \in Redirects
          \/ cause = Failed(result.error) /\ result.error \in NetworkErrors \cup {"malformed"}
      BY <2>2, <2>4 DEF IsBroken, TransportErrors
    <3>3. result.outcome = "retryable"
      BY <2>4 DEF IsBroken
    <3> QED BY <3>1, <3>2, <3>3 DEF Failed
  <2>5. CASE IsAnswered
    <3>1. /\ result.code # 0 /\ result.code \in Codes /\ result.error = "none"
          /\ result.outcome = ClassifyStatus(result.code)
      BY <2>5, AttemptAssumption DEF IsAnswered
    <3>2. cause.code = result.code \/ cause.code \in Redirects
      BY <2>2, <2>5 DEF IsAnswered, Answered
    <3>3. BreakerVerdict(result) = "unhealthy" <=> result.outcome = "retryable"
      BY <3>1 DEF BreakerVerdict
    <3> QED BY <3>1, <3>2, <3>3
  <2> QED BY <2>1, <2>3, <2>4, <2>5
<1> QED BY AttemptInvariant, <1>1, PTL

\* A product that fits the word is left as it is.
LEMMA NoWrap ==
    ASSUME NEW x \in Nat, x < Word \div 2
    PROVE  Wrapped(x) = x
<1>1. Word \in Nat /\ Word > 0 /\ 2 * (Word \div 2) = Word
  BY DelayAssumption
<1>2. x % Word = x
  BY <1>1
<1> QED BY <1>1, <1>2 DEF Wrapped

\* A wait the vendor asks for is kept up to the cap, as long as its seconds fit a
\* duration (parseRetryAfter, resolveDelay), whatever answer carried it.
THEOREM RetryAfterIsHonoured == Spec => []HonoursRetryAfter
<1>1. AttemptInv => HonoursRetryAfter
  <2> SUFFICES ASSUME AttemptInv, fate = "rescheduled", asked > 0,
                      asked * Second < Word \div 2
               PROVE  delay = Smaller(asked * Second, ep.max)
    BY DEF HonoursRetryAfter
  <2>1. phase = "decided" /\ DelayFits
    BY DEF AttemptInv
  <2>2. asked \in Nat
    BY AttemptAssumption, DelayAssumption DEF AttemptInv
  <2>3. IsAnswered
    BY <2>1, <2>2 DEF AttemptInv, Finished
  <2>4. asked * Second \in Nat /\ asked * Second > 0
    BY <2>2, SecondAssumption
  <2>5. result.retryAfter = asked * Second
    BY <2>2, <2>3, <2>4, NoWrap DEF IsAnswered, ParseRetryAfter
  <2> QED BY <2>1, <2>4, <2>5 DEF DelayFits
<1> QED BY AttemptInvariant, <1>1, PTL

\* README 4.2 for an endpoint with the default lists: outcome, verdict and fate of every
\* attempt, for whatever codes the vendor uses.
THEOREM TableIsFollowed == Spec => []FollowsTable
<1>1. AttemptInv => FollowsTable
  <2> SUFFICES ASSUME AttemptInv, phase = "decided", hops = 0,
                      result.error \notin {"bad_location", "malformed"},
                      ep.success = {}, ep.retry = DefaultRetryStatusCodes
               PROVE  /\ result.outcome = TableOutcome(cause)
                      /\ BreakerVerdict(result) = TableVerdict(cause)
                      /\ fate = TableFate(cause)
    BY DEF FollowsTable
  <2>1. IsRefused \/ IsBroken \/ IsAnswered
    BY DEF AttemptInv, Finished
  <2>2. FateFits
    BY DEF AttemptInv
  <2>3. result.outcome = TableOutcome(cause) /\ BreakerVerdict(result) = TableVerdict(cause)
    <3>1. CASE IsRefused
      BY <3>1 DEF IsRefused, Result, TableOutcome, TableVerdict, BreakerVerdict, Unsent,
         NetworkErrors, DefaultRetryStatusCodes
    <3>2. CASE IsBroken
      BY <3>2 DEF IsBroken, Failed, TableOutcome, TableVerdict, BreakerVerdict, Unsent,
         TransportErrors, NetworkErrors, DefaultRetryStatusCodes
    <3>3. CASE IsAnswered
      <4>1. /\ cause = Answered(result.code) /\ result.error = "none"
            /\ result.outcome = ClassifyStatus(result.code)
            /\ result.code \in 200..599
        BY <3>3, AttemptAssumption DEF IsAnswered
      <4>2. result.outcome = TableOutcome(cause)
        BY <4>1 DEF ClassifyStatus, TableOutcome, Answered, NetworkErrors,
           DefaultRetryStatusCodes
      <4>3. BreakerVerdict(result) = TableVerdict(cause)
        BY <4>1 DEF ClassifyStatus, TableVerdict, BreakerVerdict, Answered, Unsent,
           NetworkErrors, DefaultRetryStatusCodes
      <4> QED BY <4>2, <4>3
    <3> QED BY <2>1, <3>1, <3>2, <3>3
  <2>4. result.outcome \in {"success", "retryable", "permanent"}
    BY <2>1, ThreeOutcomes DEF IsRefused, IsBroken, IsAnswered, Result
  <2>5. fate = TableFate(cause)
    BY <2>2, <2>3, <2>4 DEF FateFits, TableFate
  <2> QED BY <2>3, <2>5
<1> QED BY AttemptInvariant, <1>1, PTL

-------------------------------------------------------------------------------
(* What a process has loaded. *)

\* The endpoint in use is one of a file that passed validation.
LoadedFromFile ==
    /\ phase \in {"starting", "loaded"} => file \in Files
    /\ phase = "loaded" =>
          /\ Loads(file)
          /\ \E i \in DOMAIN file.endpoints : ep = Resolved(file)[i]

LEMMA LoadedInvariant == Spec => []LoadedFromFile
<1>1. Init => LoadedFromFile
  BY DEF Init, LoadedFromFile
<1>2. LoadedFromFile /\ [Next]_vars => LoadedFromFile'
  <2> SUFFICES ASSUME LoadedFromFile, [Next]_vars PROVE LoadedFromFile'
    OBVIOUS
  <2>1. ASSUME NEW i \in DOMAIN file.endpoints, Start(i) PROVE LoadedFromFile'
    <3>1. Loads(file)' = Loads(file) /\ Resolved(file)' = Resolved(file) /\ file' = file
      BY <2>1 DEF Start, Loads, Resolved, LeaseDuration
    <3> QED BY <2>1, <3>1 DEF Start, LoadedFromFile
  <2>2. CASE UNCHANGED vars
    BY <2>2 DEF vars, settings, LoadedFromFile, Loads, Resolved, LeaseDuration
  <2>3. CASE ~(\E i \in DOMAIN file.endpoints : Start(i)) /\ ~UNCHANGED vars
    <3>1. phase' \notin {"starting", "loaded"}
      BY <2>3 DEF Next, RefuseToStart, TakeUp, Refuse, SendRequest, FailToSend,
         TransportFails, FollowRedirect, MisguidedRedirect, Respond, Decide, Return, vars
    <3> QED BY <3>1 DEF LoadedFromFile
  <2> QED BY <2>1, <2>2, <2>3
<1> QED BY <1>1, <1>2, PTL DEF Spec

Settings == DOMAIN Blank

LEMMA SettingNames ==
    Settings = {"timeout", "maxAttempts", "concurrency", "base", "max", "jitter", "enabled",
                "failureThreshold", "cooldown", "halfOpenProbes", "success", "retry",
                "allowCaller", "headers"}
BY DEF Settings, Blank

\* What a fallback makes of the fields of each kind.
LEMMA FallbackFields ==
    ASSUME NEW dst, NEW src, DOMAIN dst = Settings
    PROVE  /\ DOMAIN Fallback(dst, src) = Settings
           /\ \A f \in Quantities : Fallback(dst, src)[f] = Positive(dst[f], src[f])
           /\ \A f \in Lists : Fallback(dst, src)[f] = Filled(dst[f], src[f])
           /\ Fallback(dst, src).headers = dst.headers \cup src.headers
           /\ Fallback(dst, src).enabled
                 = IF dst.failureThreshold > 0 THEN dst.enabled ELSE src.enabled
<1>1. /\ \A f \in Quantities : f \in DOMAIN dst /\ f \notin Lists \cup {"headers", "enabled"}
      /\ \A f \in Lists : f \in DOMAIN dst /\ f \notin Quantities \cup {"headers", "enabled"}
      /\ "headers" \in DOMAIN dst /\ "headers" \notin Quantities \cup Lists
      /\ "enabled" \in DOMAIN dst /\ "enabled" \notin Quantities \cup Lists
  BY SettingNames DEF Quantities, Lists
<1>2. ASSUME NEW f \in Quantities PROVE Fallback(dst, src)[f] = Positive(dst[f], src[f])
  BY <1>1 DEF Fallback
<1>3. ASSUME NEW f \in Lists PROVE Fallback(dst, src)[f] = Filled(dst[f], src[f])
  BY <1>1 DEF Fallback
<1>4. Fallback(dst, src).headers = dst.headers \cup src.headers
  BY <1>1 DEF Fallback
<1>5. Fallback(dst, src).enabled
         = IF dst.failureThreshold > 0 THEN dst.enabled ELSE src.enabled
  BY <1>1 DEF Fallback
<1>6. DOMAIN Fallback(dst, src) = Settings
  BY DEF Fallback
<1> QED BY <1>2, <1>3, <1>4, <1>5, <1>6

\* A quantity of which some level knows a positive value is positive.
LEMMA FallbackIsPositive ==
    ASSUME NEW dst, NEW src, DOMAIN dst = Settings, NEW f \in Quantities, src[f] > 0
    PROVE  Fallback(dst, src)[f] > 0
<1>1. Fallback(dst, src)[f] = Positive(dst[f], src[f])
  BY FallbackFields
<1> QED BY <1>1 DEF Positive

LEMMA BuiltinsArePositive == \A f \in Quantities : BuiltinDefaults[f] > 0
BY SecondAssumption DEF Quantities, BuiltinDefaults

\* An endpoint whose curve rises: base, max and jitter as LoadedIsSound has them.
Rising(b) == b.base \in Nat /\ b.max \in Nat /\ 0 < b.base /\ b.base <= b.max

\* What the workers rely on of an endpoint.
Usable(e) ==
    /\ Decoded(e) /\ Rising(e)
    /\ e.jitter \in 1..10 /\ e.maxAttempts > 0

\* What a fallback makes of decoded settings is decoded.
LEMMA FallbackIsDecoded ==
    ASSUME NEW dst, NEW src, Decoded(dst), Decoded(src)
    PROVE  Decoded(Fallback(dst, src))
<1>1. DOMAIN dst = Settings /\ DOMAIN Fallback(dst, src) = DOMAIN Blank
  BY FallbackFields DEF Decoded, Settings
<1>2. /\ \A f \in Quantities : Fallback(dst, src)[f] = Positive(dst[f], src[f])
      /\ \A f \in Lists : Fallback(dst, src)[f] = Filled(dst[f], src[f])
  BY <1>1, FallbackFields
<1>3. \A f \in Quantities : Fallback(dst, src)[f] \in Int
  BY <1>2 DEF Decoded, Positive
<1>4. /\ Fallback(dst, src).success = Filled(dst.success, src.success)
      /\ Fallback(dst, src).retry = Filled(dst.retry, src.retry)
  BY <1>2 DEF Lists
<1>5. Fallback(dst, src).success \cup Fallback(dst, src).retry \subseteq Int
  BY <1>4 DEF Decoded, Filled
<1> QED BY <1>1, <1>3, <1>5 DEF Decoded

LEMMA BuiltinsAreDecoded == Decoded(BuiltinDefaults)
<1>1. DOMAIN BuiltinDefaults = DOMAIN Blank
  BY DEF BuiltinDefaults, Blank
<1>2. \A f \in Quantities : BuiltinDefaults[f] \in Int
  BY SecondAssumption DEF Quantities, BuiltinDefaults
<1>3. BuiltinDefaults.success \cup BuiltinDefaults.retry \subseteq Int
  BY DEF BuiltinDefaults, DefaultRetryStatusCodes
<1> QED BY <1>1, <1>2, <1>3 DEF Decoded

\* An endpoint of a file that passes validation.
LEMMA ResolvedIsSound ==
    ASSUME NEW f \in Files, Loads(f), NEW i \in DOMAIN f.endpoints, NEW e, e = Resolved(f)[i]
    PROVE  /\ Usable(e)
           /\ e.concurrency > 0
           /\ e.failureThreshold > 0 /\ e.halfOpenProbes > 0 /\ e.cooldown > 0
           /\ 0 < e.timeout /\ e.timeout < LeaseDuration(f)
<1> DEFINE own == f.endpoints[i].settings
           inherited == Fallback(f.defaults, BuiltinDefaults)
<1>1. /\ Decoded(f.defaults) /\ Decoded(own)
      /\ DOMAIN f.defaults = Settings /\ DOMAIN own = Settings
  BY AttemptAssumption DEF Decoded, Settings
<1>2. e = Fallback(own, inherited)
  BY DEF Resolved
<1>3. Decoded(inherited) /\ Decoded(e)
  BY <1>1, <1>2, BuiltinsAreDecoded, FallbackIsDecoded
<1>4. \A q \in Quantities : inherited[q] > 0
  BY <1>1, BuiltinsArePositive, FallbackIsPositive
<1>5. \A q \in Quantities : e[q] > 0
  BY <1>1, <1>2, <1>4, FallbackIsPositive
<1>6. e.max >= e.base /\ e.jitter \in 0..10 /\ e.timeout < LeaseDuration(f)
  BY DEF Loads, Valid
<1>7. /\ e.maxAttempts > 0 /\ e.concurrency > 0 /\ e.base > 0 /\ e.jitter > 0
      /\ e.failureThreshold > 0 /\ e.halfOpenProbes > 0 /\ e.cooldown > 0
      /\ e.timeout > 0 /\ e.base \in Int /\ e.max \in Int
  BY <1>3, <1>5 DEF Quantities, Decoded
<1> HIDE DEF own, inherited
<1> QED BY <1>3, <1>6, <1>7 DEF Usable, Rising

\* A process that starts has workers, attempts, a breaker that can trip and be probed, a
\* curve that rises, and requests that end before their lease (normalize, validate),
\* whatever the file says.
THEOREM WhatIsLoadedIsSound == Spec => []LoadedIsSound
<1>1. LoadedFromFile => LoadedIsSound
  BY ResolvedIsSound DEF LoadedFromFile, LoadedIsSound, Usable, Rising
<1> QED BY LoadedInvariant, <1>1, PTL

\* The least of the levels at which something is written.
LEMMA MinOfThree ==
    ASSUME NEW S \in SUBSET (1..3), S # {}
    PROVE  Min(S) = IF 1 \in S THEN 1 ELSE IF 2 \in S THEN 2 ELSE 3
<1> DEFINE m == IF 1 \in S THEN 1 ELSE IF 2 \in S THEN 2 ELSE 3
<1>1. \A j \in S : j \in {1, 2, 3}
  OBVIOUS
<1>2. m \in S /\ m \in 1..3 /\ \A j \in S : m <= j
  <2>1. 1 \in S \/ 2 \in S \/ 3 \in S
    BY <1>1
  <2>2. CASE 1 \in S
    BY <1>1, <2>2
  <2>3. CASE 1 \notin S /\ 2 \in S
    BY <1>1, <2>3
  <2>4. CASE 1 \notin S /\ 2 \notin S
    BY <1>1, <2>1, <2>4
  <2> QED BY <2>2, <2>3, <2>4
<1> HIDE DEF m
<1>3. Min(S) \in S /\ \A j \in S : Min(S) <= j
  BY <1>2 DEF Min
<1>4. Min(S) <= m /\ m <= Min(S) /\ Min(S) \in 1..3
  BY <1>2, <1>3
<1>5. Min(S) = m
  BY <1>2, <1>4
<1> QED BY <1>5 DEF m

LEMMA NearestQuantity ==
    ASSUME NEW a, NEW b, NEW c, NEW f, c[f] > 0
    PROVE  LET written == {l \in DOMAIN <<a, b, c>> : <<a, b, c>>[l][f] > 0}
           IN  (IF written = {} THEN Blank ELSE <<a, b, c>>[Min(written)])[f]
              = Positive(a[f], Positive(b[f], c[f]))
<1> DEFINE levels == <<a, b, c>>
           written == {l \in DOMAIN levels : levels[l][f] > 0}
<1>1. DOMAIN levels = 1..3 /\ levels[1] = a /\ levels[2] = b /\ levels[3] = c
  OBVIOUS
<1> HIDE DEF levels
<1>2. written \in SUBSET (1..3) /\ 3 \in written
  BY <1>1
<1>3. Min(written) = IF 1 \in written THEN 1 ELSE IF 2 \in written THEN 2 ELSE 3
  BY <1>2, MinOfThree
<1>4. (1 \in written <=> a[f] > 0) /\ (2 \in written <=> b[f] > 0)
  BY <1>1
<1>5. written # {}
  BY <1>2
<1> QED BY <1>1, <1>3, <1>4, <1>5 DEF Positive, levels

LEMMA NearestEnabled ==
    ASSUME NEW a, NEW b, NEW c, c.failureThreshold > 0
    PROVE  NearestLevel(<<a, b, c>>, LAMBDA level : level.failureThreshold > 0).enabled
              = IF a.failureThreshold > 0 THEN a.enabled
                ELSE IF b.failureThreshold > 0 THEN b.enabled ELSE c.enabled
<1> DEFINE levels == <<a, b, c>>
           written == {l \in DOMAIN levels : levels[l].failureThreshold > 0}
<1>1. DOMAIN levels = 1..3 /\ levels[1] = a /\ levels[2] = b /\ levels[3] = c
  OBVIOUS
<1> HIDE DEF levels
<1>2. /\ written \in SUBSET (1..3) /\ 3 \in written
      /\ 1 \in written <=> a.failureThreshold > 0
      /\ 2 \in written <=> b.failureThreshold > 0
  BY <1>1
<1>3. NearestLevel(levels, LAMBDA level : level.failureThreshold > 0)
         = IF written = {} THEN Blank ELSE levels[Min(written)]
  BY DEF NearestLevel
<1> HIDE DEF written
<1> QED BY <1>1, <1>2, <1>3, MinOfThree DEF levels

\* An endpoint has inherited what is written nearest to it (applyEndpointFallback, twice,
\* in normalize), the switch of the breaker from beside the nearest threshold, whatever
\* the file says.
THEOREM NearestSettingCounts == Spec => []NearestSettingHolds
<1>1. LoadedFromFile => NearestSettingHolds
  <2> SUFFICES ASSUME phase = "loaded", file \in Files,
                      NEW i \in DOMAIN file.endpoints, ep = Resolved(file)[i]
               PROVE  /\ \A f \in Quantities :
                            ep[f] = NearestLevel(Levels(i), LAMBDA level : level[f] > 0)[f]
                      /\ \A f \in Lists :
                            ep[f] = NearestLevel(Levels(i), LAMBDA level : level[f] # {})[f]
                      /\ ep.headers = file.endpoints[i].settings.headers \cup file.defaults.headers
                      /\ ep.enabled = NearestLevel(Levels(i),
                            LAMBDA level : level.failureThreshold > 0).enabled
    BY DEF LoadedFromFile, NearestSettingHolds
  <2> DEFINE own == file.endpoints[i].settings
             default == file.defaults
             inherited == Fallback(default, BuiltinDefaults)
  <2>1. DOMAIN default = Settings /\ DOMAIN own = Settings
    BY AttemptAssumption DEF Settings, Decoded
  <2>2. ep = Fallback(own, inherited) /\ Levels(i) = <<own, default, BuiltinDefaults>>
    BY DEF Resolved, Levels
  <2>3. /\ \A f \in Quantities : inherited[f] = Positive(default[f], BuiltinDefaults[f])
        /\ \A f \in Lists : inherited[f] = Filled(default[f], BuiltinDefaults[f])
        /\ inherited.headers = default.headers \cup BuiltinDefaults.headers
        /\ inherited.enabled = IF default.failureThreshold > 0 THEN default.enabled
                               ELSE BuiltinDefaults.enabled
    BY <2>1, FallbackFields
  <2>4. inherited.failureThreshold = Positive(default.failureThreshold, 5)
    BY <2>3 DEF Quantities, BuiltinDefaults
  <2> HIDE DEF own, default, inherited
  <2>5. /\ \A f \in Quantities : ep[f] = Positive(own[f], inherited[f])
        /\ \A f \in Lists : ep[f] = Filled(own[f], inherited[f])
        /\ ep.headers = own.headers \cup inherited.headers
        /\ ep.enabled = IF own.failureThreshold > 0 THEN own.enabled ELSE inherited.enabled
    BY <2>1, <2>2, FallbackFields
  <2>6. ASSUME NEW f \in Quantities
        PROVE  ep[f] = NearestLevel(Levels(i), LAMBDA level : level[f] > 0)[f]
    <3>1. NearestLevel(<<own, default, BuiltinDefaults>>, LAMBDA level : level[f] > 0)[f]
            = Positive(own[f], Positive(default[f], BuiltinDefaults[f]))
      BY BuiltinsArePositive, NearestQuantity DEF NearestLevel
    <3> QED BY <2>2, <2>3, <2>5, <3>1
  <2>7. ASSUME NEW f \in Lists
        PROVE  ep[f] = NearestLevel(Levels(i), LAMBDA level : level[f] # {})[f]
    <3>1. Blank[f] = {}
      BY DEF Lists, Blank
    <3> DEFINE levels == <<own, default, BuiltinDefaults>>
               written == {l \in DOMAIN levels : levels[l][f] # {}}
    <3>2. /\ DOMAIN levels = 1..3
          /\ levels[1] = own /\ levels[2] = default /\ levels[3] = BuiltinDefaults
      OBVIOUS
    <3>3. NearestLevel(levels, LAMBDA level : level[f] # {})
             = IF written = {} THEN Blank ELSE levels[Min(written)]
      BY DEF NearestLevel
    <3>4. ep[f] = Filled(own[f], Filled(default[f], BuiltinDefaults[f]))
      BY <2>3, <2>5
    <3>5. (IF written = {} THEN Blank ELSE levels[Min(written)])[f] = ep[f]
      <4> HIDE DEF levels
      <4>1. /\ written \in SUBSET (1..3)
            /\ 1 \in written <=> own[f] # {}
            /\ 2 \in written <=> default[f] # {}
            /\ 3 \in written <=> BuiltinDefaults[f] # {}
        BY <3>2
      <4> HIDE DEF written
      <4>2. CASE written = {}
        BY <3>1, <3>4, <4>1, <4>2 DEF Filled
      <4>3. CASE written # {}
        <5>1. Min(written) = IF 1 \in written THEN 1 ELSE IF 2 \in written THEN 2 ELSE 3
          BY <4>1, <4>3, MinOfThree
        <5> QED BY <3>2, <3>4, <4>1, <4>3, <5>1 DEF Filled
      <4> QED BY <4>2, <4>3
    <3> QED BY <2>2, <3>3, <3>5
  <2>8. ep.enabled = NearestLevel(Levels(i),
           LAMBDA level : level.failureThreshold > 0).enabled
    <3>1. BuiltinDefaults.failureThreshold > 0
      BY DEF BuiltinDefaults
    <3>2. NearestLevel(<<own, default, BuiltinDefaults>>,
                       LAMBDA level : level.failureThreshold > 0).enabled
            = IF own.failureThreshold > 0 THEN own.enabled
              ELSE IF default.failureThreshold > 0 THEN default.enabled
              ELSE BuiltinDefaults.enabled
      BY <3>1, NearestEnabled
    <3> QED BY <2>2, <2>3, <2>5, <3>2
  <2>9. ep.headers = file.endpoints[i].settings.headers \cup file.defaults.headers
    BY <2>3, <2>5 DEF own, default, BuiltinDefaults
  <2> QED BY <2>6, <2>7, <2>8, <2>9
<1> QED BY LoadedInvariant, <1>1, PTL

-------------------------------------------------------------------------------
(* Who decides a header. *)

\* The headers under way are renderHeaders's, for some caller and notification.
HeadersRendered ==
    phase = "sending" =>
        \E caller, key, body :
            request = [header |-> RenderHeaders(ep, caller, key, body), key |-> key]

LEMMA HeadersInvariant == Spec => []HeadersRendered
<1>1. Init => HeadersRendered
  BY DEF Init, HeadersRendered
<1>2. HeadersRendered /\ [Next]_vars => HeadersRendered'
  <2> SUFFICES ASSUME HeadersRendered, [Next]_vars, phase' = "sending"
               PROVE  \E caller, key, body :
                         request' = [header |-> RenderHeaders(ep', caller, key, body),
                                     key |-> key]
    BY DEF HeadersRendered
  <2>1. CASE \E caller, key, body : SendRequest(caller, key, body)
    BY <2>1 DEF SendRequest, settings
  <2>2. CASE ~\E caller, key, body : SendRequest(caller, key, body)
    <3>1. phase = "sending" /\ UNCHANGED <<request, ep>>
      BY <2>2 DEF Next, Start, RefuseToStart, TakeUp, Refuse, FailToSend, TransportFails,
         FollowRedirect, MisguidedRedirect, Respond, Decide, Return, vars, settings
    <3> QED BY <3>1 DEF HeadersRendered
  <2> QED BY <2>1, <2>2
<1> QED BY <1>1, <1>2, PTL DEF Spec

\* The last layer that has a name decides it.
LEMMA LastWriter ==
    ASSUME NEW e, NEW caller, NEW key, NEW body,
           NEW h \in DOMAIN RenderHeaders(e, caller, key, body)
    PROVE  \E i \in 1..4 :
              /\ h \in Layers(e, caller, key, body)[i].names
              /\ \A j \in 1..4 : h \in Layers(e, caller, key, body)[j].names => j <= i
              /\ RenderHeaders(e, caller, key, body)[h]
                    = Layers(e, caller, key, body)[i].by
<1> DEFINE layers == Layers(e, caller, key, body)
           writers == {i \in DOMAIN layers : h \in layers[i].names}
<1>1. DOMAIN layers = 1..4
  BY DEF Layers
<1> HIDE DEF layers
<1>2. \E i \in 1..4 : h \in layers[i].names
  BY <1>1 DEF RenderHeaders, layers
<1>3. PICK m \in writers : \A j \in writers : m >= j
  <2>1. writers \subseteq 1..4 /\ writers # {}
    BY <1>1, <1>2
  <2> QED BY <2>1
<1>4. Max(writers) \in writers /\ \A j \in writers : Max(writers) >= j
  BY <1>3 DEF Max
<1>5. RenderHeaders(e, caller, key, body)[h] = layers[Max(writers)].by
  BY DEF RenderHeaders, layers
<1> QED BY <1>1, <1>4, <1>5 DEF layers

LEMMA LayerContents ==
    ASSUME NEW e, NEW caller, NEW key, NEW body
    PROVE  LET layers == Layers(e, caller, key, body)
           IN  /\ layers[1].by = "caller" /\ layers[2].by = "endpoint"
               /\ layers[3].by = "content_type" /\ layers[4].by = "service"
               /\ layers[1].names \cap (Denied \cup Identity) = {}
               /\ layers[2].names = e.headers
               /\ Identity \subseteq layers[4].names
               /\ key # "none" => IdempotencyKey \in layers[4].names
               /\ layers[4].names \subseteq DOMAIN RenderHeaders(e, caller, key, body)
BY DEF Layers, CallerHeaderAllowed, RenderHeaders

\* No caller and no configuration replaces what the service says of a notification, and
\* no caller what the endpoint's owner configured, route and identity (renderHeaders,
\* callerHeaderAllowed), whatever headers callers send.
THEOREM HeadersCannotBeForged == Spec => []HeadersAreTrusted
<1>1. HeadersRendered => HeadersAreTrusted
  <2> SUFFICES ASSUME NEW caller, NEW key, NEW body,
                      request = [header |-> RenderHeaders(ep, caller, key, body),
                                 key |-> key]
               PROVE  /\ \A h \in Identity : request.header[h] = "service"
                      /\ request.key # "none" => request.header[IdempotencyKey] = "service"
                      /\ \A h \in DOMAIN request.header \cap (ep.headers \cup Denied) :
                            request.header[h] # "caller"
    BY DEF HeadersRendered, HeadersAreTrusted
  <2> DEFINE layers == Layers(ep, caller, key, body)
             header == RenderHeaders(ep, caller, key, body)
  <2>1. request.header = header /\ request.key = key
    OBVIOUS
  <2>2. /\ layers[1].by = "caller" /\ layers[2].by = "endpoint"
        /\ layers[3].by = "content_type" /\ layers[4].by = "service"
        /\ layers[1].names \cap (Denied \cup Identity) = {}
        /\ layers[2].names = ep.headers
        /\ Identity \subseteq layers[4].names
        /\ key # "none" => IdempotencyKey \in layers[4].names
        /\ layers[4].names \subseteq DOMAIN header
    BY LayerContents
  <2>3. ASSUME NEW h \in DOMAIN header
        PROVE  \E i \in 1..4 : /\ h \in layers[i].names
                               /\ \A j \in 1..4 : h \in layers[j].names => j <= i
                               /\ header[h] = layers[i].by
    BY LastWriter
  <2> HIDE DEF layers, header
  <2>4. ASSUME NEW h \in layers[4].names PROVE header[h] = "service"
    <3>1. PICK i \in 1..4 : (4 <= i) /\ header[h] = layers[i].by
      BY <2>2, <2>3
    <3>2. i = 4
      BY <3>1
    <3> QED BY <2>2, <3>1, <3>2
  <2>5. ASSUME NEW h \in DOMAIN header, h \in ep.headers \cup Denied
        PROVE  header[h] # "caller"
    <3>1. PICK i \in 1..4 : /\ h \in layers[i].names
                            /\ \A j \in 1..4 : h \in layers[j].names => j <= i
                            /\ header[h] = layers[i].by
      BY <2>3
    <3>2. i # 1
      BY <2>2, <2>5, <3>1
    <3>3. i \in {2, 3, 4}
      BY <3>2
    <3> QED BY <2>2, <3>1, <3>3
  <2> QED BY <2>1, <2>2, <2>4, <2>5
<1> QED BY HeadersInvariant, <1>1, PTL

-------------------------------------------------------------------------------
(* The curve of the retries. *)

LEMMA NatOrder ==
    \E R : IsWellFoundedOn(R, Nat) /\ \A x, y \in Nat : x < y => <<x, y>> \in R
<1> DEFINE R == OpToRel(<, Nat)
<1>1. IsWellFoundedOn(R, Nat)
  BY NatLessThanWellFounded
<1>2. \A x, y \in Nat : x < y => <<x, y>> \in R
  BY DEF OpToRel
<1> HIDE DEF R
<1> QED BY <1>1, <1>2

LEMMA MinFacts ==
    ASSUME NEW S \in SUBSET Nat, S # {}
    PROVE  Min(S) \in S /\ \A x \in S : Min(S) <= x
<1>1. PICK R : IsWellFoundedOn(R, Nat) /\ \A x, y \in Nat : x < y => <<x, y>> \in R
  BY NatOrder
<1>2. S \subseteq Nat
  OBVIOUS
<1>3. \E m \in S : \A y \in S : ~(<<y, m>> \in R)
  <2>1. IsWellFoundedOn(R, Nat)
    BY <1>1
  <2> QED BY <2>1, <1>2, WFMin
<1>4. PICK m \in S : \A y \in S : ~(<<y, m>> \in R)
  BY <1>3
<1>5. ASSUME NEW y \in S PROVE m <= y
  <2>1. m \in Nat /\ y \in Nat
    BY <1>2
  <2>2. ~(y < m)
    BY <1>1, <1>4, <2>1, Zenon
  <2> QED BY <2>1, <2>2
<1>6. \E k \in S : \A y \in S : k <= y
  BY <1>5
<1> QED BY <1>6 DEF Min

\* f[k] is what k applications of step make of start.
Iterated(f, step, start) == f[0] = start /\ \A k \in Nat : f[k+1] = step[f[k]]

LEMMA Iterates ==
    ASSUME NEW S, NEW step \in [S -> S], NEW start \in S
    PROVE  \E f \in [Nat -> S] : Iterated(f, step, start)
<1> DEFINE Upto(f, n) == /\ f \in [0..n -> S] /\ f[0] = start
                         /\ \A k \in 0..(n-1) : f[k+1] = step[f[k]]
<1>1. \A n \in Nat : \E f : Upto(f, n)
  <2> DEFINE bad == {n \in Nat : ~\E f : Upto(f, n)}
  <2> SUFFICES ASSUME bad # {} PROVE FALSE
    OBVIOUS
  <2>1. PICK m \in bad : \A n \in bad : m <= n
    BY MinFacts
  <2>2. CASE m = 0
    <3>1. Upto([k \in 0..0 |-> start], 0)
      OBVIOUS
    <3> QED BY <2>1, <2>2, <3>1
  <2>3. CASE m # 0
    <3>1. m-1 \in Nat /\ m-1 \notin bad
      BY <2>1, <2>3
    <3>2. PICK f : Upto(f, m-1)
      BY <3>1
    <3> DEFINE g == [k \in 0..m |-> IF k = m THEN step[f[m-1]] ELSE f[k]]
    <3>3. /\ \A k \in 0..(m-1) : g[k] = f[k]
          /\ g[m] = step[f[m-1]] /\ g \in [0..m -> S]
      BY <2>1, <3>1, <3>2
    <3> HIDE DEF g
    <3>4. ASSUME NEW k \in 0..(m-1) PROVE g[k+1] = step[g[k]]
      <4>1. CASE k = m-1
        BY <3>1, <3>3, <4>1
      <4>2. CASE k # m-1
        BY <3>1, <3>2, <3>3, <4>2
      <4> QED BY <4>1, <4>2
    <3>5. g[0] = start
      BY <3>1, <3>2, <3>3
    <3> QED BY <2>1, <3>3, <3>4, <3>5
  <2> QED BY <2>2, <2>3
<1>2. ASSUME NEW n \in Nat, NEW m \in Nat, n <= m, NEW f, NEW g, Upto(f, n), Upto(g, m)
      PROVE  f[n] = g[n]
  <2> DEFINE bad == {k \in 0..n : f[k] # g[k]}
  <2> SUFFICES ASSUME bad # {} PROVE FALSE
    BY <1>2
  <2>1. PICK k \in bad : \A j \in bad : k <= j
    <3>1. bad \in SUBSET Nat
      OBVIOUS
    <3> HIDE DEF bad
    <3> QED BY <3>1, MinFacts
  <2>2. k # 0
    BY <1>2, <2>1
  <2>3. k-1 \in 0..(n-1) /\ k-1 \in 0..(m-1) /\ k-1 \notin bad /\ k-1 \in 0..n
    BY <1>2, <2>1, <2>2
  <2>4. f[k-1] = g[k-1]
    BY <2>3
  <2>5. f[(k-1)+1] = step[f[k-1]] /\ g[(k-1)+1] = step[g[k-1]]
    BY <1>2, <2>3
  <2>6. (k-1)+1 = k
    BY <2>1
  <2> QED BY <2>1, <2>4, <2>5, <2>6
<1> DEFINE upto == [n \in Nat |-> CHOOSE f : Upto(f, n)]
<1>3. \A n \in Nat : Upto(upto[n], n)
  BY <1>1
<1> HIDE DEF upto
<1> DEFINE f == [n \in Nat |-> upto[n][n]]
<1>4. f \in [Nat -> S] /\ f[0] = start
  BY <1>3
<1>5. ASSUME NEW k \in Nat PROVE f[k+1] = step[f[k]]
  <2>1. Upto(upto[k], k) /\ Upto(upto[k+1], k+1)
    BY <1>3
  <2>2. upto[k+1][k] = upto[k][k]
    <3> HIDE DEF Upto
    <3> QED BY <1>2, <2>1
  <2>3. upto[k+1][k+1] = step[upto[k+1][k]]
    BY <2>1
  <2> QED BY <2>2, <2>3
<1> HIDE DEF f
<1>6. Iterated(f, step, start)
  BY <1>4, <1>5 DEF Iterated
<1> QED BY <1>4, <1>6

\* The powers nextBackoff computes are the powers of two.
LEMMA Powers ==
    /\ PowerOfTwo[0] = 1
    /\ \A k \in Nat : PowerOfTwo[k] \in Nat /\ PowerOfTwo[k+1] = 2 * PowerOfTwo[k]
<1> DEFINE double == [x \in Nat |-> 2 * x]
<1>1. PICK f \in [Nat -> Nat] : Iterated(f, double, 1)
  <2>1. double \in [Nat -> Nat]
    OBVIOUS
  <2>2. 1 \in Nat
    OBVIOUS
  <2> HIDE DEF double
  <2> QED BY <2>1, <2>2, Iterates
<1>2. f = [k \in Nat |-> IF k = 0 THEN 1 ELSE 2 * f[k-1]]
  <2> SUFFICES ASSUME NEW k \in Nat PROVE f[k] = IF k = 0 THEN 1 ELSE 2 * f[k-1]
    BY <1>1
  <2>1. CASE k # 0
    <3>1. k-1 \in Nat /\ (k-1)+1 = k
      BY <2>1
    <3> QED BY <1>1, <2>1, <3>1 DEF Iterated
  <2> QED BY <1>1, <2>1 DEF Iterated
<1>3. PowerOfTwo = [k \in Nat |-> IF k = 0 THEN 1 ELSE 2 * PowerOfTwo[k-1]]
  BY <1>2 DEF PowerOfTwo
<1>4. PowerOfTwo[0] = 1
  BY <1>3
<1>5. ASSUME NEW k \in Nat PROVE PowerOfTwo[k+1] = 2 * PowerOfTwo[k]
  <2>1. k+1 \in Nat /\ k+1 # 0 /\ (k+1)-1 = k
    OBVIOUS
  <2> QED BY <1>3, <2>1
<1>6. ASSUME NEW k \in Nat PROVE PowerOfTwo[k] \in Nat
  <2> DEFINE bad == {j \in Nat : PowerOfTwo[j] \notin Nat}
  <2> SUFFICES ASSUME bad # {} PROVE FALSE
    OBVIOUS
  <2>1. PICK m \in bad : \A j \in bad : m <= j
    BY MinFacts
  <2>2. m # 0
    BY <1>4, <2>1
  <2>3. m-1 \in Nat /\ (m-1)+1 = m /\ PowerOfTwo[m-1] \in Nat
    BY <2>1, <2>2
  <2> QED BY <1>5, <2>1, <2>3
<1> QED BY <1>4, <1>5, <1>6

LEMMA PowersGrow ==
    ASSUME NEW k \in Nat, NEW n \in Nat, k <= n
    PROVE  PowerOfTwo[k] <= PowerOfTwo[n]
<1> DEFINE bad == {j \in Nat : k <= j /\ ~(PowerOfTwo[k] <= PowerOfTwo[j])}
<1> SUFFICES ASSUME bad # {} PROVE FALSE
  OBVIOUS
<1>1. PICK m \in bad : \A j \in bad : m <= j
  BY MinFacts
<1>2. m # k
  BY <1>1, Powers
<1>3. m-1 \in Nat /\ (m-1)+1 = m /\ k <= m-1 /\ m-1 \notin bad
  BY <1>1, <1>2
<1>4. PowerOfTwo[k] <= PowerOfTwo[m-1]
  BY <1>3
<1>5. /\ PowerOfTwo[m] = 2 * PowerOfTwo[m-1]
      /\ PowerOfTwo[m-1] \in Nat /\ PowerOfTwo[k] \in Nat
  BY <1>3, Powers
<1> QED BY <1>1, <1>4, <1>5

\* The curve is what nextBackoff computes, the jitter and the clamp aside.
LEMMA CurveIsPower ==
    ASSUME NEW b, Rising(b), NEW n \in Nat \ {0}
    PROVE  Curve(b, n) = Smaller(b.base * PowerOfTwo[n-1], b.max)
<1> DEFINE next == [x \in Nat |-> Smaller(2 * x, b.max)]
<1>1. PICK f \in [Nat -> Nat] : Iterated(f, next, b.base)
  <2>1. next \in [Nat -> Nat]
    BY DEF Rising, Smaller
  <2>2. b.base \in Nat
    BY DEF Rising
  <2> HIDE DEF next
  <2> QED BY <2>1, <2>2, Iterates
<1> DEFINE shifted == [i \in Nat \ {0} |-> f[i-1]]
<1>2. shifted = [i \in Nat \ {0} |-> IF i = 1 THEN b.base ELSE Smaller(2 * shifted[i-1], b.max)]
  <2> SUFFICES ASSUME NEW i \in Nat \ {0}
               PROVE  f[i-1] = IF i = 1 THEN b.base ELSE Smaller(2 * shifted[i-1], b.max)
    OBVIOUS
  <2>1. CASE i = 1
    BY <1>1, <2>1 DEF Iterated
  <2>2. CASE i # 1
    <3>1. i-2 \in Nat /\ (i-2)+1 = i-1 /\ i-1 \in Nat \ {0} /\ (i-1)-1 = i-2
      BY <2>2
    <3>2. shifted[i-1] = f[i-2] /\ f[i-2] \in Nat
      BY <1>1, <3>1
    <3>3. f[i-1] = Smaller(2 * f[i-2], b.max)
      BY <1>1, <3>1, <3>2 DEF Iterated
    <3> QED BY <2>2, <3>2, <3>3
  <2> QED BY <2>1, <2>2
<1> HIDE DEF shifted
<1> DEFINE c == CHOOSE c : c = [i \in Nat \ {0} |->
                                   IF i = 1 THEN b.base ELSE Smaller(2 * c[i-1], b.max)]
<1>3. c = [i \in Nat \ {0} |-> IF i = 1 THEN b.base ELSE Smaller(2 * c[i-1], b.max)]
  BY <1>2, Zenon
<1>4. Curve(b, n) = c[n]
  BY DEF Curve
<1> HIDE DEF c
<1> DEFINE bad == {i \in Nat \ {0} : c[i] # Smaller(b.base * PowerOfTwo[i-1], b.max)}
<1> SUFFICES ASSUME bad # {} PROVE FALSE
  BY <1>4
<1>5. PICK m \in bad : \A i \in bad : m <= i
  <2>1. bad \in SUBSET Nat
    OBVIOUS
  <2> HIDE DEF bad
  <2> QED BY <2>1, MinFacts
<1>6. m # 1
  BY <1>3, <1>5, Powers DEF Rising, Smaller
<1>7. /\ m-1 \in Nat \ {0} /\ m-1 \notin bad
      /\ m-2 \in Nat /\ (m-1)-1 = m-2 /\ (m-2)+1 = m-1
  BY <1>5, <1>6
<1>8. c[m-1] = Smaller(b.base * PowerOfTwo[m-2], b.max)
  BY <1>7
<1>9. c[m] = Smaller(2 * c[m-1], b.max)
  BY <1>3, <1>5, <1>6
<1>10. PICK p \in Nat : PowerOfTwo[m-2] = p /\ PowerOfTwo[m-1] = 2 * p
  BY <1>7, Powers
<1>11. /\ b.base * p \in Nat /\ b.base * (2 * p) = 2 * (b.base * p)
  BY <1>10 DEF Rising
<1>12. c[m] = Smaller(b.base * PowerOfTwo[m-1], b.max)
  BY <1>8, <1>9, <1>10, <1>11 DEF Smaller, Rising
<1> QED BY <1>5, <1>12

\* What the jitter makes of a wait, rounded down.
AfterJitter(d, j, r) == Larger((d * (100 + j * (2*r - 10))) \div 100, 0)

LEMMA Jittered ==
    ASSUME NEW d \in Nat, NEW j \in 0..10, NEW r \in 0..9
    PROVE  /\ AfterJitter(d, j, r) \in 0..2*d
           /\ 10 * AfterJitter(d, j, r) <= d * (10 + j)
           /\ 10 * (AfterJitter(d, j, r) + 1) > d * (10 - j)
<1> DEFINE p == j * (2*r - 10)
           x == d * (100 + p)
           q == x \div 100
<1>1. p \in Int /\ -(10 * j) <= p /\ p <= 10 * j
  <2>1. r \in {0, 1, 2, 3, 4, 5, 6, 7, 8, 9}
    OBVIOUS
  <2> QED BY <2>1
<1> HIDE DEF p
<1>2. x \in Int /\ d * (100 - 10 * j) <= x /\ x <= d * (100 + 10 * j) /\ 0 <= x
  <2>1. 100 - 10 * j <= 100 + p /\ 100 + p <= 100 + 10 * j /\ 0 <= 100 - 10 * j
    BY <1>1
  <2>2. \A u, v \in Int : u <= v => d * u <= d * v
    OBVIOUS
  <2>3. 100 - 10 * j \in Int /\ 100 + p \in Int /\ 100 + 10 * j \in Int
    BY <1>1
  <2>4. d * (100 - 10 * j) <= x /\ x <= d * (100 + 10 * j) /\ d * 0 <= d * (100 - 10 * j)
    BY <2>1, <2>2, <2>3
  <2>5. x \in Int /\ d * (100 - 10 * j) \in Int
    BY <2>3
  <2> QED BY <2>4, <2>5
<1> HIDE DEF x
<1>3. q \in Nat /\ 100 * q <= x /\ x < 100 * q + 100
  BY <1>2
<1> HIDE DEF q
<1>4. d * (100 - 10 * j) = 10 * (d * (10 - j)) /\ d * (100 + 10 * j) = 10 * (d * (10 + j))
  OBVIOUS
<1>5. d * (10 - j) \in Int /\ d * (10 + j) \in Int /\ d * (10 + j) <= 20 * d
  OBVIOUS
<1>6. 10 * q <= d * (10 + j) /\ 10 * (q + 1) > d * (10 - j)
  BY <1>2, <1>3, <1>4, <1>5
<1>7. q \in 0..2*d
  BY <1>3, <1>5, <1>6
<1>8. q = AfterJitter(d, j, r)
  BY <1>3 DEF AfterJitter, Larger, q, x, p
<1> QED BY <1>6, <1>7, <1>8

\* A float is a duration, or becomes the least or the greatest one.
LEMMA ConvertedFits ==
    ASSUME NEW d \in Nat, NEW out \in OutOfRange
    PROVE  Converted(d, out) \in -(Word \div 2)..(Word \div 2)-1
<1>1. Word \div 2 \in Nat /\ Word \div 2 > 0
  BY DelayAssumption
<1> QED BY <1>1 DEF Converted, OutOfRange

\* Every wait of nextBackoff is a duration, and on the curve unless the clamp of the
\* exponent bends it or the stretched point of the curve is none.
LEMMA BackoffFacts ==
    ASSUME NEW b, Rising(b), b.jitter \in 0..10, NEW n \in Nat \ {0}, NEW r \in 0..9,
           NEW out \in OutOfRange
    PROVE  /\ NextBackoff(b, n, r, out) \in -(Word \div 2)..(Word \div 2)-1
           /\ /\ n <= MaxExponent + 1 \/ b.max <= b.base * PowerOfTwo[MaxExponent]
              /\ Curve(b, n) * (10 + b.jitter) < 10 * (Word \div 2)
              => /\ 10 * NextBackoff(b, n, r, out) <= Curve(b, n) * (10 + b.jitter)
                 /\ 10 * (NextBackoff(b, n, r, out) + 1) > Curve(b, n) * (10 - b.jitter)
<1> DEFINE e == Smaller(Larger(n, 1) - 1, MaxExponent)
           d == Smaller(b.base * PowerOfTwo[e], b.max)
<1>1. e \in Nat /\ e = Smaller(n - 1, MaxExponent) /\ n - 1 \in Nat /\ MaxExponent \in Nat
  BY DelayAssumption DEF Larger, Smaller
<1> HIDE DEF e
<1>2. d \in Nat /\ d <= b.max
  BY <1>1, Powers DEF Rising, Smaller
<1>3. ASSUME n <= MaxExponent + 1 \/ b.max <= b.base * PowerOfTwo[MaxExponent]
      PROVE  d = Curve(b, n)
  <2>1. CASE n - 1 <= MaxExponent
    BY <1>1, <2>1, CurveIsPower DEF Smaller
  <2>2. CASE ~(n - 1 <= MaxExponent)
    <3>1. b.max <= b.base * PowerOfTwo[MaxExponent]
      BY <1>1, <1>3, <2>2
    <3>2. e = MaxExponent /\ MaxExponent <= n - 1
      BY <1>1, <2>2 DEF Smaller
    <3>3. PowerOfTwo[MaxExponent] <= PowerOfTwo[n-1]
      BY <1>1, <3>2, PowersGrow
    <3>4. PowerOfTwo[MaxExponent] \in Nat /\ PowerOfTwo[n-1] \in Nat
      BY <1>1, Powers
    <3>5. \A u, v \in Nat : u <= v => b.base * u <= b.base * v
      BY DEF Rising
    <3>6. b.base * PowerOfTwo[MaxExponent] <= b.base * PowerOfTwo[n-1]
      BY <3>3, <3>4, <3>5
    <3>7. /\ b.base * PowerOfTwo[MaxExponent] \in Nat /\ b.base * PowerOfTwo[n-1] \in Nat
          /\ b.max \in Nat
      BY <3>4 DEF Rising
    <3>8. b.max <= b.base * PowerOfTwo[n-1]
      BY <3>1, <3>6, <3>7
    <3>9. Curve(b, n) = Smaller(b.base * PowerOfTwo[n-1], b.max)
      BY CurveIsPower
    <3>10. d = b.max /\ Smaller(b.base * PowerOfTwo[n-1], b.max) = b.max
      BY <3>1, <3>2, <3>7, <3>8 DEF Smaller
    <3> QED BY <3>9, <3>10
  <2> QED BY <2>1, <2>2
<1> DEFINE x == AfterJitter(d, b.jitter, r)
<1>4. NextBackoff(b, n, r, out) = Converted(x, out)
  BY DEF NextBackoff, AfterJitter, e
<1> HIDE DEF d
<1>5. x \in Nat /\ 10 * x <= d * (10 + b.jitter) /\ 10 * (x + 1) > d * (10 - b.jitter)
  <2>1. x \in 0..2*d /\ 10 * x <= d * (10 + b.jitter) /\ 10 * (x + 1) > d * (10 - b.jitter)
    BY <1>2, Jittered
  <2> HIDE DEF x
  <2> QED BY <1>2, <2>1
<1> HIDE DEF x
<1>6. NextBackoff(b, n, r, out) \in -(Word \div 2)..(Word \div 2)-1
  BY <1>4, <1>5, ConvertedFits
<1>7. ASSUME d * (10 + b.jitter) < 10 * (Word \div 2)
      PROVE  NextBackoff(b, n, r, out) = x
  <2>1. Word \div 2 \in Nat /\ d * (10 + b.jitter) \in Nat
    BY <1>2, DelayAssumption
  <2>2. x < Word \div 2
    BY <1>5, <1>7, <2>1
  <2> QED BY <1>4, <2>2 DEF Converted
<1> QED BY <1>3, <1>5, <1>6, <1>7

-------------------------------------------------------------------------------
(* Types, and the wait between the attempts. *)

\* Types, and with them: the endpoint is usable once a file is loaded, an attempt is one
\* of the budget, a redirect is followed only below the limit, and a wait is what
\* resolveDelay makes of some random number.
ShapeInv ==
    /\ TypeOK
    /\ phase \in {"starting", "loaded"} => file \in Files
    /\ phase \notin {"starting", "exited"} => Usable(ep)
    /\ phase \notin {"starting", "exited", "loaded"} => attempt > 0
    /\ phase \in {"starting", "exited", "loaded", "ready"} => hops = 0
    /\ phase = "sending" => hops < MaxHops
    /\ phase # "decided" => delay = 0 /\ fate = "none"
    /\ fate = "rescheduled" =>
          \E r \in 0..9, out \in OutOfRange :
              delay = ResolveDelay(ep, attempt, result.retryAfter, r, out)

LEMMA PlainResults ==
    ASSUME NEW outcome \in {"none", "success", "retryable", "permanent"},
           NEW error \in {"none"} \cup TransportErrors
    PROVE  Result(outcome, 0, error, 0) \in Results
<1>1. 0 \in -(Word \div 2)..(Word \div 2)-1
  BY DelayAssumption
<1> QED BY <1>1 DEF Result, Results

LEMMA ShapeInit == Init => ShapeInv
<1> SUFFICES ASSUME Init PROVE ShapeInv
  OBVIOUS
<1>1. DOMAIN ep = DOMAIN Blank /\ ep.success = {} /\ ep.retry = {} /\ ep.max = 0
  BY DEF Init, Blank
<1>2. result \in Results
  BY PlainResults DEF Init, NoResult
<1>3. cause \in Causes
  BY DEF Init, Failed, Causes
<1>4. DOMAIN request.header = {}
  BY DEF Init, NoRequest
<1>5. 0 \in 0..MaxHops /\ 0 \in -(Word \div 2)..(Word \div 2)-1
  BY AttemptAssumption, DelayAssumption
<1>6. TypeOK
  BY <1>1, <1>2, <1>3, <1>4, <1>5 DEF Init, TypeOK
<1> QED BY <1>6 DEF Init, ShapeInv

LEMMA StartShape ==
    ASSUME ShapeInv, NEW i \in DOMAIN file.endpoints, Start(i)
    PROVE  ShapeInv'
<1>1. /\ phase = "starting" /\ phase' = "loaded" /\ ep' = Resolved(file)[i] /\ Loads(file)
      /\ UNCHANGED <<file, budget, attempt, hops, result, fate, delay, request, cause, asked>>
  BY DEF Start, attemptVars
<1>2. Usable(ep') /\ file \in Files /\ delay = 0 /\ hops = 0
  BY <1>1, ResolvedIsSound DEF ShapeInv
<1>3. TypeOK'
  BY <1>1, <1>2 DEF ShapeInv, TypeOK, Usable, Decoded
<1>4. Usable(ep)'
  BY <1>2 DEF Usable, Decoded, Rising
<1>5. fate # "rescheduled"
  BY <1>1 DEF ShapeInv
<1> QED BY <1>1, <1>2, <1>3, <1>4, <1>5 DEF ShapeInv

LEMMA TakeUpShape ==
    ASSUME ShapeInv, NEW callerBudget \in CallerBudgets, NEW n, TakeUp(callerBudget, n)
    PROVE  ShapeInv'
<1>1. /\ phase = "loaded" /\ phase' = "ready" /\ budget' = Positive(callerBudget, ep.maxAttempts)
      /\ n \in 1..budget' /\ attempt' = n
      /\ UNCHANGED <<ep, hops, result, fate, delay, request, cause, asked>>
  BY DEF TakeUp, attemptVars
<1>2. Usable(ep) /\ TypeOK
  BY <1>1 DEF ShapeInv
<1>3. budget' \in Nat
  <2>1. callerBudget \in Nat
    BY AttemptAssumption
  <2>2. ep.maxAttempts \in Nat
    BY <1>2 DEF Usable, Decoded, Quantities
  <2> QED BY <1>1, <2>1, <2>2 DEF Positive
<1>4. attempt' \in 0..budget' /\ attempt' > 0
  BY <1>1, <1>3
<1>5. TypeOK'
  BY <1>1, <1>2, <1>3, <1>4 DEF TypeOK
<1>6. Usable(ep)'
  BY <1>1, <1>2 DEF Usable, Decoded, Rising
<1> QED BY <1>1, <1>4, <1>5, <1>6 DEF ShapeInv

\* Steps that leave endpoint, budget and attempt alone, before the decision.
LEMMA DeliverShape ==
    ASSUME ShapeInv, TypeOK', UNCHANGED <<ep, budget, attempt, file, delay, fate>>,
           phase \in {"ready", "sending"}, phase' \in {"sending", "returned"},
           phase' = "sending" => hops' < MaxHops
    PROVE  ShapeInv'
<1>1. Usable(ep)' <=> Usable(ep)
  BY DEF Usable, Decoded, Rising
<1> QED BY <1>1 DEF ShapeInv

LEMMA RefuseShape ==
    ASSUME ShapeInv, NEW why \in Unsent, Refuse(why)
    PROVE  ShapeInv'
<1>1. /\ phase = "ready" /\ phase' = "returned"
      /\ result' = Result("permanent", 0, "none", 0) /\ request' = NoRequest
      /\ cause' = Failed(why)
      /\ UNCHANGED <<ep, budget, attempt, file, hops, fate, delay, asked>>
  BY DEF Refuse, Return, settings
<1>2. result' \in Results
  BY <1>1, PlainResults
<1>3. cause' \in Causes
  BY <1>1 DEF Failed, Causes
<1>4. DOMAIN request'.header = {}
  BY <1>1 DEF NoRequest
<1>5. TypeOK'
  BY <1>1, <1>2, <1>3, <1>4 DEF ShapeInv, TypeOK
<1> QED BY <1>1, <1>5, DeliverShape

LEMMA SendShape ==
    ASSUME ShapeInv, NEW caller, NEW key, NEW body, SendRequest(caller, key, body)
    PROVE  ShapeInv'
<1>1. /\ phase = "ready" /\ phase' = "sending"
      /\ request' = [header |-> RenderHeaders(ep, caller, key, body), key |-> key]
      /\ UNCHANGED <<ep, budget, attempt, file, hops, result, fate, delay, cause, asked>>
  BY DEF SendRequest, settings
<1>2. \A h \in DOMAIN request'.header :
         request'.header[h] \in {"caller", "endpoint", "content_type", "service"}
  <2> SUFFICES ASSUME NEW h \in DOMAIN RenderHeaders(ep, caller, key, body)
               PROVE  RenderHeaders(ep, caller, key, body)[h]
                         \in {"caller", "endpoint", "content_type", "service"}
    BY <1>1
  <2>1. PICK i \in 1..4 : RenderHeaders(ep, caller, key, body)[h]
                             = Layers(ep, caller, key, body)[i].by
    BY LastWriter
  <2>2. i \in {1, 2, 3, 4}
    OBVIOUS
  <2> QED BY <2>1, <2>2, LayerContents
<1>3. TypeOK'
  BY <1>1, <1>2 DEF ShapeInv, TypeOK
<1>4. hops' = 0 /\ 0 < MaxHops
  BY <1>1, AttemptAssumption DEF ShapeInv
<1> QED BY <1>1, <1>3, <1>4, DeliverShape

LEMMA FailShape ==
    ASSUME ShapeInv, NEW caller, NEW key, NEW body, FailToSend(caller, key, body)
    PROVE  ShapeInv'
<1>1. /\ phase = "ready" /\ phase' = "returned"
      /\ result' = Result("retryable", 0, "malformed", 0) /\ request' = NoRequest
      /\ cause' = Failed("malformed")
      /\ UNCHANGED <<ep, budget, attempt, file, hops, fate, delay, asked>>
  BY DEF FailToSend, Return, settings
<1>2. "malformed" \in TransportErrors
  BY DEF TransportErrors
<1>3. result' \in Results /\ cause' \in Causes
  BY <1>1, <1>2, PlainResults DEF Failed, Causes
<1>4. DOMAIN request'.header = {}
  BY <1>1 DEF NoRequest
<1>5. TypeOK'
  BY <1>1, <1>3, <1>4 DEF ShapeInv, TypeOK
<1> QED BY <1>1, <1>5, DeliverShape

LEMMA TransportShape ==
    ASSUME ShapeInv, NEW error \in NetworkErrors, TransportFails(error)
    PROVE  ShapeInv'
<1>1. /\ phase = "sending" /\ phase' = "returned"
      /\ result' = Result("retryable", 0, error, 0) /\ request' = NoRequest
      /\ cause' = FirstCause(Failed(error))
      /\ UNCHANGED <<ep, budget, attempt, file, hops, fate, delay, asked>>
  BY DEF TransportFails, Return, settings
<1> USE DEF TransportErrors
<1>2. result' \in Results
  BY <1>1, PlainResults
<1>3. cause' \in Causes
  BY <1>1 DEF Failed, FirstCause, ShapeInv, TypeOK, Causes
<1>4. DOMAIN request'.header = {}
  BY <1>1 DEF NoRequest
<1>5. TypeOK'
  BY <1>1, <1>2, <1>3, <1>4 DEF ShapeInv, TypeOK
<1> QED BY <1>1, <1>5, DeliverShape

LEMMA RedirectShape ==
    ASSUME ShapeInv, NEW code \in Codes, FollowRedirect(code)
    PROVE  ShapeInv'
<1>1. /\ phase = "sending" /\ cause' = FirstCause(Answered(code)) /\ hops' = hops + 1
      /\ IF hops + 1 < MaxHops
         THEN UNCHANGED <<phase, result, request>>
         ELSE /\ phase' = "returned" /\ request' = NoRequest
              /\ result' = Result("retryable", 0, "too_many_redirects", 0)
      /\ UNCHANGED <<ep, budget, attempt, file, fate, delay, asked>>
  BY DEF FollowRedirect, Return, settings
<1>2. hops' \in 0..MaxHops
  BY <1>1, AttemptAssumption DEF ShapeInv, TypeOK
<1>3. cause' \in Causes
  BY <1>1 DEF Answered, FirstCause, ShapeInv, TypeOK, Causes
<1>4. result' \in Results
  <2>1. Result("retryable", 0, "too_many_redirects", 0) \in Results
    BY PlainResults DEF TransportErrors
  <2> QED BY <1>1, <2>1 DEF ShapeInv, TypeOK
<1>5. \A h \in DOMAIN request'.header :
         request'.header[h] \in {"caller", "endpoint", "content_type", "service"}
  <2>1. DOMAIN NoRequest.header = {}
    BY DEF NoRequest
  <2> QED BY <1>1, <2>1 DEF ShapeInv, TypeOK
<1>6. TypeOK'
  BY <1>1, <1>2, <1>3, <1>4, <1>5 DEF ShapeInv, TypeOK
<1> QED BY <1>1, <1>6, DeliverShape

LEMMA MisguidedShape ==
    ASSUME ShapeInv, NEW code \in Codes, MisguidedRedirect(code)
    PROVE  ShapeInv'
<1>1. /\ phase = "sending" /\ phase' = "returned"
      /\ result' = Result("retryable", 0, "bad_location", 0) /\ request' = NoRequest
      /\ cause' = FirstCause(Answered(code))
      /\ UNCHANGED <<ep, budget, attempt, file, hops, fate, delay, asked>>
  BY DEF MisguidedRedirect, Return, settings
<1>2. result' \in Results
  BY <1>1, PlainResults DEF TransportErrors
<1>3. cause' \in Causes
  BY <1>1 DEF Answered, FirstCause, ShapeInv, TypeOK, Causes
<1>4. DOMAIN request'.header = {}
  BY <1>1 DEF NoRequest
<1>5. TypeOK'
  BY <1>1, <1>2, <1>3, <1>4 DEF ShapeInv, TypeOK
<1> QED BY <1>1, <1>5, DeliverShape

\* A parsed Retry-After is a duration.
LEMMA ParsedFits ==
    ASSUME NEW secs \in Int
    PROVE  ParseRetryAfter(secs) \in -(Word \div 2)..(Word \div 2)-1
<1>1. 0 \in -(Word \div 2)..(Word \div 2)-1 /\ 2 * (Word \div 2) = Word /\ Word \in Nat \ {0}
  BY DelayAssumption
<1>2. secs * Second \in Int
  BY SecondAssumption
<1>3. (secs * Second) % Word \in 0..Word-1
  BY <1>1, <1>2
<1> QED BY <1>1, <1>3 DEF ParseRetryAfter, Wrapped

LEMMA RespondShape ==
    ASSUME ShapeInv, NEW code \in Codes, NEW retryAfter \in RetryAfters,
           Respond(code, retryAfter)
    PROVE  ShapeInv'
<1>1. /\ phase = "sending" /\ phase' = "returned"
      /\ asked' = IF ClassifyStatus(code) = "retryable" THEN retryAfter ELSE 0
      /\ result' = Result(ClassifyStatus(code), code, "none", ParseRetryAfter(asked'))
      /\ request' = NoRequest
      /\ cause' = FirstCause(Answered(code))
      /\ UNCHANGED <<ep, budget, attempt, file, hops, fate, delay>>
  BY DEF Respond, Return, settings
<1>2. asked' \in RetryAfters \cup {0} /\ asked' \in Int
  BY <1>1, AttemptAssumption, DelayAssumption
<1>3. result' \in Results
  BY <1>1, <1>2, ParsedFits, ThreeOutcomes DEF Result, Results
<1>4. cause' \in Causes
  BY <1>1 DEF Answered, FirstCause, ShapeInv, TypeOK, Causes
<1>5. DOMAIN request'.header = {}
  BY <1>1 DEF NoRequest
<1>6. TypeOK'
  BY <1>1, <1>2, <1>3, <1>4, <1>5 DEF ShapeInv, TypeOK
<1> QED BY <1>1, <1>6, DeliverShape

LEMMA DecideShape ==
    ASSUME ShapeInv, NEW r \in 0..9, NEW out \in OutOfRange, Decide(r, out)
    PROVE  ShapeInv'
<1>1. /\ phase = "returned" /\ phase' = "decided"
      /\ fate' \in {"succeeded", "rescheduled", "dead"}
      /\ delay' = IF fate' = "rescheduled"
                  THEN ResolveDelay(ep, attempt, result.retryAfter, r, out)
                  ELSE 0
      /\ UNCHANGED <<ep, budget, attempt, file, hops, result, request, cause, asked>>
  BY DEF Decide, settings
<1>2. TypeOK /\ Usable(ep) /\ attempt \in Nat \ {0}
  BY <1>1 DEF ShapeInv, TypeOK
<1>3. ep.max \in Nat /\ Rising(ep) /\ ep.jitter \in 0..10
  BY <1>2 DEF Usable, Rising
<1>4. NextBackoff(ep, attempt, r, out) \in -(Word \div 2)..(Word \div 2)-1
  BY <1>2, <1>3, BackoffFacts
<1>5. /\ result.retryAfter \in -(Word \div 2)..(Word \div 2)-1
      /\ Word \div 2 \in Nat /\ Word \div 2 > 0
  BY <1>2, DelayAssumption DEF TypeOK, Results
<1>6. delay' \in -(Word \div 2)..(Word \div 2)-1
  BY <1>1, <1>3, <1>4, <1>5 DEF ResolveDelay, Smaller
<1>7. TypeOK'
  BY <1>1, <1>2, <1>6 DEF TypeOK
<1>8. Usable(ep)'
  BY <1>1, <1>2 DEF Usable, Decoded, Rising
<1>9. fate' = "rescheduled" =>
         \E s \in 0..9, o \in OutOfRange :
            delay' = (ResolveDelay(ep, attempt, result.retryAfter, s, o))'
  BY <1>1 DEF ResolveDelay, NextBackoff
<1> QED BY <1>1, <1>2, <1>7, <1>8, <1>9 DEF ShapeInv

LEMMA ShapeStep == ShapeInv /\ [Next]_vars => ShapeInv'
<1> SUFFICES ASSUME ShapeInv, [Next]_vars PROVE ShapeInv'
  OBVIOUS
<1>1. ASSUME NEW i \in DOMAIN file.endpoints, Start(i) PROVE ShapeInv'
  BY <1>1, StartShape
<1>2. CASE RefuseToStart
  BY <1>2 DEF RefuseToStart, ShapeInv, TypeOK, settings, attemptVars
<1>3. ASSUME NEW callerBudget \in CallerBudgets, NEW n, TakeUp(callerBudget, n) PROVE ShapeInv'
  BY <1>3, TakeUpShape
<1>4. ASSUME NEW why \in Unsent, Refuse(why) PROVE ShapeInv'
  BY <1>4, RefuseShape
<1>5. ASSUME NEW caller, NEW key, NEW body, SendRequest(caller, key, body) PROVE ShapeInv'
  BY <1>5, SendShape
<1>6. ASSUME NEW error \in NetworkErrors, TransportFails(error) PROVE ShapeInv'
  BY <1>6, TransportShape
<1>7. ASSUME NEW code \in Codes, FollowRedirect(code) PROVE ShapeInv'
  BY <1>7, RedirectShape
<1>8. ASSUME NEW code \in Codes, NEW retryAfter \in RetryAfters, Respond(code, retryAfter)
      PROVE  ShapeInv'
  BY <1>8, RespondShape
<1>9. ASSUME NEW r \in 0..9, NEW out \in OutOfRange, Decide(r, out) PROVE ShapeInv'
  BY <1>9, DecideShape
<1>10. ASSUME NEW caller, NEW key, NEW body, FailToSend(caller, key, body) PROVE ShapeInv'
  BY <1>10, FailShape
<1>11. ASSUME NEW code \in Codes, MisguidedRedirect(code) PROVE ShapeInv'
  BY <1>11, MisguidedShape
<1>12. CASE UNCHANGED vars
  BY <1>12 DEF vars, settings, ShapeInv, TypeOK, Usable, Decoded, Rising, ResolveDelay,
     NextBackoff
<1> QED
  BY <1>1, <1>2, <1>3, <1>4, <1>5, <1>6, <1>7, <1>8, <1>9, <1>10, <1>11, <1>12 DEF Next

LEMMA ShapeInvariant == Spec => []ShapeInv
BY ShapeInit, ShapeStep, PTL DEF Spec

\* Every variable keeps its type, for every configuration that can be decoded.
THEOREM TypeCorrect == Spec => []TypeOK
<1>1. ShapeInv => TypeOK
  BY DEF ShapeInv
<1> QED BY ShapeInvariant, <1>1, PTL

\* Without a Retry-After the wait is on the curve of README 4.3, give or take the jitter
\* (nextBackoff, resolveDelay), however late the attempt, as long as a duration holds what
\* the jitter makes of it.
THEOREM DelayIsOnCurve == Spec => []OnCurve
<1>1. AttemptInv /\ ShapeInv => OnCurve
  <2> SUFFICES ASSUME AttemptInv, ShapeInv, fate = "rescheduled", asked = 0,
                      \/ attempt <= MaxExponent + 1
                      \/ ep.max <= ep.base * PowerOfTwo[MaxExponent],
                      Curve(ep, attempt) * (10 + ep.jitter) < 10 * (Word \div 2)
               PROVE  /\ 10 * delay <= Curve(ep, attempt) * (10 + ep.jitter)
                      /\ 10 * (delay + 1) > Curve(ep, attempt) * (10 - ep.jitter)
    BY DEF OnCurve
  <2>1. phase = "decided" /\ FateFits
    BY DEF AttemptInv
  <2>2. Usable(ep) /\ attempt \in Nat \ {0}
    BY <2>1 DEF ShapeInv, TypeOK
  <2>3. PICK r \in 0..9, out \in OutOfRange :
           delay = ResolveDelay(ep, attempt, result.retryAfter, r, out)
    BY DEF ShapeInv
  <2>4. result.retryAfter = 0
    <3>1. ~IsRefused
      BY <2>1 DEF IsRefused, FateFits, Result
    <3>2. IsBroken \/ IsAnswered
      BY <2>1, <3>1 DEF AttemptInv, Finished
    <3> QED BY <3>2 DEF IsBroken, IsAnswered, ParseRetryAfter
  <2>5. delay = NextBackoff(ep, attempt, r, out)
    BY <2>3, <2>4 DEF ResolveDelay
  <2>6. Rising(ep) /\ ep.jitter \in 0..10
    BY <2>2 DEF Usable
  <2> QED BY <2>2, <2>5, <2>6, BackoffFacts
<1> QED BY AttemptInvariant, ShapeInvariant, <1>1, PTL

================================================================================
