----------------------------- MODULE DeliveryAttempt -----------------------------
(***************************************************************************)
(* One attempt, from Executor.Deliver to the fate of the notification, at  *)
(* an endpoint of whatever configuration the process has started with: the *)
(* request and its headers, what net/http makes of the answers, the        *)
(* classification of the result, the verdict for the breaker, the decision *)
(* of deliverOne and the wait for the next attempt.                        *)
(*                                                                         *)
(* A status code is a number; a transport failure is named by its cause.   *)
(***************************************************************************)
EXTENDS RetryDelay, RequestHeaders

CONSTANTS
    Files,              \* the configuration files there may be
    CallerBudgets,      \* max_attempts of the submissions; 0 without one
    CallerHeaders,      \* the headers callers send along, as RequestHeaders has them
    Codes,              \* status codes a vendor may answer with
    RetryAfters,        \* Retry-After of the vendors, in seconds; 0 without one
    MaxHops             \* net/http gives up after this many requests: 10

\* What yaml.Unmarshal leaves in the settings of a level: numbers, good or not.
Decoded(level) ==
    /\ DOMAIN level = DOMAIN Blank
    /\ \A f \in Quantities : level[f] \in Int
    /\ level.success \cup level.retry \subseteq Int

ASSUME AttemptAssumption ==
    /\ \A file \in Files :
          /\ Decoded(file.defaults)
          /\ \A i \in DOMAIN file.endpoints : Decoded(file.endpoints[i].settings)
    /\ CallerBudgets \subseteq Nat
    /\ \A caller \in CallerHeaders :
          DOMAIN caller \subseteq HeaderNames /\ \A h \in DOMAIN caller : caller[h] \in BOOLEAN
    /\ Codes \subseteq 200..599
    /\ RetryAfters \subseteq 0..(Word \div 2)-1
    /\ MaxHops \in Nat \ {0}

VARIABLES
    ep,         \* the endpoint, once a file is loaded
    budget,     \* max_attempts of the notification
    attempt,    \* attemptNo
    phase,      \* "starting", "exited", "loaded", "ready", "sending", "returned", "decided"
    hops,       \* redirects followed
    result,     \* what Deliver returns
    fate,       \* what deliverOne makes of it
    delay,      \* the wait before the next attempt
    file,       \* history: the configuration file, until a notification is taken up
    request,    \* history: the headers under way and the idempotency key
    cause,      \* history: the vendor's first answer, or what there was instead
    asked       \* history: the Retry-After of the answer that was parsed

settings == <<ep, budget, attempt, file>>
vars == <<settings, phase, hops, result, fate, delay, request, cause, asked>>

\* What client.Do may fail of: on the network, because of a redirect, or because net/http
\* does not send the request as it is.
NetworkErrors == {"unreachable", "timeout", "reset", "shutdown"}
TransportErrors == NetworkErrors \cup {"too_many_redirects", "bad_location", "malformed"}
Unsent == {"not_configured", "does_not_render"}

\* A result: its outcome, the status code or 0, the error of the transport, the parsed
\* Retry-After.
Results == [outcome : {"none", "success", "retryable", "permanent"},
            code : {0} \cup Codes, error : {"none"} \cup TransportErrors,
            retryAfter : -(Word \div 2)..(Word \div 2)-1]
Result(outcome, code, error, retryAfter) ==
    [outcome |-> outcome, code |-> code, error |-> error, retryAfter |-> retryAfter]
NoResult == Result("none", 0, "none", 0)

NoRequest == [header |-> <<>>, key |-> "none"]
NoFile == [lease |-> 0, defaults |-> Blank, endpoints |-> <<>>]

Causes == [code : {0} \cup Codes,
           why : {"none", "answered"} \cup TransportErrors \cup Unsent]
Answered(code) == [code |-> code, why |-> "answered"]
Failed(why) == [code |-> 0, why |-> why]

Init ==
    /\ file \in Files
    /\ ep = Blank
    /\ budget = 0
    /\ attempt = 0
    /\ phase = "starting"
    /\ hops = 0
    /\ result = NoResult
    /\ fate = "none"
    /\ delay = 0
    /\ request = NoRequest
    /\ cause = Failed("none")
    /\ asked = 0

-------------------------------------------------------------------------------
(* Up to the attempt. *)

attemptVars == <<hops, result, fate, delay, request, cause, asked>>

\* main loads the file; a notification is submitted for one of its endpoints.
Start(i) ==
    /\ phase = "starting"
    /\ Loads(file)
    /\ ep' = Resolved(file)[i]
    /\ phase' = "loaded"
    /\ UNCHANGED <<file, budget, attempt, attemptVars>>

RefuseToStart ==
    /\ phase = "starting"
    /\ ~Loads(file)
    /\ phase' = "exited"
    /\ UNCHANGED <<settings, attemptVars>>

\* handleSubmit fixes the budget; the attempt may be any of it.
TakeUp(callerBudget, n) ==
    /\ phase = "loaded"
    /\ budget' = Positive(callerBudget, ep.maxAttempts)
    /\ n \in 1..budget'
    /\ attempt' = n
    /\ phase' = "ready"
    /\ file' = NoFile
    /\ UNCHANGED <<ep, attemptVars>>

-------------------------------------------------------------------------------
(* Deliver. *)

\* Mutant: 500 is left out.
ClassifyStatusAbove500(code) ==
    CASE code \in ep.success \/ (ep.success = {} /\ code \in 200..299) -> "success"
      [] code \in ep.retry \/ code > 500 -> "retryable"
      [] OTHER -> "permanent"

\* classifyStatus. The configured success codes replace 2xx; they come first.
ClassifyStatus(code) ==
    IF IF ep.success # {} THEN code \in ep.success ELSE code \in 200..299
    THEN "success"
    ELSE IF code \in ep.retry \/ code >= 500 THEN "retryable" ELSE "permanent"

Return(r) ==
    /\ phase' = "returned"
    /\ result' = r
    /\ request' = NoRequest

\* The endpoint is gone from the configuration, the template does not render, or the
\* request cannot be built.
Refuse(why) ==
    /\ phase = "ready"
    /\ Return(Result("permanent", 0, "none", 0))
    /\ cause' = Failed(why)
    /\ UNCHANGED <<settings, hops, fate, delay, asked>>

SendRequest(caller, key, body) ==
    LET header == RenderHeaders(ep, caller, key, body)
    IN  /\ phase = "ready"
        /\ Sendable(header, caller, key)
        /\ phase' = "sending"
        /\ request' = [header |-> header, key |-> key]
        /\ UNCHANGED <<settings, hops, result, fate, delay, cause, asked>>

\* validateSubmit looks at lengths and line breaks only, and renderHeaders at no content: a
\* header or a key that cannot be sent fails inside client.Do, like the network.
FailToSend(caller, key, body) ==
    /\ phase = "ready"
    /\ ~Sendable(RenderHeaders(ep, caller, key, body), caller, key)
    /\ Return(Result("retryable", 0, "malformed", 0))
    /\ cause' = Failed("malformed")
    /\ UNCHANGED <<settings, hops, fate, delay, asked>>

FirstCause(c) == IF cause.why = "none" THEN c ELSE cause

\* client.Do returns an error: classifyTransportError finds every one retryable.
TransportFails(error) ==
    /\ phase = "sending"
    /\ Return(Result("retryable", 0, error, 0))
    /\ cause' = FirstCause(Failed(error))
    /\ UNCHANGED <<settings, hops, fate, delay, asked>>

Redirects == {301, 302, 303, 307, 308}

\* Mutant: one redirect too many.
FollowRedirectOnceMore(code) ==
    /\ phase = "sending"
    /\ code \in Redirects
    /\ cause' = FirstCause(Answered(code))
    /\ hops' = hops + 1
    /\ IF hops + 1 <= MaxHops
       THEN UNCHANGED <<phase, result, request>>
       ELSE Return(Result("retryable", 0, "too_many_redirects", 0))
    /\ UNCHANGED <<settings, fate, delay, asked>>

\* The default policy of http.Client, which NewExecutor leaves in place: an answer with
\* a Location is followed, to any address.
FollowRedirect(code) ==
    /\ phase = "sending"
    /\ code \in Redirects
    /\ cause' = FirstCause(Answered(code))
    /\ hops' = hops + 1
    /\ IF hops + 1 < MaxHops
       THEN UNCHANGED <<phase, result, request>>
       ELSE Return(Result("retryable", 0, "too_many_redirects", 0))
    /\ UNCHANGED <<settings, fate, delay, asked>>

\* A Location that is no address ends client.Do with an error.
MisguidedRedirect(code) ==
    /\ phase = "sending"
    /\ code \in Redirects
    /\ cause' = FirstCause(Answered(code))
    /\ Return(Result("retryable", 0, "bad_location", 0))
    /\ UNCHANGED <<settings, hops, fate, delay, asked>>

\* The header is read only when the answer is to be retried.
Respond(code, retryAfter) ==
    /\ phase = "sending"
    /\ asked' = IF ClassifyStatus(code) = "retryable" THEN retryAfter ELSE 0
    /\ Return(Result(ClassifyStatus(code), code, "none", ParseRetryAfter(asked')))
    /\ cause' = FirstCause(Answered(code))
    /\ UNCHANGED <<settings, hops, fate, delay>>

-------------------------------------------------------------------------------
(* What the dispatcher makes of a result. *)

\* Mutant: without the test for a request that was never sent.
VerdictOnCodeOnly(r) ==
    CASE r.error = "shutdown" -> "ignore"
      [] r.error # "shutdown" /\ r.code = 0 -> "unhealthy"
      [] r.code # 0 /\ r.outcome = "retryable" -> "unhealthy"
      [] OTHER -> "healthy"

\* breakerVerdict: a shutdown and a request never sent say nothing of the vendor.
BreakerVerdict(r) ==
    CASE r.error = "shutdown" \/ (r.code = 0 /\ r.error = "none") -> "ignore"
      [] \/ r.error \notin {"none", "shutdown"}
         \/ r.code # 0 /\ r.outcome = "retryable" -> "unhealthy"
      [] OTHER -> "healthy"

\* deliverOne's switch and scheduleRetry.
Decide(r, out) ==
    /\ phase = "returned"
    /\ phase' = "decided"
    /\ fate' = CASE result.outcome = "success" -> "succeeded"
                 [] result.outcome = "retryable" /\ attempt < budget -> "rescheduled"
                 [] OTHER -> "dead"
    /\ delay' = IF fate' = "rescheduled"
                THEN ResolveDelay(ep, attempt, result.retryAfter, r, out)
                ELSE 0
    /\ UNCHANGED <<settings, hops, result, request, cause, asked>>

Next ==
    \/ \E i \in DOMAIN file.endpoints : Start(i)
    \/ RefuseToStart
    \/ \E callerBudget \in CallerBudgets :
          \E n \in 1..Positive(callerBudget, ep.maxAttempts) : TakeUp(callerBudget, n)
    \/ \E why \in Unsent : Refuse(why)
    \/ \E caller \in CallerHeaders, key \in Keys, body \in BOOLEAN :
          SendRequest(caller, key, body) \/ FailToSend(caller, key, body)
    \/ \E error \in NetworkErrors : TransportFails(error)
    \/ \E code \in Codes : FollowRedirect(code) \/ MisguidedRedirect(code)
    \/ \E code \in Codes, retryAfter \in RetryAfters : Respond(code, retryAfter)
    \/ \E r \in 0..9, out \in OutOfRange : Decide(r, out)

Spec == Init /\ [][Next]_vars

-------------------------------------------------------------------------------
(* Properties. *)

\* Every variable has its type.
TypeOK ==
    /\ DOMAIN ep = DOMAIN Blank
    /\ ep.success \cup ep.retry \subseteq Int
    /\ budget \in Nat
    /\ attempt \in 0..budget
    /\ phase \in {"starting", "exited", "loaded", "ready", "sending", "returned", "decided"}
    /\ \A h \in DOMAIN request.header :
          request.header[h] \in {"caller", "endpoint", "content_type", "service"}
    /\ hops \in 0..MaxHops
    /\ result \in Results
    /\ fate \in {"none", "succeeded", "rescheduled", "dead"}
    /\ delay \in -(Word \div 2)..(Word \div 2)-1
    /\ cause \in Causes
    /\ asked \in RetryAfters \cup {0}

\* The assumptions the other models and the code make of their parameters: a process that
\* starts has endpoints with at least one attempt and one place, a curve that does not
\* fall, a breaker that needs a failure to trip and lets a probe through, and requests
\* that end before their lease; from whichever levels their settings came together.
LoadedIsSound ==
    phase = "loaded" =>
        /\ ep.maxAttempts > 0 /\ ep.concurrency > 0
        /\ 0 < ep.base /\ ep.base <= ep.max /\ ep.jitter \in 1..10
        /\ ep.failureThreshold > 0 /\ ep.halfOpenProbes > 0 /\ ep.cooldown > 0
        /\ 0 < ep.timeout /\ ep.timeout < LeaseDuration(file)

\* The levels at which the settings of an endpoint may be written, the nearest first.
Levels(i) == <<file.endpoints[i].settings, file.defaults, BuiltinDefaults>>

\* The value of a field at the nearest level that satisfies Written, unset if there is none.
NearestLevel(levels, Written(_)) ==
    LET written == {l \in DOMAIN levels : Written(levels[l])}
    IN  IF written = {} THEN Blank ELSE levels[Min(written)]

\* What is written nearest to the endpoint holds: its own settings before the defaults
\* section, that before the built-in values; headers add up. The switch of the breaker
\* is the exception: the one that counts is written beside the nearest threshold, so
\* `enabled: false` without a threshold does not switch off, and a threshold without
\* `enabled: true` does.
NearestSettingHolds ==
    phase = "loaded" => \E i \in DOMAIN file.endpoints :
        /\ \A f \in Quantities :
              ep[f] = NearestLevel(Levels(i), LAMBDA level : level[f] > 0)[f]
        /\ \A f \in Lists :
              ep[f] = NearestLevel(Levels(i), LAMBDA level : level[f] # {})[f]
        /\ ep.headers = file.endpoints[i].settings.headers \cup file.defaults.headers
        /\ ep.enabled =
              NearestLevel(Levels(i), LAMBDA level : level.failureThreshold > 0).enabled

\* The comments on HeaderNotificationID and renderHeaders: a vendor can recognise the
\* duplicates of a notification, for no caller and no configuration replaces what the
\* service says of it; and no caller replaces what the endpoint's owner configured or
\* sets what decides route or identity. X-Idempotency-Key is only the service's when the
\* notification has a key: without one a caller's header of that name passes.
HeadersAreTrusted ==
    phase = "sending" =>
        /\ \A h \in Identity : request.header[h] = "service"
        /\ request.key # "none" => request.header[IdempotencyKey] = "service"
        /\ \A h \in DOMAIN request.header \cap (ep.headers \cup Denied) :
              request.header[h] # "caller"

\* The table of README 4.2 for an endpoint that leaves both lists alone. It has no row for a
\* request that net/http does not send, nor for a Location that is no address.
TableOutcome(c) ==
    CASE c.code \in 200..299 -> "success"
      [] \/ c.code \in DefaultRetryStatusCodes \cup 500..599
         \/ c.why \in NetworkErrors -> "retryable"
      [] OTHER -> "permanent"

TableVerdict(c) ==
    CASE c.why \in {"shutdown"} \cup Unsent -> "ignore"
      [] \/ c.code \in DefaultRetryStatusCodes \cup 500..599
         \/ c.why \in NetworkErrors \ {"shutdown"} -> "unhealthy"
      [] OTHER -> "healthy"

TableFate(c) ==
    CASE TableOutcome(c) = "success" -> "succeeded"
      [] TableOutcome(c) = "retryable" /\ attempt < budget -> "rescheduled"
      [] OTHER -> "dead"

\* On such an endpoint every attempt of which the table speaks, and that followed no
\* redirect, is classified, counts for the breaker and ends as the table says, until the
\* budget is exhausted.
FollowsTable ==
    /\ phase = "decided"
    /\ hops = 0 /\ result.error \notin {"bad_location", "malformed"}
    /\ ep.success = {}
    /\ ep.retry = DefaultRetryStatusCodes
    => /\ result.outcome = TableOutcome(cause)
       /\ BreakerVerdict(result) = TableVerdict(cause)
       /\ fate = TableFate(cause)

\* However the lists are configured, what is retried counts against the vendor unless a
\* shutdown caused it, so an outage cannot burn retry budgets behind a closed breaker; and
\* only that does, so what goes to dead letters at once cannot shut an endpoint. What counts
\* is the vendor's or the network's doing, with one exception: a notification whose own
\* header or key net/http does not send is retried and counted, and does shut its endpoint
\* for the others when it fails often enough (section 7 of the README).
BreakerCountsRetries ==
    phase = "decided" =>
        /\ BreakerVerdict(result) = "unhealthy"
              <=> result.outcome = "retryable" /\ result.error # "shutdown"
        /\ BreakerVerdict(result) = "unhealthy" =>
              \/ cause.why \in NetworkErrors \ {"shutdown"}
              \/ cause.code \in Redirects
              \/ cause.code \in Codes /\ ClassifyStatus(cause.code) = "retryable"
              \/ cause.why = "malformed"

\* Without a Retry-After the wait is on the curve of README 4.3, give or take the jitter:
\* late attempts neither overflow nor collapse to an immediate retry, as long as a duration
\* holds the point of the curve stretched by the whole jitter. Nothing in validate ensures
\* that: a cap above 2^63/(1+jitter) nanoseconds can turn into a negative wait. (The clamp of
\* the exponent bends a curve whose cap is more than 2^62 times its base, after 63 attempts.)
OnCurve ==
    /\ fate = "rescheduled"
    /\ asked = 0
    /\ attempt <= MaxExponent + 1 \/ ep.max <= ep.base * PowerOfTwo[MaxExponent]
    /\ Curve(ep, attempt) * (10 + ep.jitter) < 10 * (Word \div 2)
    => /\ 10 * delay <= Curve(ep, attempt) * (10 + ep.jitter)
       /\ 10 * (delay + 1) > Curve(ep, attempt) * (10 - ep.jitter)

\* README 4.3: a Retry-After comes before the curve, but not beyond max, as long as its
\* seconds fit a duration.
HonoursRetryAfter ==
    fate = "rescheduled" /\ asked > 0 /\ asked * Second < Word \div 2
        => delay = Smaller(asked * Second, ep.max)

\* What README 4.2 and the comment on classifyStatus say of redirects: they are permanent
\* failures and never followed.
RedirectsAreFinal ==
    phase = "decided" /\ cause.code \in Redirects => fate = "dead"

================================================================================
