------------------------------ MODULE Configuration ------------------------------
(***************************************************************************)
(* What Load makes of a configuration file (config/config.go): defaults    *)
(* filled into each endpoint field by field, then validation. Fields that  *)
(* no other part of the model uses are left out; a name, an address or a   *)
(* method is good or not. A field the file does not mention has the zero   *)
(* value of its type, and so has one the file sets to it: the code sees no *)
(* difference.                                                             *)
(*                                                                         *)
(* Durations are ticks, jitter is tenths; of a header only its name is kept. *)
(***************************************************************************)
EXTENDS Integers, Sequences

CONSTANTS
    Second          \* ticks of time.Second: 10^9

ASSUME SecondAssumption == Second \in Nat \ {0}

DefaultRetryStatusCodes == {408, 423, 425, 429}

\* An endpoint of which the file says nothing but a name and an address.
Blank == [timeout |-> 0, maxAttempts |-> 0, concurrency |-> 0,
          base |-> 0, max |-> 0, jitter |-> 0,
          enabled |-> FALSE, failureThreshold |-> 0, cooldown |-> 0, halfOpenProbes |-> 0,
          success |-> {}, retry |-> {}, allowCaller |-> {}, headers |-> {}]

BuiltinDefaults == [
    timeout |-> 5 * Second, maxAttempts |-> 8, concurrency |-> 8,
    base |-> Second, max |-> 600 * Second, jitter |-> 3,
    enabled |-> TRUE, failureThreshold |-> 5, cooldown |-> 30 * Second, halfOpenProbes |-> 1,
    success |-> {}, retry |-> DefaultRetryStatusCodes, allowCaller |-> {}, headers |-> {}]

Quantities == {"timeout", "maxAttempts", "concurrency", "base", "max", "jitter",
               "failureThreshold", "cooldown", "halfOpenProbes"}
Lists == {"success", "retry", "allowCaller"}

Positive(x, y) == IF x > 0 THEN x ELSE y

Filled(xs, ys) == IF xs # {} THEN xs ELSE ys

\* Mutant: the built-in value is taken for every quantity there is one for.
FallbackFromDefaults(dst, src) ==
    [f \in DOMAIN dst |->
        CASE f \in Quantities -> Positive(src[f], dst[f])
          [] f \in Lists -> Filled(dst[f], src[f])
          [] f = "headers" -> dst.headers \cup src.headers
          [] f = "enabled" -> IF dst.failureThreshold > 0 THEN dst.enabled ELSE src.enabled]

\* applyEndpointFallback: numbers and lists that are there win, headers are merged, and
\* the switch of the breaker goes with its threshold.
Fallback(dst, src) ==
    [f \in DOMAIN dst |->
        CASE f \in Quantities -> Positive(dst[f], src[f])
          [] f \in Lists -> Filled(dst[f], src[f])
          [] f = "headers" -> dst.headers \cup src.headers
          [] f = "enabled" -> IF dst.failureThreshold > 0 THEN dst.enabled ELSE src.enabled]

LeaseDuration(file) == Positive(file.lease, 60 * Second)

\* The endpoints of a file, with everything they inherit.
Resolved(file) ==
    LET defaults == Fallback(file.defaults, BuiltinDefaults)
    IN  [i \in DOMAIN file.endpoints |-> Fallback(file.endpoints[i].settings, defaults)]

\* Mutant: an endpoint is validated before it inherits.
ValidAsWritten(endpoint, ep) ==
    /\ endpoint.wellFormed
    /\ endpoint.settings.jitter \in 0..10
    /\ endpoint.settings.max = 0 \/ endpoint.settings.max >= endpoint.settings.base

\* Endpoint.validate: name, address, method and environment references are good.
Valid(endpoint, ep) ==
    /\ endpoint.wellFormed
    /\ ep.jitter \in 0..10
    /\ ep.max >= ep.base

\* normalize: the process starts with this file.
Loads(file) ==
    /\ file.endpoints # <<>>
    /\ \A i \in DOMAIN file.endpoints :
          /\ Valid(file.endpoints[i], Resolved(file)[i])
          /\ Resolved(file)[i].timeout < LeaseDuration(file)
    /\ \A i, j \in DOMAIN file.endpoints :
          file.endpoints[i].name = file.endpoints[j].name => i = j

================================================================================
