------------------------------- MODULE RetryDelay -------------------------------
(***************************************************************************)
(* How long a failed notification waits: parseRetryAfter, nextBackoff and  *)
(* resolveDelay. DeliveryAttempt uses them.                                *)
(*                                                                         *)
(* Durations are whole ticks and live in a signed word of Word values; b   *)
(* is an endpoint's configuration, the random number r is in tenths. The   *)
(* floating point of the curve is taken to be exact.                       *)
(***************************************************************************)
EXTENDS Configuration

CONSTANTS
    Word,           \* number of values of a time.Duration: 2^64
    MaxExponent     \* the exponent nextBackoff clamps to: 62

ASSUME DelayAssumption ==
    /\ Word \in Nat \ {0} /\ Word % 2 = 0
    /\ MaxExponent \in Nat

Smaller(x, y) == IF x <= y THEN x ELSE y
Larger(x, y) == IF x >= y THEN x ELSE y

\* A product of durations, as the int64 multiplication leaves it.
Wrapped(x) ==
    LET low == x % Word
    IN  IF low < Word \div 2 THEN low ELSE low - Word

\* parseRetryAfter: a number of seconds. (A date asks for the seconds up to it,
\* and that difference does not wrap.)
ParseRetryAfter(secs) == IF secs <= 0 THEN 0 ELSE Wrapped(secs * Second)

\* math.Pow(2, k).
PowerOfTwo[k \in Nat] == IF k = 0 THEN 1 ELSE 2 * PowerOfTwo[k-1]

\* time.Duration(d) of a float that no duration holds is whatever the processor makes of
\* it: the least one on amd64, the greatest on arm64.
OutOfRange == {-(Word \div 2), (Word \div 2) - 1}

\* time.Duration(d) of a float that is not negative.
Converted(d, out) == IF d < Word \div 2 THEN d ELSE out

\* Mutant: one doubling too many.
BackoffFromTheSecond(b, n, r, out) ==
    LET d == Smaller(b.base * PowerOfTwo[Smaller(n, MaxExponent)], b.max)
    IN  Converted(Larger((d * (100 + b.jitter * (2*r - 10))) \div 100, 0), out)

\* nextBackoff: the curve, capped, stretched or shortened by up to the jitter, and only
\* then made a duration.
NextBackoff(b, n, r, out) ==
    LET d == Smaller(b.base * PowerOfTwo[Smaller(Larger(n, 1) - 1, MaxExponent)], b.max)
    IN  Converted(Larger((d * (100 + b.jitter * (2*r - 10))) \div 100, 0), out)

\* Mutant: a wait beyond the cap is taken for a mistake.
ResolveDelayOrBackoff(b, n, retryAfter, r, out) ==
    IF retryAfter > 0 /\ retryAfter <= b.max THEN retryAfter ELSE NextBackoff(b, n, r, out)

ResolveDelay(b, n, retryAfter, r, out) ==
    IF retryAfter > 0 THEN Smaller(retryAfter, b.max) ELSE NextBackoff(b, n, r, out)

\* The curve README 4.3 draws: base, doubled by every failure, up to max.
Curve(b, n) ==
    LET c[i \in Nat \ {0}] == IF i = 1 THEN b.base ELSE Smaller(2 * c[i-1], b.max)
    IN  c[n]

================================================================================
