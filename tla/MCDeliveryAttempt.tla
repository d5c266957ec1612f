---------------------------- MODULE MCDeliveryAttempt ----------------------------
(***************************************************************************)
(* Instances of DeliveryAttempt for TLC.                                   *)
(***************************************************************************)
EXTENDS DeliveryAttempt

\* Every class of the table, with both ends of the ranges.
MCCodes == {200, 202, 204, 299, 300, 301, 302, 307, 399, 400, 404, 408, 409, 422, 423,
            425, 429, 499, 500, 503, 599}

Named(name, s) == [name |-> name, wellFormed |-> TRUE, settings |-> s]
File(lease, defaults, s) ==
    [lease |-> lease, defaults |-> defaults, endpoints |-> <<Named("crm", s)>>]

\* Lists that are left alone, replaced, and contradict each other or the defaults.
ListFiles ==
    {File(0, [Blank EXCEPT !.retry = d], [Blank EXCEPT !.success = s, !.retry = r]) :
        d \in {{}, {404}}, s \in {{}, {204, 409, 500}}, r \in {{}, {200, 429, 409}}}

\* Curves that are inherited, cut short, steeper than their cap, and long enough to reach it;
\* and such as leave the range of a duration, with a cap that their jitter does or does not
\* stretch beyond it.
BackoffFiles ==
    {File(0, [Blank EXCEPT !.base = d, !.maxAttempts = 14],
          [Blank EXCEPT !.base = b, !.max = m, !.jitter = j]) :
        d \in {0, 50}, b \in {0, 20}, m \in {0, 30}, j \in {0, 10, 11}}
    \cup
    {File(0, [Blank EXCEPT !.base = 9000, !.maxAttempts = 14],
          [Blank EXCEPT !.max = m, !.jitter = j]) : m \in {25000, 27000, 32767}, j \in {0, 10}}

BreakerFiles ==
    {File(0, [Blank EXCEPT !.enabled = e, !.failureThreshold = t],
          [Blank EXCEPT !.enabled = f, !.failureThreshold = u, !.halfOpenProbes = u,
                        !.maxAttempts = 1]) :
        e, f \in BOOLEAN, t \in {0, 2}, u \in {-1, 0, 3}}

TimeoutFiles ==
    {File(lease, [Blank EXCEPT !.timeout = d, !.maxAttempts = 1], [Blank EXCEPT !.timeout = t]) :
        lease \in {0, 100, 101}, d \in {0, 700}, t \in {0, 100}}

HeaderFiles ==
    {File(0, [Blank EXCEPT !.headers = {"X-Trace"}, !.allowCaller = a, !.maxAttempts = 1],
          [Blank EXCEPT !.headers = h]) :
        a \in {{}, {"Accept-Language", "Authorization", IdempotencyKey}},
        h \in {{}, {"Authorization", "Content-Type", "X-Notification-Id", IdempotencyKey},
              NotTokens}}

\* No endpoint, a malformed one, two of the same name, and two that differ.
OtherFiles ==
    {[lease |-> 0, defaults |-> Blank, endpoints |-> e] :
        e \in {<<>>,
               <<[Named("crm", Blank) EXCEPT !.wellFormed = FALSE]>>,
               <<Named("crm", Blank), Named("crm", Blank)>>,
               <<Named("crm", Blank), Named("ads", [Blank EXCEPT !.maxAttempts = 1])>>}}

MCFiles == ListFiles \cup BackoffFiles \cup BreakerFiles \cup TimeoutFiles
           \cup HeaderFiles \cup OtherFiles

MCRedirectFiles == ListFiles

\* No header, around the caps, and past what a duration holds.
MCRetryAfters == {0, 1, 3, 4, 599, 600, 601, 3276, 3277, 6554}

\* None, everything a caller may try, and such as net/http does not send: by their name, or
\* by the value of one that may pass, be replaced or be dropped.
MCCallerHeaders ==
    {<<>>, [h \in HeaderNames |-> TRUE], [h \in HeaderNames \ NotTokens |-> TRUE]}
    \cup {[h \in HeaderNames \ NotTokens |-> h # bad] :
             bad \in {"X-Trace", "Authorization", IdempotencyKey}}

================================================================================
