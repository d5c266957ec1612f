----------------------------- MODULE RequestHeaders -----------------------------
(***************************************************************************)
(* Who decides each header of a request (delivery/render.go): the caller,  *)
(* the endpoint's configuration, its content type, or the service itself.  *)
(* A name is its canonical form; one name stands for each kind. caller     *)
(* says of each header the caller sends whether net/http sends its value.  *)
(***************************************************************************)
EXTENDS FiniteSetsExt, Naturals

Identity == {"X-Notification-Id"}       \* and its Attempt, Endpoint and Timestamp
IdempotencyKey == "X-Idempotency-Key"
Denied == {"Authorization", "Content-Type"}
NotTokens == {"X-A B"}                  \* no name of a header in HTTP
\* Names that begin with X-, reserved ones aside.
Custom == {"X-Trace", IdempotencyKey} \cup NotTokens
HeaderNames == Identity \cup Denied \cup Custom \cup {"Accept-Language"}

\* The idempotency key of a notification. A caller's key is checked for its length only.
Keys == {"none", "sendable", "unsendable"}

\* callerHeaderAllowed: never what is denied or reserved; else what the endpoint lists,
\* or X- names if it lists nothing.
CallerHeaderAllowed(allowCaller, name) ==
    /\ name \notin Denied \cup Identity
    /\ name \in (IF allowCaller = {} THEN Custom ELSE allowCaller)

\* Mutant: the caller is heard last.
LayersCallerLast(ep, caller, key, body) == <<
    [by |-> "endpoint", names |-> ep.headers],
    [by |-> "content_type", names |-> IF body THEN {"Content-Type"} ELSE {}],
    [by |-> "service",
     names |-> Identity \cup (IF key # "none" THEN {IdempotencyKey} ELSE {})],
    [by |-> "caller",
     names |-> {h \in DOMAIN caller : CallerHeaderAllowed(ep.allowCaller, h)}]>>

\* renderHeaders writes them in this order.
Layers(ep, caller, key, body) == <<
    [by |-> "caller",
     names |-> {h \in DOMAIN caller : CallerHeaderAllowed(ep.allowCaller, h)}],
    [by |-> "endpoint", names |-> ep.headers],
    [by |-> "content_type", names |-> IF body THEN {"Content-Type"} ELSE {}],
    [by |-> "service",
     names |-> Identity \cup (IF key # "none" THEN {IdempotencyKey} ELSE {})]>>

\* header.Set: the last to write a name decides it.
RenderHeaders(ep, caller, key, body) ==
    LET layers == Layers(ep, caller, key, body)
        Writers(h) == {i \in DOMAIN layers : h \in layers[i].names}
    IN  [h \in UNION {layers[i].names : i \in DOMAIN layers} |-> layers[Max(Writers(h))].by]

\* net/http sends no request with a name that is not a token, or a value with a control
\* character. (An endpoint's own values are taken to be free of them.)
Sendable(header, caller, key) ==
    \A h \in DOMAIN header :
        /\ h \notin NotTokens
        /\ header[h] = "caller" => caller[h]
        /\ header[h] = "service" /\ h = IdempotencyKey => key = "sendable"

================================================================================
