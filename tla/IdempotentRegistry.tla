--------------------------- MODULE IdempotentRegistry ---------------------------
(***************************************************************************)
(* What the submission endpoint promises, whatever processes, retries and  *)
(* failures lie behind it: submissions enter a register, one at most under *)
(* each idempotency key, and whoever is told an identifier is told the one *)
(* entry that stands for its submission. Submissions are pairs of a client *)
(* and a try.                                                              *)
(***************************************************************************)
CONSTANTS
    Submission,     \* all the submissions there can be
    NoKey,          \* the key of a submission without one
    KeyOf(_)        \* the idempotency key of a submission

VARIABLES
    entries,        \* the submissions that were entered
    told            \* the pairs of a submission and the identifier it was told

vars == <<entries, told>>

\* e is the entry that stands for s: s itself, or one entered under the same key.
StandsFor(e, s) == e = s \/ (KeyOf(s) # NoKey /\ KeyOf(e) = KeyOf(s))

Init == entries = {} /\ told = {}

Enter(s) ==
    /\ \A e \in entries : ~StandsFor(e, s)
    /\ entries' = entries \cup {s}
    /\ UNCHANGED told

Tell(s, e) ==
    /\ e \in entries
    /\ StandsFor(e, s)
    /\ told' = told \cup {<<s, e>>}
    /\ UNCHANGED entries

Next ==
    \E s \in Submission :
        \/ Enter(s)
        \/ \E e \in entries : Tell(s, e)

Spec == Init /\ [][Next]_vars

================================================================================
