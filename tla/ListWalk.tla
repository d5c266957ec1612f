-------------------------------- MODULE ListWalk --------------------------------
(***************************************************************************)
(* An operator pages through the notifications, newest first (handleList,  *)
(* SQLite.List), while clients submit more of them to the same table. A    *)
(* page is one query; the cursor is the created_at of its last row and     *)
(* travels through the operator, so pages may be answered by different     *)
(* processes and any time may pass between them. The filters on status and *)
(* endpoint are left out.                                                  *)
(***************************************************************************)
EXTENDS Ingress, FiniteSetsExt

CONSTANTS Limit     \* the limit the operator asks for

ASSUME ListAssumption == Limit \in Nat \ {0}

VARIABLES walk

Walk == [on : BOOLEAN,              \* there is a page to ask for
         before : 0..MaxTime,       \* the cursor; 0 for the first page
         shown : SUBSET Row,        \* history: the rows of the pages so far
         owed : SUBSET Row,         \* history: the rows there were at the first page, less
                                    \* those shown and those left out of a page for the
                                    \* place of its last row, of the same millisecond
         twice : SUBSET Row]        \* history: the rows that were on two pages

NewWalk == [on |-> TRUE, before |-> 0, shown |-> {}, owed |-> {}, twice |-> {}]

ListInit == Init /\ walk = NewWalk

\* Mutants of the query: a cursor that is not strict, and no ORDER BY.
NotStrictlyBefore(before) == {x \in rows : before = 0 \/ x.createdAt <= before}
AnyPage(matching, n) == kSubset(n, matching)

\* created_at < before, when there is a cursor.
Before(before) == {x \in rows : before = 0 \/ x.createdAt < before}

\* ORDER BY created_at DESC LIMIT n: rows of the same millisecond in any order.
NewestPage(matching, n) ==
    {p \in kSubset(n, matching) :
        \A x \in p, y \in matching \ p : y.createdAt <= x.createdAt}

\* The rows a page leaves out that its cursor will exclude.
Tied(left, full, last) == {x \in left : full /\ x.createdAt = last}

\* A page as long as the limit has a successor: next_before is its last created_at.
ReadPage ==
    LET matching == Before(walk.before)
        size == IF Cardinality(matching) < Limit THEN Cardinality(matching) ELSE Limit
    IN  \E page \in NewestPage(matching, size) :
            LET full == size = Limit
                last == IF full THEN Min({x.createdAt : x \in page}) ELSE walk.before
            IN  /\ walk.on
                /\ walk' = [on |-> full,
                            before |-> last,
                            shown |-> IF full THEN walk.shown \cup page ELSE {},
                            owed |-> (IF walk.before = 0 THEN rows ELSE walk.owed)
                                     \ (page \cup Tied(matching \ page, full, last)),
                            twice |-> walk.twice \cup (walk.shown \cap page)]
                /\ UNCHANGED vars

ListNext == ReadPage \/ (Next /\ UNCHANGED walk)

ListSpec == ListInit /\ [][ListNext]_<<vars, walk>> /\ Fairness

-------------------------------------------------------------------------------
(* Properties. *)

WalkTypeOK == TypeOK /\ walk \in Walk

\* No row is shown twice, whatever is inserted between two pages and with however old a
\* created_at.
ShownOnce == walk.twice = {}

\* A walk that has come to its end has shown every row that was there when it began,
\* except for rows of the very millisecond of a page's last row that had no place on
\* that page: those the strict cursor passes over for good.
NoneSkipped == ~walk.on => walk.owed = {}

================================================================================
