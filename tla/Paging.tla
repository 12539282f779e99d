------------------------------- MODULE Paging -------------------------------
(***************************************************************************)
(* Reading a paged collection.  Two walks over the same server side:       *)
(* _RestClient.get_paged (src/entraadm_mcp/client.py) and the filtered     *)
(* walk of signin_logs (src/entraadm_mcp/server.py), which stops at `top`  *)
(* matches and must say whether anything was left unread.                  *)
(*                                                                         *)
(* A collection is rows 1..upto[Len(upto)], page i ending with row upto[i];*)
(* pages may be empty.  A row a walk returns is known by its number.  One  *)
(* continuation link may name another host: the pages behind it are those  *)
(* that host serves to a walk that follows the link.                       *)
(***************************************************************************)
EXTENDS Naturals, Sequences

CONSTANTS
    MaxRows,        \* rows in the largest collection
    MaxPages,       \* pages in the longest collection
    Budgets,        \* max_pages values (already clamped to 1 or more)
    Tops            \* top values (already clamped to 1 or more)

ASSUME PagingAssumption ==
    /\ MaxRows \in Nat
    /\ MaxPages \in Nat \ {0}
    /\ Budgets \subseteq Nat \ {0}
    /\ Tops \subseteq Nat \ {0}

VARIABLES
    walk,       \* which of the two walks
    upto,       \* the collection: last row of each page
    foreign,    \* the page whose continuation link names another host, or 0
    matching,   \* the rows the filter of signin_logs keeps
    budget,     \* max_pages
    top,        \* top
    next,       \* the page `url` points at, or 0 for None
    pages,      \* pages read
    items,      \* rows collected, in order
    truncated,  \* truncated_within_page
    result      \* what the walk returned: running, pages, deadline or error

vars == <<walk, upto, foreign, matching, budget, top, next, pages, items, truncated, result>>
inputs == <<walk, upto, foreign, matching, budget, top>>

PageCount == Len(upto)
Total == upto[PageCount]

\* The last row before page i.
Before(i) == IF i = 1 THEN 0 ELSE upto[i - 1]

\* The rows i..j as the sequence a walk appends.
Interval(i, j) == [k \in 1..(IF i <= j THEN j - i + 1 ELSE 0) |-> i + k - 1]

Collections ==
    UNION {{f \in [1..n -> 0..MaxRows] : \A i \in 1..(n - 1) : f[i] <= f[i + 1]} :
                n \in 1..MaxPages}

Init ==
    /\ walk \in {"get_paged", "signin_logs"}
    /\ upto \in Collections
    /\ foreign \in 0..(PageCount - 1)
    /\ matching \in SUBSET (1..Total)
    /\ walk = "get_paged" => matching = 1..Total
    /\ budget \in Budgets
    /\ top \in Tops
    /\ next = 1
    /\ pages = 0
    /\ items = <<>>
    /\ truncated = FALSE
    /\ result = "running"

\* The continuation link of page i: 0 when there is none.
Link(i) == IF i < PageCount THEN i + 1 ELSE 0

\* The loop conditions of the two walks.
GoesOn ==
    /\ result = "running"
    /\ next # 0
    /\ pages < budget
    /\ walk = "signin_logs" => Len(items) < top

\* Mutant of LeavesHost: the origin of the link is not checked.
LeavesHostNever(i) == FALSE

\* _same_origin: the continuation link of page i names another host.
LeavesHost(i) == foreign = i

\* get_paged reads the page `url` names and follows its link, unless it leaves the host.
ReadPage ==
    /\ walk = "get_paged"
    /\ GoesOn
    /\ items' = items \o Interval(Before(next) + 1, upto[next])
    /\ next' = Link(next)
    /\ pages' = IF LeavesHost(next) THEN pages ELSE pages + 1
    /\ result' = IF LeavesHost(next) THEN "error" ELSE "running"
    /\ UNCHANGED <<inputs, truncated>>

\* The rows of s that the filter keeps, in order: the loop over the rows of a page.
Kept(s) ==
    LET F[k \in 0..Len(s)] ==
            IF k = 0 THEN <<>>
            ELSE IF s[k] \in matching THEN Append(F[k - 1], s[k]) ELSE F[k - 1]
    IN  F[Len(s)]

\* The matching rows of page i.
Hits(i) == Kept(Interval(Before(i) + 1, upto[i]))

\* Mutant of Truncates: a full page is taken for a finished one.
TruncatesNever(hits, room) == FALSE

\* Whether a row the filter keeps is left unread in the page being scanned.
Truncates(hits, room) == Len(hits) > room

\* signin_logs scans one page row by row and stops once it holds `top` events.  It takes
\* the link of the page as it comes: it calls get itself, which checks no link.
ScanPage ==
    LET hits == Hits(next)
        room == top - Len(items)
        taken == IF Len(hits) <= room THEN Len(hits) ELSE room
    IN  /\ walk = "signin_logs"
        /\ GoesOn
        /\ items' = items \o SubSeq(hits, 1, taken)
        /\ truncated' = Truncates(hits, room)
        /\ next' = Link(next)
        /\ pages' = pages + 1
        /\ UNCHANGED <<inputs, result>>

\* ApiDeadline: both walks keep what they have.
MeetDeadline ==
    /\ GoesOn
    /\ result' = "deadline"
    /\ UNCHANGED <<inputs, next, pages, items, truncated>>

\* Any other ApiError discards what was read.
Fail ==
    /\ GoesOn
    /\ result' = "error"
    /\ UNCHANGED <<inputs, next, pages, items, truncated>>

Finish ==
    /\ result = "running"
    /\ ~GoesOn
    /\ result' = "pages"
    /\ UNCHANGED <<inputs, next, pages, items, truncated>>

Stop == result # "running" /\ UNCHANGED vars

Next == ReadPage \/ ScanPage \/ MeetDeadline \/ Fail \/ Finish \/ Stop

Spec == Init /\ [][Next]_vars

-----------------------------------------------------------------------------
\* Mutant of Capped: only the page budget raises it.
CappedByBudget == pages = budget \/ truncated

\* The `capped` of the answer.
Capped == result = "deadline" \/ next # 0 \/ truncated

Returned == result \in {"pages", "deadline"}

All == Kept(Interval(1, Total))

\* The rows of a list.
RowsOf(s) == {s[k] : k \in DOMAIN s}

\* capped says exactly whether something is left.  When it is down (client.py:445-452) the
\* answer holds the whole collection, in order and without a row twice, for signin_logs
\* every row its filter keeps; and a walk the deadline did not cut raises it only when
\* pages or matching rows are left (the comment at server.py:885-892).
CappedIsExact ==
    /\ (Returned /\ ~Capped) => items = All
    /\ (result = "pages" /\ Capped) =>
          pages < PageCount \/ \E r \in matching : r \notin RowsOf(items)

\* Whatever ends the walk, a returned answer is the first matching rows of the collection:
\* no gap, never more than `top`, no row of a page beyond the budget, and from get_paged
\* none behind a continuation link to a foreign host (client.py:454-455).
AnswerIsPrefix ==
    Returned =>
        /\ items = SubSeq(All, 1, Len(items))
        /\ pages <= budget
        /\ walk = "signin_logs" => Len(items) <= top
        /\ (walk = "get_paged" /\ foreign # 0) => pages < foreign

\* What the caller has been told.
Told ==
    CASE result = "running" -> "none"
      [] result = "error" -> "failed"
      [] Returned -> IF Capped THEN "cut" ELSE "whole"

Read == INSTANCE OneRead WITH
    all <- matching,
    rows <- IF Returned THEN RowsOf(items) ELSE {},
    answer <- Told

\* However it goes through its pages, a walk is one read to its caller: nothing is shown
\* before it ends, `capped` down means that every row is there, a failed walk shows
\* nothing, and no answer is changed afterwards (client.py:444-455; the tools that take
\* a listing or the sign-in log as one step rest on it).
WalkIsOneRead == Read!Spec
=============================================================================
