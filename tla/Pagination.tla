------------------------------ MODULE Pagination ------------------------------
(***************************************************************************)
(* A page of an ONU list: the query parameters (pkg/pagination), the slice *)
(* that GetByBoardIDAndPonIDWithPagination of internal/usecase/onu.go cuts *)
(* out, and the answer of internal/handler/onu.go, which describes the page*)
(* with numbers of its own.  The list is 1..total; integers end at MaxInt. *)
(***************************************************************************)
EXTENDS Integers

CONSTANTS DefaultPageSize, MaxPageSize,
          MaxInt,   \* the largest integer, 2^63 - 1
          Params,   \* values of ?page= and ?limit=
          Totals    \* lengths of the list

ASSUME PaginationAssumption ==
    /\ DefaultPageSize \in Nat \ {0} /\ MaxPageSize \in Nat \ {0}
    /\ MaxInt \in Nat
    /\ Params \subseteq [given : BOOLEAN, value : Int]
    /\ Totals \subseteq Nat

VARIABLES page, limit,  \* of the last request
          total,
          answer        \* status, rows and meta data

pageVars == <<page, limit, total, answer>>

PageInit ==
    /\ page = 1 /\ limit = DefaultPageSize
    /\ total = 0
    /\ answer = [status |-> 404, rows |-> {}, pages |-> 0, size |-> 0]

\* parseInt: a parameter that is missing or no number is the default.
parseInt(param, default) == IF param.given THEN param.value ELSE default

Wrap(n) == LET half == MaxInt + 1 IN ((n + half) % (2 * half)) - half

\* pagination.New: the size that is reported is in 1 .. MaxPageSize.
PageSize(n) ==
    IF n <= 0 THEN DefaultPageSize ELSE IF n > MaxPageSize THEN MaxPageSize ELSE n

\* Mutant: a full last page is counted twice.
MutPageCount(size, count) == count \div size + 1

PageCount(size, count) == (count + size - 1) \div size

StartIndex(p, n) == Wrap((p - 1) * n)
EndIndex(p, n, count) ==
    LET end == Wrap(StartIndex(p, n) + n) IN IF end > count THEN count ELSE end

\* A slice with a negative or inverted range panics.
Panics(p, n, count) ==
    /\ StartIndex(p, n) < count
    /\ StartIndex(p, n) < 0 \/ EndIndex(p, n, count) < StartIndex(p, n)

\* allOnus[startIndex:endIndex]
Rows(p, n, count) ==
    {i \in 1 .. count : StartIndex(p, n) < i /\ i <= EndIndex(p, n, count)}

\* A list that could not be read is answered like an empty page.
Answer(p, n, count) ==
    IF Panics(p, n, count)
    THEN [status |-> 500, rows |-> {}, pages |-> 0, size |-> 0]
    ELSE IF Rows(p, n, count) = {}
    THEN [status |-> 404, rows |-> {}, pages |-> 0, size |-> 0]
    ELSE [status |-> 200, rows |-> Rows(p, n, count), pages |-> PageCount(PageSize(n), count),
          size |-> PageSize(n)]

GetPage ==
    \E p \in Params, n \in Params, count \in Totals, read \in BOOLEAN :
        /\ page' = parseInt(p, 1)
        /\ limit' = parseInt(n, DefaultPageSize)
        /\ total' = IF read THEN count ELSE 0
        /\ answer' = Answer(page', limit', total')

PageNext == GetPage

PageSpec == PageInit /\ [][PageNext]_pageVars

--------------------------------------------------------------------------------
\* Parameters within the documented range, on any list that fits the integers.
Proper == page >= 1 /\ limit \in 1 .. MaxPageSize /\ page * limit <= MaxInt

\* The pages of a list partition it in order, and the number of pages that every
\* answer reports is that of the pages that have rows: a client that turns pages
\* until page_count sees every ONU once.
PagesPartition ==
    Proper =>
        /\ answer.rows = {i \in 1 .. total : (i - 1) \div limit = page - 1}
        /\ answer.status = 200 => page <= answer.pages /\ (answer.pages - 1) * limit < total
        /\ answer.status = 404 => (page - 1) * limit >= total
        /\ answer.status # 500

\* The types of the state; the answer is that of the last request.
PageInv ==
    /\ page \in Int /\ limit \in Int /\ total \in Nat
    /\ answer = Answer(page, limit, total)

\* README.md:413: limit is at most 100 (not so: only the reported one is).
LimitIsEnforced == \A i, j \in answer.rows : i - j < MaxPageSize

\* No request makes the slice panic (not so: page 0, a negative limit, an overflow).
NeverPanics == answer.status # 500
================================================================================
