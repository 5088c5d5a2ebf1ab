------------------------------- MODULE Paging -------------------------------
(***************************************************************************)
(* Pagination of the JSON:API handler (server/src/api/rest/index.ts):      *)
(* which slice of a list a query asks for, the links the answer carries,   *)
(* and what a client has when it walks the list along these links.         *)
(***************************************************************************)
EXTENDS Integers, Sequences

CONSTANTS
    PageSize,           \* the handler's pageSize option; Infinity is any
                        \* number that no list exceeds
    DefaultPageSize,    \* DEFAULT_PAGE_SIZE
    Queries             \* what clients ask for

\* A walk starts at the list's beginning.  A page[limit] that is absent or no
\* number counts as 0.
Query == [limit : Int, sorted : BOOLEAN, related : BOOLEAN]

ASSUME PageSizes == PageSize \in Nat /\ DefaultPageSize \in Nat \ {0}
ASSUME QueryTypes == Queries \subseteq Query

-----------------------------------------------------------------------------
(* getPagination *)

PageSizeOption == IF PageSize <= 0 THEN DefaultPageSize ELSE PageSize

\* Faulty: a limit of zero is taken as it is.
LimitAsAsked(asked) ==
    IF asked < 0 \/ PageSizeOption < asked THEN PageSizeOption ELSE asked

Limit(asked) ==
    IF asked <= 0 \/ PageSizeOption < asked THEN PageSizeOption ELSE asked

Offset(asked) == IF asked < 0 THEN 0 ELSE asked

\* `skip` and `take` of findMany
Window(list, offset, limit) ==
    SubSeq(list, offset + 1,
           IF offset + limit < Len(list) THEN offset + limit ELSE Len(list))

-----------------------------------------------------------------------------
(* makePaginator *)

\* Faulty: a last page of one item is not linked.
HasNextOfTwo(offset, limit, total) == offset + limit < total - 1

HasNext(offset, limit, total) == offset + limit <= total - 1

HasPrev(offset, limit, total) ==
    0 <= offset - limit /\ offset - limit <= total - 1

\* (without a limit the division yields no number, which reads as 0)
LastOffset(limit, total) ==
    IF limit = 0 THEN 0 ELSE (((total + limit - 1) \div limit) - 1) * limit

-----------------------------------------------------------------------------
(* A walk: the query of the page it is at, the page and the total once they *)
(* are known, what it has seen since it started, and the list it started    *)
(* from.  `shifted` says that a list did more than grow at its end, and     *)
(* `strayed` that a link asked for another order or another page size.      *)

NotYet == <<>>

Idle == [stage |-> "idle", back |-> FALSE, offset |-> 0, limit |-> 1,
         sorted |-> FALSE, related |-> FALSE, page |-> NotYet, total |-> NotYet, seen |-> {},
         twice |-> FALSE, start |-> <<>>, shifted |-> FALSE, strayed |-> FALSE]

Reversed(list) == [i \in 1..Len(list) |-> list[Len(list) + 1 - i]]

\* Any order other than the database's own stands for orderBy.
Ordered(list, sorted) == IF sorted THEN Reversed(list) ELSE list

Asked(w, offset, limit) ==
    [w EXCEPT !.stage = "asked", !.offset = Offset(offset),
              !.limit = Limit(limit), !.page = NotYet, !.total = NotYet]

Ask(q, list) ==
    [Asked(Idle, 0, q.limit) EXCEPT !.sorted = q.sorted,
                                 !.related = q.related, !.start = list]

\* A request without any query takes the option as it is.
AskPlainly(related, list) ==
    [Asked(Idle, 0, 0) EXCEPT !.limit = PageSize, !.related = related,
                              !.start = list]

Items(s) == {s[i] : i \in DOMAIN s}

FoundPage(w, list) ==
    LET page == Window(Ordered(list, w.sorted), w.offset, w.limit)
    IN [w EXCEPT !.page = <<page>>, !.seen = @ \cup Items(page),
                 !.twice = @ \/ Items(page) \cap w.seen # {}]

Counted(w, total) == [w EXCEPT !.total = <<total>>]

Answered(w) == w.stage = "asked" /\ w.page # NotYet /\ w.total # NotYet

\* The walk after an answer.  makeNormalizedUrl keeps `filter[` parameters
\* but drops `sort`.
Follow(w, offset, limit) ==
    [Asked(w, offset, limit) EXCEPT !.sorted = FALSE, !.strayed = @ \/ w.sorted]

NextPage(w) == Follow(w, w.offset + w.limit, w.limit)

PrevPage(w) == Follow(w, w.offset - w.limit, w.limit)

\* The `last` link carries no page[limit], so that its page has the default
\* size.  A walk backwards starts there.
LastPage(w) ==
    [Follow(w, LastOffset(w.limit, w.total[1]), 0) EXCEPT
        !.back = TRUE, !.seen = {}, !.twice = FALSE,
        !.strayed = @ \/ w.limit # PageSizeOption]

MayGoOn(w) == IF w.back THEN HasPrev(w.offset, w.limit, w.total[1])
              ELSE HasNext(w.offset, w.limit, w.total[1])

GoOn(w) == IF w.back THEN PrevPage(w) ELSE NextPage(w)

Over(w) == [w EXCEPT !.stage = "over"]

Grows(before, after) ==
    /\ Len(before) <= Len(after)
    /\ \A i \in 1..Len(before) : after[i] = before[i]

\* The list changes, and with it the number of related rows not in it.
Disturbed(w, before, after, fewer) ==
    [w EXCEPT !.shifted =
        \/ @
        \/ /\ w.stage = "asked"
           /\ \/ before # after /\ (w.sorted \/ ~Grows(before, after))
              \/ fewer]
=============================================================================
