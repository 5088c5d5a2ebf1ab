----------------------------- MODULE PagedWalk ------------------------------
(***************************************************************************)
(* What pagination promises: a client that walks a collection or a to-many *)
(* relation along the links of the answers, while the rows change, and     *)
(* where the page and the total come from two statements.                  *)
(***************************************************************************)
EXTENDS Paging

CONSTANT Item       \* what the list may hold

VARIABLES
    list,           \* the rows the query finds, in the database's order
    others,         \* related rows that it does not find, but `_count` counts
    walk

vars == <<list, others, walk>>

Lists == {l \in Seq(Item) : \A i, j \in 1..Len(l) : l[i] = l[j] => i = j}

Init ==
    /\ list \in Lists /\ others \in Nat
    /\ walk = Idle

Start ==
    /\ walk.stage \in {"idle", "over"}
    /\ \/ \E q \in Queries : walk' = Ask(q, list)
       \/ \E related \in BOOLEAN : walk' = AskPlainly(related, list)
    /\ UNCHANGED <<list, others>>

\* processCollectionRead: findMany and count run side by side.
FindMany ==
    /\ walk.stage = "asked" /\ ~walk.related /\ walk.page = NotYet
    /\ walk' = FoundPage(walk, list)
    /\ UNCHANGED <<list, others>>

Count ==
    /\ walk.stage = "asked" /\ ~walk.related /\ walk.total = NotYet
    /\ walk' = Counted(walk, Len(list))
    /\ UNCHANGED <<list, others>>

\* processFetchRelated, processReadRelationship: one statement, but the count
\* is without the filter.
FindRelated ==
    /\ walk.stage = "asked" /\ walk.related /\ walk.page = NotYet
    /\ walk' = Counted(FoundPage(walk, list), Len(list) + others)
    /\ UNCHANGED <<list, others>>

FollowLink ==
    /\ Answered(walk) /\ MayGoOn(walk)
    /\ walk' = GoOn(walk)
    /\ UNCHANGED <<list, others>>

\* a client turns round on its first page
FollowLast ==
    /\ Answered(walk) /\ ~walk.back /\ walk.offset = 0
    /\ walk' = LastPage(walk)
    /\ UNCHANGED <<list, others>>

End ==
    /\ Answered(walk) /\ ~MayGoOn(walk)
    /\ walk' = Over(walk)
    /\ UNCHANGED <<list, others>>

Change ==
    /\ list' \in Lists /\ others' \in Nat
    /\ walk' = Disturbed(walk, list, list', others' < others)

Next == Start \/ FindMany \/ Count \/ FindRelated \/ FollowLink \/ FollowLast
        \/ End \/ Change

Spec == Init /\ [][Next]_vars

-----------------------------------------------------------------------------
(* Properties. *)

\* A walk along the links that ends without the rows having changed but at
\* the list's end has met every item it started from, and none twice (makePaginator,
\* getPagination), unless a link lost the order or the page size.
WalksAreComplete ==
    walk.stage = "over" /\ ~walk.shifted /\ ~walk.strayed
        => Items(walk.start) \subseteq walk.seen /\ ~walk.twice
=============================================================================
