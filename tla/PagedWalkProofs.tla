-------------------------- MODULE PagedWalkProofs ---------------------------
(***************************************************************************)
(* That walks along the links are complete, for every list, page size and  *)
(* query.  By itself WalksAreComplete says nothing of a walk under way; the *)
(* invariant says how far it has read, and that the pages of a walk        *)
(* backwards are aligned, so that they meet the list's beginning.          *)
(***************************************************************************)
EXTENDS PagedWalk, TLAPS

\* how far into the list a walk has read
Reach(w) == w.offset + (IF w.page = NotYet THEN 0 ELSE w.limit)
\* from where on a walk backwards has read
Depth(w) == w.offset + (IF w.page = NotYet THEN w.limit ELSE 0)

Full == Len(list) + (IF walk.related THEN others ELSE 0)

Walk ==
    [stage : {"idle", "asked", "over"}, back : BOOLEAN, offset : Nat, limit : Nat,
     sorted : BOOLEAN, related : BOOLEAN,
     page : {NotYet} \cup {<<p>> : p \in Seq(Item)},
     total : {NotYet} \cup {<<n>> : n \in Nat},
     seen : SUBSET Item, twice : BOOLEAN, start : Seq(Item),
     shifted : BOOLEAN, strayed : BOOLEAN]

WalkType == walk \in Walk /\ list \in Lists /\ others \in Nat

Undisturbed == walk.stage = "asked" /\ ~walk.shifted /\ ~walk.strayed

\* the list still begins as it did
Kept == IF walk.sorted THEN walk.start = list ELSE Grows(walk.start, list)

CountCovers ==
    walk.total # NotYet => /\ Len(walk.start) <= walk.total[1]
                           /\ walk.total[1] <= Full

\* what a walk forwards has seen is what lies before its reach
SeenBefore ==
    ~walk.back =>
        /\ walk.sorted => walk.offset = 0
        /\ walk.limit = 0 => walk.offset = 0
        /\ \A i \in 1..Len(walk.start) : i <= Reach(walk)
                => Ordered(walk.start, walk.sorted)[i] \in walk.seen
        /\ \A x \in walk.seen : \E i \in 1..Len(list) :
                i <= Reach(walk) /\ Ordered(list, walk.sorted)[i] = x

\* and of one backwards what lies behind; its pages are aligned and within
\* what the total counts
SeenBehind ==
    walk.back =>
        /\ ~walk.sorted /\ walk.limit = PageSizeOption
        /\ \E k \in Nat : walk.offset = k * walk.limit
        /\ walk.offset = 0 \/ walk.offset < Full
        /\ walk.total # NotYet => walk.offset = 0 \/ walk.offset < walk.total[1]
        /\ \A i \in 1..Len(walk.start) : Depth(walk) < i => walk.start[i] \in walk.seen
        /\ \A x \in walk.seen : \E i \in 1..Len(list) :
                Depth(walk) < i /\ list[i] = x

Progressing == Undisturbed => Kept /\ CountCovers /\ SeenBefore /\ SeenBehind /\ ~walk.twice

IInv == WalkType /\ Progressing /\ WalksAreComplete

-----------------------------------------------------------------------------
LEMMA Limits == PageSizeOption \in Nat \ {0}
BY PageSizes DEF PageSizeOption

LEMMA LimitType == ASSUME NEW n \in Int PROVE Limit(n) \in Nat \ {0}
BY Limits DEF Limit

LEMMA OrderedType ==
    ASSUME NEW l \in Lists, NEW b \in BOOLEAN
    PROVE  /\ Ordered(l, b) \in Seq(Item) /\ Len(Ordered(l, b)) = Len(l)
           /\ \A i, j \in 1..Len(l) : Ordered(l, b)[i] = Ordered(l, b)[j] => i = j
<1>1. l \in Seq(Item) /\ Len(l) \in Nat /\ \A i, j \in 1..Len(l) : l[i] = l[j] => i = j
  BY DEF Lists
<1>2. \A i \in 1..Len(l) : l[i] \in Item
  BY <1>1
<1>3. CASE b
  <2>1. /\ Reversed(l) \in Seq(Item) /\ Len(Reversed(l)) = Len(l)
        /\ \A i \in 1..Len(l) : Reversed(l)[i] = l[Len(l) + 1 - i]
    BY <1>1, <1>2 DEF Reversed
  <2>2. ASSUME NEW i \in 1..Len(l), NEW j \in 1..Len(l),
               Reversed(l)[i] = Reversed(l)[j]
        PROVE  i = j
    <3>1. /\ Len(l) + 1 - i \in 1..Len(l) /\ Len(l) + 1 - j \in 1..Len(l)
          /\ l[Len(l) + 1 - i] = l[Len(l) + 1 - j]
      BY <1>1, <2>1, <2>2
    <3>2. Len(l) + 1 - i = Len(l) + 1 - j
      BY <1>1, <3>1
    <3> QED BY <1>1, <3>2
  <2> QED BY <2>1, <2>2, <1>3 DEF Ordered
<1>4. CASE ~b
  BY <1>1, <1>4 DEF Ordered
<1> QED BY <1>3, <1>4

\* A page holds the items of the list at the places the query asks for.
LEMMA PageItems ==
    ASSUME NEW l \in Seq(Item), NEW o \in Nat, NEW n \in Nat
    PROVE  /\ Window(l, o, n) \in Seq(Item)
           /\ \A i \in 1..Len(l) : o < i /\ i <= o + n => l[i] \in Items(Window(l, o, n))
           /\ \A x \in Items(Window(l, o, n)) :
                \E i \in 1..Len(l) : o < i /\ i <= o + n /\ l[i] = x
           /\ Items(Window(l, o, n)) \subseteq Item
<1> DEFINE e == IF o + n < Len(l) THEN o + n ELSE Len(l)
           W == SubSeq(l, o + 1, e)
<1>1. Len(l) \in Nat /\ e \in Nat /\ e <= Len(l) /\ e <= o + n
  OBVIOUS
<1>2. \A i \in 1..Len(l) : l[i] \in Item
  OBVIOUS
<1>3. /\ W \in Seq(Item)
      /\ Len(W) = IF o + 1 <= e THEN e - o ELSE 0
      /\ \A k \in 1..Len(W) : W[k] = l[o + k]
  <2> HIDE DEF e
  <2>1. \A k \in (o+1)..e : l[k] \in Item
    BY <1>1, <1>2
  <2> QED BY <1>1, <2>1
<1>4. \A i \in 1..Len(l) : o < i /\ i <= o + n => i - o \in 1..Len(W) /\ W[i - o] = l[i]
  BY <1>1, <1>3
<1>5. DOMAIN W = 1..Len(W)
  BY <1>3
<1>6. \A i \in 1..Len(l) : o < i /\ i <= o + n => l[i] \in Items(W)
  BY <1>4, <1>5 DEF Items
<1>7. \A x \in Items(W) : \E i \in 1..Len(l) : o < i /\ i <= o + n /\ l[i] = x
  <2> SUFFICES ASSUME NEW k \in 1..Len(W)
               PROVE  \E i \in 1..Len(l) : o < i /\ i <= o + n /\ l[i] = W[k]
    BY <1>5 DEF Items
  <2>1. o + k \in 1..Len(l) /\ o < o + k /\ o + k <= o + n /\ l[o + k] = W[k]
    BY <1>1, <1>3
  <2> QED BY <2>1
<1>8. Items(W) \subseteq Item
  BY <1>2, <1>7
<1> HIDE DEF W, e
<1>9. Window(l, o, n) = W
  BY DEF Window, W, e
<1> QED BY <1>3, <1>6, <1>7, <1>8, <1>9

\* The page of the `last` link reaches the end of what was counted.
LEMMA LastPageReaches ==
    ASSUME NEW n \in Nat \ {0}, NEW t \in Nat
    PROVE  LET o == Offset(LastOffset(n, t))
           IN /\ o \in Nat /\ \E k \in Nat : o = k * n
              /\ t <= o + n /\ (o = 0 \/ o < t)
<1> DEFINE q == (t + n - 1) \div n
           r == (t + n - 1) % n
<1>1. q \in Nat /\ r \in Nat /\ r < n /\ t + n - 1 = n * q + r
  OBVIOUS
<1> HIDE DEF q, r
<1>2. LastOffset(n, t) = (q - 1) * n
  BY DEF LastOffset, q
<1>3. (q - 1) * n = n * q - n
  BY <1>1
<1>4. CASE q = 0
  <2>1. LastOffset(n, t) = -n /\ n * q = 0
    BY <1>2, <1>3, <1>4
  <2>2. Offset(LastOffset(n, t)) = 0 /\ 0 = 0 * n /\ t <= n
    BY <1>1, <2>1 DEF Offset
  <2> QED BY <2>2
<1>5. CASE q # 0
  <2>1. q - 1 \in Nat
    BY <1>1, <1>5
  <2>2. (q - 1) * n \in Nat
    BY <2>1
  <2>3. Offset(LastOffset(n, t)) = (q - 1) * n
    BY <1>2, <2>2 DEF Offset
  <2>4. t <= (q - 1) * n + n /\ (q - 1) * n < t
    BY <1>1, <1>3, <2>2
  <2> QED BY <2>1, <2>2, <2>3, <2>4
<1> QED BY <1>1, <1>4, <1>5

-----------------------------------------------------------------------------
LEMMA InitInvariant == Init => IInv
BY DEF Init, IInv, WalkType, Walk, Idle, NotYet, Progressing, Undisturbed,
       WalksAreComplete

LEMMA GrowsFromItself == ASSUME NEW l \in Seq(Item) PROVE Grows(l, l)
BY DEF Grows

LEMMA StartKeeps == IInv /\ Start => IInv'
<1> SUFFICES ASSUME IInv, Start PROVE IInv'
  OBVIOUS
<1>1. WalkType /\ list' = list /\ others' = others /\ list \in Seq(Item)
  BY DEF IInv, Start, WalkType, Lists
<1>3. PICK n \in Nat, s \in BOOLEAN, r \in BOOLEAN :
        walk' = [stage |-> "asked", back |-> FALSE, offset |-> 0, limit |-> n,
                 sorted |-> s, related |-> r, page |-> NotYet, total |-> NotYet,
                 seen |-> {}, twice |-> FALSE, start |-> list, shifted |-> FALSE,
                 strayed |-> FALSE]
  <2>0. Offset(0) = 0 /\ 0 \in Int
    BY DEF Offset
  <2>1. ASSUME NEW q \in Queries, walk' = Ask(q, list)
        PROVE  walk' = [stage |-> "asked", back |-> FALSE, offset |-> 0,
                 limit |-> Limit(q.limit), sorted |-> q.sorted, related |-> q.related,
                 page |-> NotYet, total |-> NotYet, seen |-> {}, twice |-> FALSE,
                 start |-> list, shifted |-> FALSE, strayed |-> FALSE]
    BY <2>0, <2>1 DEF Ask, Asked, Idle
  <2>2. ASSUME NEW q \in Queries
        PROVE  Limit(q.limit) \in Nat /\ q.sorted \in BOOLEAN /\ q.related \in BOOLEAN
    BY QueryTypes, LimitType DEF Query
  <2>3. ASSUME NEW r \in BOOLEAN, walk' = AskPlainly(r, list)
        PROVE  walk' = [stage |-> "asked", back |-> FALSE, offset |-> 0,
                 limit |-> PageSize, sorted |-> FALSE, related |-> r,
                 page |-> NotYet, total |-> NotYet, seen |-> {}, twice |-> FALSE,
                 start |-> list, shifted |-> FALSE, strayed |-> FALSE]
    BY <2>0, <2>3 DEF AskPlainly, Asked, Idle
  <2>4. CASE \E q \in Queries : walk' = Ask(q, list)
    <3>1. PICK q \in Queries : walk' = Ask(q, list)
      BY <2>4
    <3> QED BY <2>1, <2>2, <3>1
  <2>5. CASE \E r \in BOOLEAN : walk' = AskPlainly(r, list)
    BY <2>3, <2>5, PageSizes
  <2> QED BY <2>4, <2>5 DEF Start
<1>4. WalkType'
  BY <1>1, <1>3 DEF WalkType, Walk
<1>5. Kept' /\ CountCovers'
  BY <1>1, <1>3, GrowsFromItself DEF Kept, CountCovers
<1>6. SeenBefore' /\ SeenBehind'
  BY <1>1, <1>3 DEF SeenBefore, SeenBehind, Reach
<1>7. Progressing' /\ WalksAreComplete'
  BY <1>3, <1>5, <1>6 DEF Progressing, WalksAreComplete
<1> QED BY <1>4, <1>7 DEF IInv

\* The walk after its page was found, as far as it has not yet been counted.
LEMMA FoundKeeps ==
    ASSUME IInv, walk.stage = "asked", walk.page = NotYet,
           list' = list, others' = others, NEW t,
           walk' = [FoundPage(walk, list) EXCEPT !.total = t],
           \/ t = walk.total
           \/ t = <<Full>>
    PROVE  IInv'
<1> DEFINE O == Ordered(list, walk.sorted)
           W == Window(O, walk.offset, walk.limit)
<1>1. /\ walk \in Walk /\ list \in Lists /\ others \in Nat
      /\ list \in Seq(Item) /\ Len(list) \in Nat
      /\ O \in Seq(Item) /\ Len(O) = Len(list)
      /\ \A i, j \in 1..Len(list) : O[i] = O[j] => i = j
  <2>1. walk \in Walk /\ list \in Lists /\ others \in Nat
    BY DEF IInv, WalkType
  <2>2. walk.sorted \in BOOLEAN
    BY <2>1 DEF Walk
  <2> QED BY <2>1, <2>2, OrderedType DEF Lists
<1>2. /\ W \in Seq(Item) /\ Items(W) \subseteq Item
      /\ \A i \in 1..Len(list) : walk.offset < i /\ i <= walk.offset + walk.limit
            => O[i] \in Items(W)
      /\ \A x \in Items(W) : \E i \in 1..Len(list) :
            walk.offset < i /\ i <= walk.offset + walk.limit /\ O[i] = x
  <2>1. walk.offset \in Nat /\ walk.limit \in Nat
    BY <1>1 DEF Walk
  <2> HIDE DEF O
  <2>2. O \in Seq(Item) /\ Len(O) = Len(list)
    BY <1>1
  <2>3. /\ W \in Seq(Item)
        /\ \A i \in 1..Len(O) : walk.offset < i /\ i <= walk.offset + walk.limit
              => O[i] \in Items(W)
        /\ \A x \in Items(W) : \E i \in 1..Len(O) :
              walk.offset < i /\ i <= walk.offset + walk.limit /\ O[i] = x
        /\ Items(W) \subseteq Item
    <3> DEFINE o == walk.offset
               n == walk.limit
    <3>1. o \in Nat /\ n \in Nat
      BY <2>1
    <3> HIDE DEF o, n
    <3>2. /\ Window(O, o, n) \in Seq(Item)
          /\ \A i \in 1..Len(O) : o < i /\ i <= o + n => O[i] \in Items(Window(O, o, n))
          /\ \A x \in Items(Window(O, o, n)) :
                \E i \in 1..Len(O) : o < i /\ i <= o + n /\ O[i] = x
          /\ Items(Window(O, o, n)) \subseteq Item
      BY <2>2, <3>1, PageItems
    <3> QED BY <3>2 DEF o, n
  <2> QED BY <2>2, <2>3
<1> HIDE DEF W
<1>3. walk' = [walk EXCEPT !.page = <<W>>, !.seen = @ \cup Items(W),
                           !.twice = @ \/ Items(W) \cap walk.seen # {}, !.total = t]
  BY DEF FoundPage, W
<1> HIDE DEF O
<1>4. Full \in Nat /\ t \in {NotYet} \cup {<<k>> : k \in Nat}
  BY <1>1 DEF Full, Walk
<1>6. /\ walk'.stage = "asked" /\ walk'.back = walk.back /\ walk'.offset = walk.offset
      /\ walk'.limit = walk.limit /\ walk'.sorted = walk.sorted
      /\ walk'.related = walk.related /\ walk'.page # NotYet /\ walk'.total = t
      /\ walk'.seen = walk.seen \cup Items(W) /\ walk'.start = walk.start
      /\ walk'.twice = (walk.twice \/ Items(W) \cap walk.seen # {})
      /\ walk'.shifted = walk.shifted /\ walk'.strayed = walk.strayed
      /\ walk' \in Walk
  <2> DEFINE p == <<W>>
             v == walk.seen \cup Items(W)
             b == walk.twice \/ Items(W) \cap walk.seen # {}
  <2>1. walk' = [walk EXCEPT !.page = p, !.seen = v, !.twice = b, !.total = t]
    BY <1>3
  <2>2. /\ p # NotYet /\ p \in {NotYet} \cup {<<q>> : q \in Seq(Item)}
        /\ v \in SUBSET Item /\ b \in BOOLEAN
    BY <1>1, <1>2 DEF Walk, NotYet
  <2> HIDE DEF p, v, b
  <2>3. /\ walk'.stage = walk.stage /\ walk'.back = walk.back
        /\ walk'.offset = walk.offset /\ walk'.limit = walk.limit
        /\ walk'.sorted = walk.sorted /\ walk'.related = walk.related
        /\ walk'.page = p /\ walk'.total = t /\ walk'.seen = v
        /\ walk'.start = walk.start /\ walk'.twice = b
        /\ walk'.shifted = walk.shifted /\ walk'.strayed = walk.strayed
    BY <1>1, <2>1 DEF Walk
  <2>4. walk' \in Walk
    BY <1>1, <1>4, <2>1, <2>2 DEF Walk
  <2> QED BY <2>2, <2>3, <2>4 DEF p, v, b
<1>5. WalkType'
  BY <1>1, <1>6 DEF WalkType
<1>7. ASSUME Undisturbed'
      PROVE  (Kept /\ CountCovers /\ SeenBefore /\ SeenBehind)' /\ ~walk'.twice
  <2>1. Undisturbed /\ Kept /\ CountCovers /\ SeenBefore /\ SeenBehind /\ ~walk.twice
    BY <1>6, <1>7 DEF IInv, Progressing, Undisturbed
  <2>2. Kept'
    BY <1>6, <2>1 DEF Kept
  <2>3. Len(walk.start) \in Nat /\ Len(walk.start) <= Len(list)
    BY <1>1, <2>1 DEF Kept, Grows, Walk
  <2>4. CountCovers'
    <3>1. Full' = Full
      BY <1>6 DEF Full
    <3>2. Len(walk.start) <= Full
      BY <1>1, <2>3 DEF Full, Walk
    <3> QED BY <1>4, <1>6, <2>1, <3>1, <3>2 DEF CountCovers
  <2>5. walk.offset \in Nat /\ walk.limit \in Nat
        /\ Reach(walk) = walk.offset /\ Reach(walk') = walk.offset + walk.limit
        /\ Depth(walk) = walk.offset + walk.limit /\ Depth(walk') = walk.offset
    BY <1>1, <1>6 DEF Walk, Reach, Depth
  <2>6. CASE ~walk.back
    <3>1. \A i \in 1..Len(walk.start) : walk.offset < i /\ i <= Reach(walk')
            => Ordered(walk.start, walk.sorted)[i] \in Items(W)
      <4> SUFFICES ASSUME NEW i \in 1..Len(walk.start), walk.offset < i, i <= Reach(walk')
                   PROVE  Ordered(walk.start, walk.sorted)[i] \in Items(W)
        OBVIOUS
      <4>1. Ordered(walk.start, walk.sorted)[i] = O[i]
        BY <2>1 DEF Kept, Grows, O, Ordered
      <4> QED BY <1>2, <2>3, <2>5, <1>1, <4>1
    <3>2. \A i \in 1..Len(walk.start) : i <= Reach(walk')
            => Ordered(walk.start, walk.sorted)[i] \in walk'.seen
      BY <1>6, <2>1, <2>5, <2>6, <3>1 DEF SeenBefore
    <3>3. \A x \in walk.seen : \E i \in 1..Len(list) : i <= walk.offset /\ O[i] = x
      BY <2>1, <2>5, <2>6 DEF SeenBefore, O
    <3>4. \A x \in walk'.seen : \E i \in 1..Len(list) : i <= Reach(walk') /\ O[i] = x
      <4> SUFFICES ASSUME NEW x \in walk.seen \cup Items(W)
                   PROVE  \E i \in 1..Len(list) : i <= Reach(walk') /\ O[i] = x
        BY <1>6
      <4>1. CASE x \in walk.seen
        <5>1. PICK i \in 1..Len(list) : i <= walk.offset /\ O[i] = x
          BY <3>3, <4>1
        <5> QED BY <2>5, <5>1
      <4>2. CASE x \in Items(W)
        BY <1>2, <2>5, <4>2
      <4> QED BY <4>1, <4>2
    <3>5. SeenBefore'
      <4>1. Ordered(list', walk'.sorted) = O
        BY <1>6 DEF O
      <4>2. ~walk'.back /\ (walk'.sorted => walk'.offset = 0) /\ (walk'.limit = 0 => walk'.offset = 0)
        BY <1>6, <2>1, <2>6 DEF SeenBefore
      <4> QED BY <1>6, <3>2, <3>4, <4>1, <4>2 DEF SeenBefore
    <3>6. ~walk'.twice
      <4> SUFFICES ASSUME NEW x \in walk.seen, x \in Items(W) PROVE FALSE
        BY <1>6, <2>1
      <4>1. PICK i \in 1..Len(list) : i <= walk.offset /\ O[i] = x
        BY <3>3
      <4>2. PICK j \in 1..Len(list) : walk.offset < j /\ O[j] = x
        BY <1>2
      <4> QED BY <1>1, <2>5, <4>1, <4>2
    <3> QED BY <1>6, <2>2, <2>4, <2>6, <3>5, <3>6 DEF SeenBehind
  <2>7. CASE walk.back
    <3>1. ~walk.sorted /\ O = list
      BY <2>1, <2>7 DEF SeenBehind, O, Ordered
    <3>2. \A i \in 1..Len(walk.start) : Depth(walk') < i => walk.start[i] \in walk'.seen
      <4> SUFFICES ASSUME NEW i \in 1..Len(walk.start), Depth(walk') < i
                   PROVE  walk.start[i] \in walk'.seen
        OBVIOUS
      <4>1. CASE Depth(walk) < i
        BY <1>6, <2>1, <2>7, <4>1 DEF SeenBehind
      <4>2. CASE ~(Depth(walk) < i)
        <5>1. walk.start[i] = list[i] /\ i \in 1..Len(list)
          BY <1>1, <2>1, <2>3, <3>1 DEF Kept, Grows
        <5> QED BY <1>2, <1>6, <2>5, <3>1, <4>2, <5>1
      <4> QED BY <4>1, <4>2
    <3>3. \A x \in walk.seen : \E i \in 1..Len(list) : Depth(walk) < i /\ list[i] = x
      BY <2>1, <2>7 DEF SeenBehind
    <3>4. \A x \in walk'.seen : \E i \in 1..Len(list) : Depth(walk') < i /\ list[i] = x
      <4> SUFFICES ASSUME NEW x \in walk.seen \cup Items(W)
                   PROVE  \E i \in 1..Len(list) : Depth(walk') < i /\ list[i] = x
        BY <1>6
      <4>1. CASE x \in walk.seen
        <5>1. PICK i \in 1..Len(list) : Depth(walk) < i /\ list[i] = x
          BY <3>3, <4>1
        <5> QED BY <2>5, <5>1
      <4>2. CASE x \in Items(W)
        BY <1>2, <2>5, <3>1, <4>2
      <4> QED BY <4>1, <4>2
    <3>5. Full' = Full
      BY <1>6 DEF Full
    <3>6. walk.offset = 0 \/ walk.offset < Full
      BY <2>1, <2>7 DEF SeenBehind
    <3>7. t # NotYet => walk.offset = 0 \/ walk.offset < t[1]
      BY <1>4, <2>1, <2>7, <3>6 DEF SeenBehind
    <3>8. SeenBehind'
      BY <1>6, <2>1, <2>7, <3>1, <3>2, <3>4, <3>5, <3>6, <3>7 DEF SeenBehind
    <3>9. ~walk'.twice
      <4> SUFFICES ASSUME NEW x \in walk.seen, x \in Items(W) PROVE FALSE
        BY <1>6, <2>1
      <4>1. PICK i \in 1..Len(list) : Depth(walk) < i /\ list[i] = x
        BY <3>3
      <4>2. PICK j \in 1..Len(list) : j <= walk.offset + walk.limit /\ list[j] = x
        BY <1>2, <3>1
      <4> QED BY <1>1, <2>5, <3>1, <4>1, <4>2
    <3> QED BY <1>6, <2>2, <2>4, <2>7, <3>8, <3>9 DEF SeenBefore
  <2> QED BY <2>6, <2>7
<1>8. Progressing'
  BY <1>7 DEF Progressing
<1>9. WalksAreComplete'
  BY <1>6 DEF WalksAreComplete
<1> QED BY <1>5, <1>8, <1>9 DEF IInv

LEMMA FindManyKeeps == IInv /\ FindMany => IInv'
<1> SUFFICES ASSUME IInv, FindMany PROVE IInv'
  OBVIOUS
<1>1. walk \in Walk
  BY DEF IInv, WalkType
<1>2. walk' = [FoundPage(walk, list) EXCEPT !.total = walk.total]
  BY <1>1 DEF FindMany, FoundPage, Walk
<1> QED BY <1>2, FoundKeeps DEF FindMany

LEMMA FindRelatedKeeps == IInv /\ FindRelated => IInv'
<1> SUFFICES ASSUME IInv, FindRelated PROVE IInv'
  OBVIOUS
<1>1. walk' = [FoundPage(walk, list) EXCEPT !.total = <<Full>>]
  BY DEF FindRelated, Counted, Full
<1> QED BY <1>1, FoundKeeps DEF FindRelated

LEMMA CountKeeps == IInv /\ Count => IInv'
<1> SUFFICES ASSUME IInv, Count PROVE IInv'
  OBVIOUS
<1>1. /\ walk \in Walk /\ list \in Lists /\ others \in Nat /\ list \in Seq(Item)
      /\ list' = list /\ others' = others /\ walk.stage = "asked" /\ ~walk.related
      /\ walk' = [walk EXCEPT !.total = <<Len(list)>>]
  BY DEF IInv, WalkType, Count, Counted, Lists
<1>2. /\ walk'.stage = "asked" /\ walk'.back = walk.back /\ walk'.offset = walk.offset
      /\ walk'.limit = walk.limit /\ walk'.sorted = walk.sorted
      /\ walk'.related = walk.related /\ walk'.page = walk.page
      /\ walk'.total = <<Len(list)>> /\ walk'.seen = walk.seen
      /\ walk'.start = walk.start /\ walk'.twice = walk.twice
      /\ walk'.shifted = walk.shifted /\ walk'.strayed = walk.strayed
  BY <1>1 DEF Walk
<1>3. WalkType'
  <2> DEFINE t == <<Len(list)>>
  <2>1. t \in {NotYet} \cup {<<n>> : n \in Nat} /\ walk' = [walk EXCEPT !.total = t]
    BY <1>1
  <2> HIDE DEF t
  <2>2. walk' \in Walk
    BY <1>1, <2>1 DEF Walk
  <2> QED BY <1>1, <2>2 DEF WalkType
<1>4. ASSUME Undisturbed'
      PROVE  (Kept /\ CountCovers /\ SeenBefore /\ SeenBehind)' /\ ~walk'.twice
  <2>1. Undisturbed /\ Kept /\ SeenBefore /\ SeenBehind /\ ~walk.twice
    BY <1>1, <1>2, <1>4 DEF IInv, Progressing, Undisturbed
  <2>2. Kept'
    BY <1>1, <1>2, <2>1 DEF Kept
  <2>3. Full = Len(list) /\ Full' = Full
    BY <1>1, <1>2 DEF Full
  <2>4. Len(walk.start) <= Len(list)
    BY <1>1, <2>1 DEF Kept, Grows, Walk
  <2>5. CountCovers'
    BY <1>1, <1>2, <2>3, <2>4 DEF CountCovers
  <2>6. Reach(walk') = Reach(walk) /\ Depth(walk') = Depth(walk)
    BY <1>2 DEF Reach, Depth
  <2>7. SeenBefore'
    BY <1>1, <1>2, <2>1, <2>6 DEF SeenBefore
  <2>8. SeenBehind'
    BY <1>1, <1>2, <2>1, <2>3, <2>6 DEF SeenBehind
  <2> QED BY <1>2, <2>1, <2>2, <2>5, <2>7, <2>8
<1>5. Progressing' /\ WalksAreComplete'
  BY <1>2, <1>4 DEF Progressing, WalksAreComplete
<1> QED BY <1>3, <1>5 DEF IInv

LEMMA FollowLinkKeeps == IInv /\ FollowLink => IInv'
<1> SUFFICES ASSUME IInv, FollowLink PROVE IInv'
  OBVIOUS
<1>1. /\ walk \in Walk /\ list \in Lists /\ others \in Nat /\ list \in Seq(Item)
      /\ list' = list /\ others' = others
      /\ walk.stage = "asked" /\ walk.page # NotYet /\ walk.total # NotYet
      /\ walk.offset \in Nat /\ walk.limit \in Nat /\ walk.total[1] \in Nat
  <2>1. /\ walk \in Walk /\ list \in Lists /\ others \in Nat /\ list \in Seq(Item)
        /\ list' = list /\ others' = others
        /\ walk.stage = "asked" /\ walk.page # NotYet /\ walk.total # NotYet
    BY DEF IInv, WalkType, FollowLink, Answered, Lists
  <2>2. walk.total \in {<<n>> : n \in Nat}
    BY <2>1 DEF Walk
  <2> QED BY <2>1, <2>2 DEF Walk
<1> DEFINE o == IF walk.back THEN walk.offset - walk.limit ELSE walk.offset + walk.limit
           n == Limit(walk.limit)
           z == walk.strayed \/ walk.sorted
<1>2. o \in Nat /\ n \in Nat \ {0} /\ z \in BOOLEAN
  <2>1. z \in BOOLEAN /\ n \in Nat \ {0}
    BY <1>1, LimitType DEF Walk
  <2>2. walk.back => 0 <= walk.offset - walk.limit
    BY DEF FollowLink, MayGoOn, HasPrev
  <2>3. o \in Nat
    BY <1>1, <2>2
  <2> QED BY <2>1, <2>3
<1>3. walk' = [walk EXCEPT !.stage = "asked", !.offset = o, !.limit = n,
                  !.page = NotYet, !.total = NotYet, !.sorted = FALSE, !.strayed = z]
  <2>1. walk' = Follow(walk, o, walk.limit)
    BY DEF FollowLink, GoOn, NextPage, PrevPage
  <2>2. Offset(o) = o
    BY <1>2 DEF Offset
  <2> HIDE DEF o
  <2> QED BY <1>1, <2>1, <2>2 DEF Follow, Asked, Walk
<1>4. /\ walk'.stage = "asked" /\ walk'.back = walk.back /\ walk'.offset = o
      /\ walk'.limit = n /\ walk'.sorted = FALSE /\ walk'.related = walk.related
      /\ walk'.page = NotYet /\ walk'.total = NotYet /\ walk'.seen = walk.seen
      /\ walk'.start = walk.start /\ walk'.twice = walk.twice
      /\ walk'.shifted = walk.shifted /\ walk'.strayed = z
      /\ walk' \in Walk
  <2> HIDE DEF o, n, z
  <2> QED BY <1>1, <1>2, <1>3 DEF Walk
<1>5. ASSUME Undisturbed'
      PROVE  (Kept /\ CountCovers /\ SeenBefore /\ SeenBehind)' /\ ~walk'.twice
  <2>1. ~walk.sorted /\ Undisturbed /\ Kept /\ SeenBefore /\ SeenBehind /\ ~walk.twice
    BY <1>1, <1>4, <1>5 DEF IInv, Progressing, Undisturbed
  <2>2. Kept' /\ CountCovers'
    BY <1>1, <1>4, <2>1 DEF Kept, CountCovers
  <2>3. Full' = Full /\ Full \in Nat
    BY <1>1, <1>4 DEF Full
  <2>4. CASE ~walk.back
    <3>1. Reach(walk') = Reach(walk)
      BY <1>1, <1>2, <1>4, <2>4 DEF Reach
    <3>2. walk'.limit # 0
      BY <1>2, <1>4
    <3>3. SeenBefore'
      <4>1. Ordered(walk.start, walk.sorted) = Ordered(walk'.start, walk'.sorted)
            /\ Ordered(list, walk.sorted) = Ordered(list', walk'.sorted)
        BY <1>1, <1>4, <2>1 DEF Ordered
      <4> HIDE DEF o, n, z
      <4> QED BY <1>1, <1>4, <2>1, <2>4, <3>1, <3>2, <4>1 DEF SeenBefore
    <3> QED BY <1>4, <2>1, <2>2, <2>4, <3>3 DEF SeenBehind
  <2>5. CASE walk.back
    <3>1. walk.limit = PageSizeOption /\ n = walk.limit
      BY <2>1, <2>5, Limits DEF SeenBehind, Limit
    <3>2. Depth(walk') = Depth(walk)
      BY <1>1, <1>2, <1>4, <2>5, <3>1 DEF Depth
    <3>3. \E k \in Nat : o = k * n
      <4>1. PICK k \in Nat : walk.offset = k * walk.limit
        BY <2>1, <2>5 DEF SeenBehind
      <4>2. k # 0
        BY <1>1, <1>2, <2>5, <3>1, <4>1
      <4>3. k - 1 \in Nat /\ (k - 1) * walk.limit = k * walk.limit - walk.limit
        BY <1>1, <4>2
      <4>4. o = (k - 1) * n
        BY <2>5, <3>1, <4>1, <4>3
      <4> QED BY <4>3, <4>4
    <3>4. o = 0 \/ o < Full
      BY <1>1, <1>2, <2>1, <2>3, <2>5 DEF SeenBehind
    <3> HIDE DEF o, n
    <3>5. SeenBehind'
      BY <1>1, <1>4, <2>1, <2>3, <2>5, <3>1, <3>2, <3>3, <3>4 DEF SeenBehind
    <3> QED BY <1>4, <2>1, <2>2, <2>5, <3>5 DEF SeenBefore
  <2> QED BY <2>4, <2>5
<1>6. WalkType' /\ Progressing' /\ WalksAreComplete'
  BY <1>1, <1>4, <1>5 DEF WalkType, Progressing, WalksAreComplete
<1> QED BY <1>6 DEF IInv

LEMMA FollowLastKeeps == IInv /\ FollowLast => IInv'
<1> SUFFICES ASSUME IInv, FollowLast PROVE IInv'
  OBVIOUS
<1> DEFINE L == walk.limit
           T == walk.total[1]
           o == Offset(LastOffset(L, T))
           z == walk.strayed \/ walk.sorted \/ L # PageSizeOption
<1>1. /\ walk \in Walk /\ list \in Lists /\ others \in Nat /\ list \in Seq(Item)
      /\ list' = list /\ others' = others
      /\ walk.stage = "asked" /\ walk.total # NotYet /\ L \in Nat /\ T \in Nat
  <2>1. /\ walk \in Walk /\ list \in Lists /\ others \in Nat /\ list \in Seq(Item)
        /\ list' = list /\ others' = others
        /\ walk.stage = "asked" /\ walk.total # NotYet
    BY DEF IInv, WalkType, FollowLast, Answered, Lists
  <2>2. walk.total \in {<<n>> : n \in Nat}
    BY <2>1 DEF Walk
  <2> QED BY <2>1, <2>2 DEF Walk
<1>2. /\ o \in Nat /\ z \in BOOLEAN
      /\ L # 0 => (\E k \in Nat : o = k * L) /\ T <= o + L /\ (o = 0 \/ o < T)
  <2>1. z \in BOOLEAN
    BY <1>1 DEF Walk
  <2>2. CASE L = 0
    BY <2>1, <2>2 DEF LastOffset, Offset
  <2>3. CASE L # 0
    <3> HIDE DEF L, T
    <3> QED BY <1>1, <2>1, <2>3, LastPageReaches
  <2> QED BY <2>2, <2>3
<1>3. walk' = [walk EXCEPT !.stage = "asked", !.offset = o, !.limit = PageSizeOption,
                  !.page = NotYet, !.total = NotYet, !.sorted = FALSE, !.strayed = z,
                  !.back = TRUE, !.seen = {}, !.twice = FALSE]
  <2>1. Limit(0) = PageSizeOption
    BY DEF Limit
  <2> HIDE DEF o
  <2> QED BY <1>1, <2>1 DEF FollowLast, LastPage, Follow, Asked, o, Walk
<1> HIDE DEF o, z
<1>4. /\ walk'.stage = "asked" /\ walk'.back /\ walk'.offset = o
      /\ walk'.limit = PageSizeOption /\ walk'.sorted = FALSE
      /\ walk'.related = walk.related /\ walk'.page = NotYet /\ walk'.total = NotYet
      /\ walk'.seen = {} /\ walk'.start = walk.start /\ walk'.twice = FALSE
      /\ walk'.shifted = walk.shifted /\ walk'.strayed = z
      /\ walk' \in Walk
  BY <1>1, <1>2, <1>3, Limits DEF Walk
<1>5. ASSUME Undisturbed'
      PROVE  (Kept /\ CountCovers /\ SeenBefore /\ SeenBehind)' /\ ~walk'.twice
  <2>1. /\ ~walk.sorted /\ L = PageSizeOption /\ Undisturbed /\ Kept /\ CountCovers
    BY <1>1, <1>4, <1>5 DEF IInv, Progressing, Undisturbed, z
  <2>2. Kept' /\ CountCovers'
    BY <1>1, <1>4, <2>1 DEF Kept, CountCovers
  <2>3. Full' = Full /\ Full \in Nat /\ Len(walk.start) <= T /\ T <= Full
    BY <1>1, <1>4, <2>1 DEF Full, CountCovers
  <2>4. L # 0 /\ Len(walk.start) \in Nat
    BY <1>1, <2>1, Limits DEF Walk
  <2>5. Depth(walk') = o + L
    BY <1>4, <2>1 DEF Depth
  <2> HIDE DEF L, T
  <2>6. \A i \in 1..Len(walk.start) : ~(Depth(walk') < i)
    BY <1>1, <1>2, <2>3, <2>4, <2>5
  <2>7. SeenBehind'
    BY <1>1, <1>2, <1>4, <2>1, <2>3, <2>4, <2>6 DEF SeenBehind
  <2> QED BY <1>4, <2>2, <2>7 DEF SeenBefore
<1>6. WalkType' /\ Progressing' /\ WalksAreComplete'
  BY <1>1, <1>4, <1>5 DEF WalkType, Progressing, WalksAreComplete
<1> QED BY <1>6 DEF IInv

LEMMA EndKeeps == IInv /\ End => IInv'
<1> SUFFICES ASSUME IInv, End PROVE IInv'
  OBVIOUS
<1>1. /\ walk \in Walk /\ list \in Lists /\ others \in Nat /\ list \in Seq(Item)
      /\ list' = list /\ others' = others
      /\ walk.stage = "asked" /\ walk.page # NotYet /\ walk.total # NotYet
      /\ walk.offset \in Nat /\ walk.limit \in Nat /\ walk.total[1] \in Nat
  <2>1. /\ walk \in Walk /\ list \in Lists /\ others \in Nat /\ list \in Seq(Item)
        /\ list' = list /\ others' = others
        /\ walk.stage = "asked" /\ walk.page # NotYet /\ walk.total # NotYet
    BY DEF IInv, WalkType, End, Answered, Lists
  <2>2. walk.total \in {<<n>> : n \in Nat}
    BY <2>1 DEF Walk
  <2> QED BY <2>1, <2>2 DEF Walk
<1>2. walk' = [walk EXCEPT !.stage = "over"] /\ walk' \in Walk
  BY <1>1 DEF End, Over, Walk
<1>3. /\ walk'.stage = "over" /\ walk'.seen = walk.seen /\ walk'.start = walk.start
      /\ walk'.twice = walk.twice /\ walk'.shifted = walk.shifted
      /\ walk'.strayed = walk.strayed
  BY <1>1, <1>2 DEF Walk
<1>4. ASSUME ~walk.shifted, ~walk.strayed
      PROVE  Items(walk.start) \subseteq walk.seen /\ ~walk.twice
  <2>1. Undisturbed /\ Kept /\ CountCovers /\ SeenBefore /\ SeenBehind /\ ~walk.twice
    BY <1>1, <1>4 DEF IInv, Progressing, Undisturbed
  <2>2. walk.start \in Seq(Item) /\ Len(walk.start) \in Nat /\ Len(walk.start) <= walk.total[1]
    BY <1>1, <2>1 DEF Walk, CountCovers
  <2>3. DOMAIN walk.start = 1..Len(walk.start)
    BY <2>2
  <2> SUFFICES ASSUME NEW i \in 1..Len(walk.start) PROVE walk.start[i] \in walk.seen
    BY <2>1, <2>3 DEF Items
  <2>4. CASE ~walk.back
    <3>1. ~(walk.offset + walk.limit <= walk.total[1] - 1)
      BY <2>4 DEF End, MayGoOn, HasNext
    <3>2. \A j \in 1..Len(walk.start) : j <= Reach(walk)
      BY <1>1, <2>2, <3>1 DEF Reach
    <3>3. \A j \in 1..Len(walk.start) : Ordered(walk.start, walk.sorted)[j] \in walk.seen
      BY <2>1, <2>4, <3>2 DEF SeenBefore
    <3>4. CASE walk.sorted
      <4>1. Len(walk.start) + 1 - i \in 1..Len(walk.start)
        BY <2>2
      <4>2. Reversed(walk.start)[Len(walk.start) + 1 - i] = walk.start[i]
        BY <2>2, <4>1 DEF Reversed
      <4> QED BY <3>3, <3>4, <4>1, <4>2 DEF Ordered
    <3>5. CASE ~walk.sorted
      BY <3>3, <3>5 DEF Ordered
    <3> QED BY <3>4, <3>5
  <2>5. CASE walk.back
    <3>1. ~(0 <= walk.offset - walk.limit /\ walk.offset - walk.limit <= walk.total[1] - 1)
      BY <2>5 DEF End, MayGoOn, HasPrev
    <3>2. walk.offset = 0
      <4>1. walk.offset = 0 \/ walk.offset < walk.total[1]
        BY <1>1, <2>1, <2>5 DEF SeenBehind
      <4>2. PICK k \in Nat : walk.offset = k * walk.limit
        BY <2>1, <2>5 DEF SeenBehind
      <4>3. ASSUME k # 0 PROVE walk.limit <= walk.offset
        <5>1. (k - 1) \in Nat /\ k * walk.limit = (k - 1) * walk.limit + walk.limit
          BY <1>1, <4>3
        <5>2. (k - 1) * walk.limit \in Nat
          BY <1>1, <5>1
        <5> QED BY <1>1, <4>2, <5>1, <5>2
      <4>4. ASSUME k = 0 PROVE walk.offset = 0
        BY <1>1, <4>2, <4>4
      <4> QED BY <1>1, <3>1, <4>1, <4>3, <4>4
    <3>3. Depth(walk) = 0
      BY <1>1, <3>2 DEF Depth
    <3> QED BY <2>1, <2>2, <2>5, <3>3 DEF SeenBehind
  <2> QED BY <2>4, <2>5
<1>5. WalkType' /\ Progressing' /\ WalksAreComplete'
  BY <1>1, <1>2, <1>3, <1>4 DEF WalkType, Progressing, Undisturbed, WalksAreComplete
<1> QED BY <1>5 DEF IInv

LEMMA GrowsTransitive ==
    ASSUME NEW k \in Seq(Item), NEW l \in Seq(Item), NEW m \in Seq(Item),
           Grows(k, l), Grows(l, m)
    PROVE  Grows(k, m)
BY DEF Grows

LEMMA ChangeKeeps == IInv /\ Change => IInv'
<1> SUFFICES ASSUME IInv, Change PROVE IInv'
  OBVIOUS
<1> DEFINE s == \/ walk.shifted
                \/ /\ walk.stage = "asked"
                   /\ \/ list # list' /\ (walk.sorted \/ ~Grows(list, list'))
                      \/ others' < others
<1>1. /\ walk \in Walk /\ list \in Lists /\ others \in Nat /\ list \in Seq(Item)
      /\ list' \in Lists /\ others' \in Nat /\ list' \in Seq(Item)
      /\ walk' = [walk EXCEPT !.shifted = s]
  BY DEF IInv, WalkType, Change, Disturbed, Lists
<1>2. s \in BOOLEAN
  BY <1>1 DEF Walk
<1>3. /\ walk' \in Walk /\ walk'.shifted = s
      /\ walk'.stage = walk.stage /\ walk'.back = walk.back
      /\ walk'.offset = walk.offset /\ walk'.limit = walk.limit
      /\ walk'.sorted = walk.sorted /\ walk'.related = walk.related
      /\ walk'.page = walk.page /\ walk'.total = walk.total
      /\ walk'.seen = walk.seen /\ walk'.start = walk.start
      /\ walk'.twice = walk.twice /\ walk'.strayed = walk.strayed
  <2> HIDE DEF s
  <2> QED BY <1>1, <1>2 DEF Walk
<1>4. ASSUME Undisturbed'
      PROVE  (Kept /\ CountCovers /\ SeenBefore /\ SeenBehind)' /\ ~walk'.twice
  <2>1. /\ Undisturbed /\ Kept /\ CountCovers /\ SeenBefore /\ SeenBehind /\ ~walk.twice
        /\ ~(others' < others)
        /\ list # list' => ~walk.sorted /\ Grows(list, list')
    BY <1>3, <1>4 DEF IInv, Progressing, Undisturbed
  <2>2. Grows(list, list') /\ Len(list) <= Len(list') /\ Len(list) \in Nat
        /\ Len(list') \in Nat
    BY <1>1, <2>1, GrowsFromItself DEF Grows
  <2>3. Full \in Nat /\ Full' \in Nat /\ Full <= Full'
    BY <1>1, <1>3, <2>1, <2>2 DEF Full
  <2>4. Kept'
    <3>1. CASE walk.sorted
      BY <1>3, <2>1, <3>1 DEF Kept
    <3>2. CASE ~walk.sorted
      <4>1. walk.start \in Seq(Item) /\ Grows(walk.start, list)
        BY <1>1, <2>1, <3>2 DEF Walk, Kept
      <4>2. Grows(walk.start, list')
        BY <1>1, <2>2, <4>1, GrowsTransitive
      <4> QED BY <1>3, <3>2, <4>2 DEF Kept
    <3> QED BY <3>1, <3>2
  <2>5. CountCovers'
    <3>1. ASSUME walk.total # NotYet PROVE walk.total[1] \in Nat
      BY <1>1, <3>1 DEF Walk
    <3> QED BY <1>3, <2>1, <2>3, <3>1 DEF CountCovers
  <2>6. Reach(walk') = Reach(walk) /\ Depth(walk') = Depth(walk)
    BY <1>3 DEF Reach, Depth
  <2>7. \A i \in 1..Len(list) :
            /\ i \in 1..Len(list')
            /\ Ordered(list', walk.sorted)[i] = Ordered(list, walk.sorted)[i]
            /\ list'[i] = list[i]
    BY <2>1, <2>2 DEF Grows, Ordered
  <2>8. SeenBefore'
    <3>1. ASSUME ~walk.back, NEW x \in walk.seen
          PROVE  \E i \in 1..Len(list') :
                    i <= Reach(walk) /\ Ordered(list', walk.sorted)[i] = x
      <4>1. PICK i \in 1..Len(list) :
                    i <= Reach(walk) /\ Ordered(list, walk.sorted)[i] = x
        BY <2>1, <3>1 DEF SeenBefore
      <4> QED BY <2>7, <4>1
    <3> QED BY <1>3, <2>1, <2>6, <3>1 DEF SeenBefore
  <2>9. SeenBehind'
    <3>1. ASSUME walk.back, NEW x \in walk.seen
          PROVE  \E i \in 1..Len(list') : Depth(walk) < i /\ list'[i] = x
      <4>1. PICK i \in 1..Len(list) : Depth(walk) < i /\ list[i] = x
        BY <2>1, <3>1 DEF SeenBehind
      <4> QED BY <2>7, <4>1
    <3>2. ASSUME walk.back PROVE walk.offset = 0 \/ walk.offset < Full'
      <4>1. walk.offset \in Nat
        BY <1>1 DEF Walk
      <4> QED BY <2>1, <2>3, <3>2, <4>1 DEF SeenBehind
    <3> QED BY <1>3, <2>1, <2>6, <3>1, <3>2 DEF SeenBehind
  <2> QED BY <1>3, <2>1, <2>4, <2>5, <2>8, <2>9
<1>5. WalkType' /\ Progressing' /\ WalksAreComplete'
  BY <1>1, <1>3, <1>4 DEF WalkType, Progressing, WalksAreComplete, IInv
<1> QED BY <1>5 DEF IInv

LEMMA StutterKeeps == IInv /\ UNCHANGED vars => IInv'
BY DEF vars, IInv, WalkType, Progressing, Undisturbed, Kept, CountCovers, Full,
       SeenBefore, SeenBehind, Reach, Depth, WalksAreComplete

-----------------------------------------------------------------------------
\* A client that follows the links of makePaginator to their end, while rows
\* are appended to the list, has met every row it set out from and met none
\* twice, whatever the page size and the limits asked for (getPagination).
THEOREM WalksComplete == Spec => []WalksAreComplete
<1>1. Init => IInv
  BY InitInvariant
<1>2. IInv /\ [Next]_vars => IInv'
  BY StartKeeps, FindManyKeeps, CountKeeps, FindRelatedKeeps, FollowLinkKeeps,
     FollowLastKeeps, EndKeeps, ChangeKeeps, StutterKeeps DEF Next
<1>3. IInv => WalksAreComplete
  BY DEF IInv
<1> QED BY <1>1, <1>2, <1>3, PTL DEF Spec
=============================================================================
