--------------------------- MODULE RestApiProofs ---------------------------
(***************************************************************************)
(* Theorems about RestApi, for every set of requests, users and keys, any  *)
(* table to start from and every bound.  From the operators up to the      *)
(* properties: what Picked returns, what each call leaves (Keeps) and what *)
(* its outcome says of it (Tells), then the same of a request, and of the  *)
(* steps.                                                                  *)
(***************************************************************************)
EXTENDS RestApi, FiniteSetTheorems, WellFoundedInduction, TLAPS

\* how many of the places come up to k
Rank(places, k) == Cardinality({i \in places : i <= k})

\* A place has one rank more than the places before it. (Picked)
LEMMA RankStep ==
    ASSUME NEW n \in Nat, NEW places \in SUBSET (1..n), NEW k \in Nat \ {0}
    PROVE  /\ Rank(places, k) \in Nat
           /\ Rank(places, k) =
                Rank(places, k - 1) + IF k \in places THEN 1 ELSE 0
  <1> DEFINE before == {i \in places : i <= k - 1}
  <1>1. IsFiniteSet(before)
    <2>1. IsFiniteSet(1..n) BY FS_Interval
    <2> QED BY <2>1, FS_Subset
  <1>0. \A i \in places : i \in Nat \ {0} /\ i <= n
    OBVIOUS
  <1>2. k \notin before
    BY <1>0
  <1>3. {i \in places : i <= k} = IF k \in places THEN before \cup {k} ELSE before
    <2>1. \A i \in places : i <= k <=> i <= k - 1 \/ i = k
      BY <1>0
    <2> QED BY <2>1
  <1>4. Cardinality(before) \in Nat
    BY <1>1, FS_CardinalityType
  <1>5. Cardinality(before \cup {k}) = Cardinality(before) + 1
    BY <1>1, <1>2, FS_AddElement
  <1> QED BY <1>3, <1>4, <1>5 DEF Rank

\* The ranks of the places run from none to their number. (Picked)
LEMMA RankTotal ==
    ASSUME NEW n \in Nat, NEW places \in SUBSET (1..n)
    PROVE  /\ Rank(places, 0) = 0 /\ Rank(places, n) = Cardinality(places)
           /\ IsFiniteSet(places) /\ Cardinality(places) \in Nat
  <1>1. IsFiniteSet(places)
    <2>1. IsFiniteSet(1..n) BY FS_Interval
    <2> QED BY <2>1, FS_Subset
  <1>0. \A i \in places : i \in Nat \ {0} /\ i <= n
    OBVIOUS
  <1>2. \A i \in places : ~(i <= 0) /\ i <= n
    BY <1>0
  <1>3. {i \in places : i <= 0} = {} /\ {i \in places : i <= n} = places
    BY <1>2, Zenon
  <1> QED BY <1>1, <1>3, FS_CardinalityType, FS_EmptySet DEF Rank

\* A later place has a higher rank. (Picked)
LEMMA RankMonotone ==
    ASSUME NEW n \in Nat, NEW places \in SUBSET (1..n), NEW i \in places, NEW k \in places, i < k
    PROVE  Rank(places, i) < Rank(places, k)
  <1> DEFINE low == {j \in places : j <= i}
             high == {j \in places : j <= k}
  <1>1. IsFiniteSet(high)
    BY RankTotal, FS_Subset
  <1>0. \A j \in places : j \in Nat \ {0} /\ j <= n
    OBVIOUS
  <1>2. low \subseteq high /\ k \in high /\ k \notin low
    <2>1. \A j \in places : j <= i => j <= k
      BY <1>0
    <2>2. k <= k /\ ~(k <= i)
      BY <1>0
    <2> QED BY <2>1, <2>2, Zenon
  <1>3. Cardinality(low) < Cardinality(high)
    <2>1. low \subseteq high /\ low # high
      BY <1>2
    <2>2. Cardinality(low) <= Cardinality(high)
          /\ (Cardinality(low) = Cardinality(high) => low = high)
      BY <1>1, <2>1, FS_Subset
    <2>3. Cardinality(low) \in Nat /\ Cardinality(high) \in Nat
      BY <1>1, <2>1, FS_Subset, FS_CardinalityType
    <2> QED BY <2>1, <2>2, <2>3
  <1> QED BY <1>3 DEF Rank

\* Each rank is taken.
LEMMA RankReached ==
    ASSUME NEW n \in Nat, NEW places \in SUBSET (1..n), NEW r \in 1..Cardinality(places)
    PROVE  \E k \in places : Rank(places, k) = r
  <1> DEFINE reached == {k \in Nat : Rank(places, k) >= r}
  <1>1. n \in reached
    BY RankTotal
  <1>2. PICK k \in reached : \A i \in reached : ~(i < k)
    <2>1. \E k \in reached : \A i \in reached : <<i, k>> \notin OpToRel(<, Nat)
      BY <1>1, NatLessThanWellFounded, WFMin
    <2>2. \A i, k \in Nat : i < k => <<i, k>> \in OpToRel(<, Nat)
      BY DEF OpToRel
    <2> QED BY <2>1, <2>2
  <1>3. k # 0 /\ r \in Nat
    BY RankTotal
  <1>4. Rank(places, k - 1) < r /\ Rank(places, k - 1) \in Nat
    <2>1. CASE k = 1
      BY <1>3, <2>1, RankTotal
    <2>2. CASE k # 1
      <3>1. k - 1 \in Nat \ {0} /\ k - 1 \notin reached
        BY <1>2, <1>3, <2>2
      <3>2. Rank(places, k - 1) \in Nat
        BY <3>1, RankStep
      <3> QED BY <1>3, <3>1, <3>2
    <2> QED BY <2>1, <2>2
  <1>5. Rank(places, k) = Rank(places, k - 1) + IF k \in places THEN 1 ELSE 0
    BY <1>3, RankStep
  <1> QED BY <1>3, <1>4, <1>5

Enumerates(from, places, table, taken) ==
    /\ \A i \in DOMAIN taken : from[i] \in places /\ taken[i] = table[from[i]]
    /\ \A i, j \in DOMAIN taken : from[i] = from[j] => i = j
    /\ \A k \in places : \E i \in DOMAIN taken : from[i] = k

\* The rows picked are those of the places, each once and in their order. (Picked)
LEMMA PickedRows ==
    ASSUME NEW n \in Nat, NEW places \in SUBSET (1..n), NEW table,
           NEW taken, taken = Picked(table, places)
    PROVE  /\ DOMAIN taken = 1..Cardinality(places) /\ Cardinality(places) \in Nat
           /\ \E from : Enumerates(from, places, table, taken)
  <1> DEFINE size == Cardinality(places)
             from == [i \in 1..size |-> CHOOSE k \in places : Rank(places, k) = i]
  <1>0. \A i \in places : i \in Nat \ {0} /\ i <= n
    OBVIOUS
  <1>1. size \in Nat
    BY RankTotal
  <1>2. taken = [i \in 1..size |-> table[from[i]]]
    BY DEF Picked, Rank
  <1>3. \A i \in 1..size : from[i] \in places /\ Rank(places, from[i]) = i
    <2> SUFFICES ASSUME NEW i \in 1..size
                 PROVE  from[i] \in places /\ Rank(places, from[i]) = i
      OBVIOUS
    <2>1. \E k \in places : Rank(places, k) = i
      BY RankReached
    <2> QED BY <2>1
  <1>4. \A k \in places : \E i \in 1..size : from[i] = k
    <2> SUFFICES ASSUME NEW k \in places PROVE \E i \in 1..size : from[i] = k
      OBVIOUS
    <2>1. Rank(places, k) \in 1..size
      <3>1. k \in Nat \ {0}
        BY <1>0
      <3>2. Rank(places, k) <= size
        <4>1. {i \in places : i <= k} \in SUBSET places
          OBVIOUS
        <4> QED BY <4>1, RankTotal, FS_Subset DEF Rank
      <3>3. Rank(places, k) > 0
        <4>1. Rank(places, k - 1) \in Nat
          <5>1. k = 1 \/ k - 1 \in Nat \ {0}
            BY <3>1
          <5>2. CASE k = 1
            BY <5>2, RankTotal
          <5>3. CASE k - 1 \in Nat \ {0}
            BY <5>3, RankStep
          <5> QED BY <5>1, <5>2, <5>3
        <4>2. Rank(places, k) = Rank(places, k - 1) + IF k \in places THEN 1 ELSE 0
          BY <3>1, RankStep
        <4> QED BY <4>1, <4>2
      <3>4. Rank(places, k) \in Nat
        BY <3>1, RankStep
      <3> QED BY <1>1, <3>2, <3>3, <3>4
    <2>2. \A l \in places : Rank(places, l) = Rank(places, k) => l = k
      <3> SUFFICES ASSUME NEW l \in places, l # k PROVE Rank(places, l) # Rank(places, k)
        OBVIOUS
      <3>1. l \in Nat \ {0} /\ k \in Nat \ {0}
        BY <1>0
      <3>2. Rank(places, l) \in Nat /\ Rank(places, k) \in Nat
        BY <3>1, RankStep
      <3>3. l < k \/ k < l
        BY <3>1
      <3>4. l < k => Rank(places, l) < Rank(places, k)
        BY RankMonotone
      <3>5. k < l => Rank(places, k) < Rank(places, l)
        BY RankMonotone
      <3> QED BY <3>2, <3>3, <3>4, <3>5
    <2> QED BY <1>3, <2>1, <2>2
  <1> HIDE DEF from
  <1>5. \A i, j \in 1..size : from[i] = from[j] => i = j
    BY <1>3
  <1>6. Enumerates(from, places, table, taken)
    BY <1>2, <1>3, <1>4, <1>5 DEF Enumerates
  <1>7. DOMAIN taken = 1..size
    BY <1>2
  <1> QED BY <1>1, <1>6, <1>7

(***************************************************************************)
(* Tables                                                                  *)
(***************************************************************************)
LEMMA TableRows ==
    ASSUME NEW table \in Tables
    PROVE  /\ Len(table) \in Nat /\ DOMAIN table = 1..Len(table)
           /\ \A i \in DOMAIN table : table[i] \in Posts
           /\ \A i, j \in DOMAIN table : table[i].id = table[j].id => i = j
  BY DEF Tables

\* A row is found by its id.
LEMMA FoundAt ==
    ASSUME NEW table \in Tables, NEW id, Exists(table, id)
    PROVE  /\ At(table, id) \in DOMAIN table /\ table[At(table, id)].id = id
           /\ Find(table, id) = {At(table, id)}
  <1>1. At(table, id) \in Find(table, id)
    BY DEF At, Exists
  <1> QED BY <1>1, TableRows DEF Find

\* A row replaced by one of the same id leaves a table. (Rewrite)
LEMMA ReplacedRows ==
    ASSUME NEW table \in Tables, NEW after, DOMAIN after = DOMAIN table,
           after = [i \in DOMAIN table |-> after[i]],
           \A i \in DOMAIN table : after[i] \in Posts /\ after[i].id = table[i].id
    PROVE  after \in Tables
  <1>1. after \in Seq(Posts)
    BY TableRows
  <1> QED BY <1>1, TableRows DEF Tables

\* A row appended under an id that no other row has leaves a table. (Insert)
LEMMA AppendedRow ==
    ASSUME NEW table \in Tables, NEW row \in Posts, ~Exists(table, row.id)
    PROVE  Append(table, row) \in Tables
  <1> DEFINE after == Append(table, row)
  <1>1. after \in Seq(Posts) /\ DOMAIN after = 1..(Len(table) + 1)
    BY DEF Tables
  <1>2. \A i \in DOMAIN after : after[i] = IF i \in DOMAIN table THEN table[i] ELSE row
    BY TableRows
  <1>3. \A i \in DOMAIN after : i \in DOMAIN table \/ i = Len(table) + 1
    BY <1>1, TableRows
  <1>4. \A i \in DOMAIN table : table[i].id # row.id
    BY DEF Exists, Find
  <1> HIDE DEF after
  <1>5. \A i, j \in DOMAIN after : after[i].id = after[j].id => i = j
    BY <1>2, <1>3, <1>4, TableRows
  <1> QED BY <1>1, <1>5 DEF Tables, after

\* The rows picked from a table are a table. (Delete, DeleteMany)
LEMMA PickedTable ==
    ASSUME NEW table \in Tables, NEW places \in SUBSET DOMAIN table,
           NEW taken, taken = Picked(table, places)
    PROVE  /\ taken \in Tables
           /\ \A i \in DOMAIN taken : \E k \in places : taken[i] = table[k]
           /\ \A k \in places : \E i \in DOMAIN taken : taken[i] = table[k]
  <1>1. PICK n \in Nat : places \in SUBSET (1..n)
    BY TableRows
  <1>2. DOMAIN taken = 1..Cardinality(places) /\ Cardinality(places) \in Nat
    BY <1>1, PickedRows
  <1>3. PICK from : Enumerates(from, places, table, taken)
    BY <1>1, PickedRows
  <1>4. taken = [i \in 1..Cardinality(places) |-> taken[i]]
    BY <1>2 DEF Picked
  <1>5. \A i \in DOMAIN taken : from[i] \in DOMAIN table
    BY <1>3 DEF Enumerates
  <1>6. taken \in Seq(Posts)
    <2>1. \A i \in 1..Cardinality(places) : taken[i] \in Posts
      BY <1>2, <1>3, <1>5, TableRows DEF Enumerates
    <2> QED BY <1>2, <1>4, <2>1
  <1>7. taken \in Tables
    <2>1. ASSUME NEW i \in DOMAIN taken, NEW j \in DOMAIN taken, taken[i].id = taken[j].id
          PROVE  i = j
      <3>1. /\ table[from[i]].id = table[from[j]].id
            /\ from[i] \in DOMAIN table /\ from[j] \in DOMAIN table
        BY <1>3, <1>5, <2>1 DEF Enumerates
      <3> QED BY <1>3, <3>1, TableRows DEF Enumerates
    <2> QED BY <1>6, <2>1 DEF Tables
  <1> QED BY <1>3, <1>7 DEF Enumerates

(***************************************************************************)
(* Calls                                                                   *)
(***************************************************************************)
Outcomes == {"done", "created", "unreadable", "refused", "invalid", "notFound", "conflict",
             "denied"}

\* what the routes and the validation of bodies make sure of
Callable(op, q) ==
    /\ q.by \in Users \cup {Nobody} /\ q.text \in Texts
    /\ op \in {"create", "upsert"} => q.id \in Ids
    /\ op = "give" => q.owner # Absent

\* Where the secrets of a row come from.
Origin(c, op, q, table, row) ==
    \/ \E j \in DOMAIN table : /\ row.id = table[j].id
                             /\ row.secret = table[j].secret /\ row.pass = table[j].pass
    \/ row.secret = Seal(c, Plain(q.text)) /\ row.pass = Hash(Plain(q.text))
    \/ op = "updateMany" /\ row.secret = Plain(q.text)

Keeps(c, op, q, table, result) ==
    /\ result.posts \in Tables /\ result.outcome \in Outcomes
    /\ \A i \in DOMAIN result.posts : Origin(c, op, q, table, result.posts[i])

\* What is stored are values, sealed and hashed. (preprocessWritePayload)
LEMMA StoredValues ==
    ASSUME NEW c \in Configs, NEW t \in Texts
    PROVE  /\ Plain(t) \in Values /\ Seal(c, Plain(t)) \in Values /\ Hash(Plain(t)) \in Values
           /\ Stored(c, t) = [secret |-> Seal(c, Plain(t)), pass |-> Hash(Plain(t))]
  BY DEF Plain, Seal, Hash, Values, Configs, Stored

\* A call that is refused leaves the rows. (Refuse)
LEMMA RefuseKeeps ==
    ASSUME NEW c, NEW op, NEW q, NEW table \in Tables, NEW outcome \in Outcomes
    PROVE  Keeps(c, op, q, table, Refuse(table, outcome))
  BY DEF Refuse, Keeps, Origin

\* A row created has an id of its own and sealed texts. (doCreate)
LEMMA InsertKeeps ==
    ASSUME NEW c \in Configs, NEW op, NEW q, NEW table \in Tables, q.by \in Users \cup {Nobody},
           q.text \in Texts, q.id \in Ids, NEW owner, owner # Absent
    PROVE  Keeps(c, op, q, table, Insert(table, c, q.by, q.id, owner, q.text))
  <1> DEFINE row == Row(q.id, owner, Stored(c, q.text))
             after == Append(table, row)
  <1>1. ASSUME ~Exists(table, q.id), Known(owner)
        PROVE  /\ after \in Tables
               /\ \A i \in DOMAIN after : Origin(c, op, q, table, after[i])
    <2>1. row \in Posts /\ row.id = q.id
      BY <1>1, StoredValues DEF Row, Posts, Known
    <2>2. after \in Tables
      BY <1>1, <2>1, AppendedRow
    <2>3. \A i \in DOMAIN after : after[i] = row \/ (i \in DOMAIN table /\ after[i] = table[i])
      BY TableRows
    <2>4. row.secret = Seal(c, Plain(q.text)) /\ row.pass = Hash(Plain(q.text))
      BY StoredValues DEF Row
    <2> HIDE DEF row, after
    <2> QED BY <2>2, <2>3, <2>4 DEF Origin
  <1> HIDE DEF row, after
  <1>2. \A outcome \in Outcomes : Keeps(c, op, q, table, Refuse(table, outcome))
    BY RefuseKeeps
  <1>3. ASSUME NEW outcome \in Outcomes, ~Exists(table, q.id), Known(owner)
        PROVE  Keeps(c, op, q, table, [posts |-> after, outcome |-> outcome])
    BY <1>1, <1>3 DEF Keeps
  <1> QED BY <1>2, <1>3 DEF Insert, ReadBack, Outcomes, row, after

\* A row that is rewritten keeps its id. (doUpdate)
LEMMA RewriteKeeps ==
    ASSUME NEW c \in Configs, NEW op, NEW q, NEW table \in Tables, NEW by, NEW i \in DOMAIN table,
           NEW row, row.id = table[i].id, Known(row.owner) => row \in Posts,
           Origin(c, op, q, table, row)
    PROVE  Keeps(c, op, q, table, Rewrite(table, c, by, i, row))
  <1> DEFINE after == [table EXCEPT ![i] = row]
  <1>1. ASSUME NEW outcome \in Outcomes, Known(row.owner)
        PROVE  Keeps(c, op, q, table, [posts |-> after, outcome |-> outcome])
    <2>1. \A k \in DOMAIN table : after[k] = IF k = i THEN row ELSE table[k]
      BY TableRows
    <2>2. DOMAIN after = DOMAIN table /\ after = [k \in DOMAIN table |-> after[k]]
      BY TableRows
    <2> HIDE DEF after
    <2>3. after \in Tables
      BY <1>1, <2>1, <2>2, TableRows, ReplacedRows
    <2>4. \A k \in DOMAIN after : Origin(c, op, q, table, after[k])
      BY <2>1, <2>2 DEF Origin
    <2> QED BY <2>3, <2>4 DEF Keeps
  <1>2. \A outcome \in Outcomes : Keeps(c, op, q, table, Refuse(table, outcome))
    BY RefuseKeeps
  <1> HIDE DEF after
  <1> QED BY <1>1, <1>2 DEF Rewrite, ReadBack, Outcomes, after

\* An update stores sealed texts. (update)
LEMMA UpdateKeeps ==
    ASSUME NEW c \in Configs, NEW op, NEW q, NEW table \in Tables, q.text \in Texts
    PROVE  Keeps(c, op, q, table, Update(table, c, q))
  <1> DEFINE i == At(table, q.id)
             row == Row(q.id, OwnerGiven(q, table[i]), Stored(c, q.text))
  <1>1. ASSUME Exists(table, q.id)
        PROVE  Keeps(c, op, q, table, Rewrite(table, c, q.by, i, row))
    <2>1. i \in DOMAIN table /\ table[i].id = q.id
      BY <1>1, FoundAt
    <2>2. table[i] \in Posts
      BY <2>1, TableRows
    <2>3. row = [id |-> q.id, owner |-> OwnerGiven(q, table[i]),
                 secret |-> Seal(c, Plain(q.text)), pass |-> Hash(Plain(q.text))]
      BY StoredValues DEF Row
    <2> HIDE DEF i, row
    <2>4. Known(row.owner) => row \in Posts
      BY <2>1, <2>2, <2>3, StoredValues, Distinct DEF Known, Posts, OwnerGiven
    <2>5. Origin(c, op, q, table, row)
      BY <2>3 DEF Origin
    <2> QED BY <2>1, <2>3, <2>4, <2>5, RewriteKeeps
  <1>2. \A outcome \in Outcomes : Keeps(c, op, q, table, Refuse(table, outcome))
    BY RefuseKeeps
  <1> QED BY <1>1, <1>2 DEF Update, Outcomes

\* A change of owner touches no text. (update with connect or disconnect)
LEMMA GiveKeeps ==
    ASSUME NEW c \in Configs, NEW op, NEW q, NEW table \in Tables, q.owner # Absent
    PROVE  Keeps(c, op, q, table, Give(table, c, q))
  <1> DEFINE i == At(table, q.id)
             row == [table[i] EXCEPT !.owner = q.owner]
  <1>1. ASSUME Exists(table, q.id)
        PROVE  Keeps(c, op, q, table, Rewrite(table, c, q.by, i, row))
    <2>1. i \in DOMAIN table /\ table[i] \in Posts
      BY <1>1, FoundAt, TableRows
    <2>2. /\ row.id = table[i].id /\ row.secret = table[i].secret
          /\ row.pass = table[i].pass /\ row.owner = q.owner
      BY <2>1 DEF Posts
    <2>3. Known(row.owner) => row \in Posts
      BY <2>1, <2>2 DEF Known, Posts
    <2> HIDE DEF i, row
    <2>4. Origin(c, op, q, table, row)
      BY <2>1, <2>2 DEF Origin
    <2> QED BY <2>1, <2>2, <2>3, <2>4, RewriteKeeps
  <1>2. \A outcome \in Outcomes : Keeps(c, op, q, table, Refuse(table, outcome))
    BY RefuseKeeps
  <1> QED BY <1>1, <1>2 DEF Give, Outcomes

\* updateMany stores its texts as they were given. (updateMany)
LEMMA UpdateManyKeeps ==
    ASSUME NEW c \in Configs, NEW q, NEW table \in Tables, q.text \in Texts
    PROVE  Keeps(c, "updateMany", q, table, UpdateMany(table, c, q))
  <1> DEFINE edited(row) == [row EXCEPT !.secret = Plain(q.text), !.pass = Plain(q.text)]
             after == [i \in DOMAIN table |-> IF MayWrite(q.by, table[i])
                                              THEN edited(table[i]) ELSE table[i]]
  <1>1. \A row \in Posts : /\ edited(row) \in Posts /\ edited(row).id = row.id
                           /\ edited(row).secret = Plain(q.text)
    BY StoredValues DEF Posts
  <1> HIDE DEF edited
  <1>2. after \in Tables
    BY <1>1, TableRows, ReplacedRows
  <1>3. \A i \in DOMAIN after : Origin(c, "updateMany", q, table, after[i])
    BY <1>1, TableRows DEF Origin
  <1>4. Keeps(c, "updateMany", q, table, Refuse(table, "invalid"))
    BY RefuseKeeps DEF Outcomes
  <1>5. Keeps(c, "updateMany", q, table, [posts |-> after, outcome |-> "done"])
    BY <1>2, <1>3 DEF Keeps, Outcomes
  <1> QED BY <1>4, <1>5 DEF UpdateMany, edited

\* Rows that remain after a deletion are as before. (delete, deleteMany)
LEMMA RemovalKeeps ==
    ASSUME NEW c, NEW op, NEW q, NEW table \in Tables, NEW places \in SUBSET DOMAIN table
    PROVE  Keeps(c, op, q, table, [posts |-> Picked(table, places), outcome |-> "done"])
  BY PickedTable DEF Keeps, Outcomes, Origin

\* Connecting and disconnecting posts touches no text. (updateRelation)
LEMMA RelateKeeps ==
    ASSUME NEW c, NEW op, NEW q, NEW table \in Tables, NEW verb
    PROVE  Keeps(c, op, q, table, Relate(table, c, q, verb))
  <1> DEFINE mine(id) == \E i \in Find(table, id) : table[i].owner = q.user
             touched == {id \in q.ids : verb # "disconnect" \/ mine(id)}
             owner(row) ==
                        IF verb # "disconnect" /\ row.id \in touched THEN q.user
                        ELSE IF verb = "set" /\ row.owner = q.user THEN Nobody
                        ELSE IF verb = "disconnect" /\ row.id \in touched THEN Nobody
                        ELSE row.owner
             after == [i \in DOMAIN table |-> [table[i] EXCEPT !.owner = owner(table[i])]]
  <1>1. ASSUME q.user \in Users
        PROVE  Keeps(c, op, q, table, [posts |-> after, outcome |-> "done"])
    <2>1. \A i \in DOMAIN table : owner(table[i]) \in Users \cup {Nobody}
      BY <1>1, TableRows DEF Posts
    <2> HIDE DEF owner
    <2>2. \A i \in DOMAIN table : /\ after[i] \in Posts /\ after[i].id = table[i].id
                                 /\ after[i].secret = table[i].secret
                                 /\ after[i].pass = table[i].pass
      BY <2>1, TableRows DEF Posts
    <2>3. after \in Tables
      BY <2>2, ReplacedRows
    <2> QED BY <2>2, <2>3 DEF Keeps, Outcomes, Origin
  <1>2. \A outcome \in Outcomes : Keeps(c, op, q, table, Refuse(table, outcome))
    BY RefuseKeeps
  <1>3. Relate(table, c, q, verb) \in {Refuse(table, outcome) : outcome \in Outcomes}
        \/ (q.user \in Users /\ Relate(table, c, q, verb) = [posts |-> after, outcome |-> "done"])
    BY DEF Relate, Outcomes
  <1> QED BY <1>1, <1>2, <1>3

Operations == {"create", "upsert", "update", "updateMany", "delete", "deleteMany", "findUnique",
               "give", "connect", "disconnect", "set"}

\* A request is one of the operations, or none. (handleRequest)
LEMMA OperationKinds == ASSUME NEW q PROVE Operation(q) \in Operations \cup {NoOperation}
  BY DEF Operation, Operations, RestOperation, RpcMethods, NoOperation

\* Every call leaves a table of rows that were there or were stored by it. (Perform)
LEMMA PerformKeeps ==
    ASSUME NEW c \in Configs, NEW op \in Operations, NEW q, NEW table \in Tables, Callable(op, q)
    PROVE  Keeps(c, op, q, table, Perform(table, c, op, q))
  <1> DEFINE result == Perform(table, c, op, q)
  <1>0. \A outcome \in Outcomes : Keeps(c, op, q, table, Refuse(table, outcome))
    BY RefuseKeeps
  <1>1. CASE op \in {"create", "upsert"}
    <2>1. q.id \in Ids
      BY <1>1 DEF Callable
    <2>2. ASSUME ~Undefaulted(q)
          PROVE  Keeps(c, op, q, table,
                       Insert(table, c, q.by, q.id, WithDefaultAuth(q.by, q.owner), q.text))
      <3>1. WithDefaultAuth(q.by, q.owner) # Absent
        BY <2>2, Distinct DEF Callable, WithDefaultAuth, Undefaulted
      <3> QED BY <2>1, <3>1, InsertKeeps DEF Callable
    <2>3. Keeps(c, op, q, table, Update(table, c, q))
      BY UpdateKeeps DEF Callable
    <2> QED BY <1>0, <1>1, <2>2, <2>3 DEF Perform, Create, Upsert, Outcomes
  <1>2. CASE op = "update"
    BY <1>2, UpdateKeeps DEF Perform, Callable
  <1>3. CASE op = "updateMany"
    BY <1>3, UpdateManyKeeps DEF Perform, Callable
  <1>4. CASE op = "delete"
    <2>1. \A i : Keeps(c, op, q, table,
                       [posts |-> Picked(table, DOMAIN table \ {i}), outcome |-> "done"])
      BY RemovalKeeps
    <2> QED BY <1>0, <1>4, <2>1 DEF Perform, Delete, Outcomes
  <1>5. CASE op = "deleteMany"
    <2>1. {i \in DOMAIN table : ~MayWrite(q.by, table[i])} \in SUBSET DOMAIN table
      OBVIOUS
    <2> QED BY <1>5, <2>1, RemovalKeeps DEF Perform, DeleteMany
  <1>6. CASE op = "findUnique"
    BY <1>0, <1>6 DEF Perform, FindUnique, Outcomes
  <1>7. CASE op = "give"
    BY <1>7, GiveKeeps DEF Perform, Callable
  <1>8. CASE op \in {"connect", "disconnect", "set"}
    BY <1>8, RelateKeeps DEF Perform
  <1> QED BY <1>1, <1>2, <1>3, <1>4, <1>5, <1>6, <1>7, <1>8 DEF Operations

\* Splitting an id changes nothing else of a request. (makeIdFilter)
LEMMA AddressedFields ==
    ASSUME NEW q \in Requests
    PROVE  /\ Addressed(q).by = q.by /\ Addressed(q).text = q.text
           /\ Addressed(q).owner = q.owner /\ Addressed(q).user = q.user
           /\ Operation(q) \in {"create", "upsert"} => Addressed(q) = q
  BY RequestTypes DEF Addressed

\* What reaches the client has passed the routes and the validation of bodies.
LEMMA RequestsAreCallable ==
    ASSUME NEW q \in Requests, Operation(q) # NoOperation, ~BadBody(q)
    PROVE  Callable(Operation(q), Addressed(q))
  <1>1. q.by \in Users \cup {Nobody} /\ q.text \in Texts /\ q.id \in Ids
    BY RequestTypes DEF Texts, Ids
  <1>2. Operation(q) = "give" => q.owner # Absent
    BY RequestTypes DEF BadBody, Operation, RpcMethods, NoOperation
  <1> QED BY <1>1, <1>2, AddressedFields DEF Callable

\* Every request leaves a table of rows that were there or were stored by it.
LEMMA HandlingKeeps ==
    ASSUME NEW q \in Requests, NEW result, result = Result(q), config \in Configs, posts \in Tables
    PROVE  Keeps(config, Operation(q), q, posts, result)
  <1>0. \A outcome \in Outcomes : Keeps(config, Operation(q), q, posts, Refuse(posts, outcome))
    BY RefuseKeeps
  <1>1. ASSUME Operation(q) # NoOperation, ~BadBody(q)
        PROVE  Keeps(config, Operation(q), q, posts,
                     Perform(posts, config, Operation(q), Addressed(q)))
    <2>1. Operation(q) \in Operations
      BY <1>1, OperationKinds
    <2>2. Callable(Operation(q), Addressed(q))
      BY <1>1, RequestsAreCallable
    <2>3. Keeps(config, Operation(q), Addressed(q), posts,
                Perform(posts, config, Operation(q), Addressed(q)))
      BY <2>1, <2>2, PerformKeeps
    <2> QED BY <2>3, AddressedFields DEF Keeps, Origin
  <1> QED BY <1>0, <1>1 DEF Result, Outcomes

(***************************************************************************)
(* Types                                                                   *)
(***************************************************************************)
\* The statuses that are answered. (ERROR_STATUS_MAPPING)
LEMMA StatusType ==
    ASSUME NEW q, NEW outcome PROVE Status(q, outcome) \in {200, 201, 400, 403, 404, 422}
  BY DEF Status

\* The rows keep their types, and no two get the same id. (doCreate)
THEOREM WebTypeCorrect == Spec => []TypeOK
  <1>1. Init => TypeOK
    <2> SUFFICES ASSUME Init PROVE TypeOK
      OBVIOUS
    <2>1. config \in Configs /\ config.seal \in config.open
      BY SeedTypes DEF Init, Configs
    <2>2. \A i \in DOMAIN Seeds : posts[i] \in Posts /\ posts[i].id = Seeds[i].id
      <3> SUFFICES ASSUME NEW i \in DOMAIN Seeds
                   PROVE  posts[i] \in Posts /\ posts[i].id = Seeds[i].id
        OBVIOUS
      <3>1. posts[i] = Row(Seeds[i].id, Seeds[i].owner, Stored(config, Seeds[i].text))
        BY DEF Init
      <3>2. Seeds[i].text \in Texts /\ Seeds[i].id \in Ids
        BY DEF Texts, Ids
      <3> QED BY <2>1, <3>1, <3>2, SeedTypes, StoredValues DEF Row, Posts
    <2>3. DOMAIN posts = 1..Len(Seeds) /\ posts = [i \in 1..Len(Seeds) |-> posts[i]]
      BY SeedTypes DEF Init
    <2>4. posts \in Seq(Posts)
      BY <2>2, <2>3, SeedTypes
    <2>5. posts \in Tables
      BY <2>2, <2>3, <2>4, SeedTypes DEF Tables
    <2> QED BY <2>1, <2>5 DEF TypeOK, Init
  <1>2. TypeOK /\ [Next]_vars => TypeOK'
    <2> SUFFICES ASSUME TypeOK, [Next]_vars PROVE TypeOK'
      OBVIOUS
    <2>1. ASSUME NEW q \in Requests, Handle(q) PROVE TypeOK'
      <3>1. posts' \in Tables
        BY <2>1, HandlingKeeps DEF Handle, Keeps, TypeOK
      <3>2. answer' \in Answers
        BY <2>1, StatusType DEF Handle, Answers
      <3> QED BY <2>1, <3>1, <3>2 DEF TypeOK, Handle
    <2>2. CASE Redeploy
      BY <2>2 DEF Redeploy, TypeOK, Configs
    <2>3. CASE UNCHANGED <<posts, config, answer, handled>>
      BY <2>3 DEF TypeOK
    <2> QED BY <2>1, <2>2, <2>3 DEF Next, vars, Start, FindMany, Count, FindRelated, FollowNext,
               FollowLast, End
  <1> QED BY <1>1, <1>2, PTL DEF Spec

(***************************************************************************)
(* Secrets                                                                 *)
(***************************************************************************)
\* The decrypter has the key of every text that is sealed.
KeysAtHand ==
    config.kept => \A i \in DOMAIN posts : posts[i].secret.coat \in config.open \cup {"none"}

\* As long as no key is dropped the decrypter has the key of every secret. (Redeploy)
LEMMA KeysStayAtHand == Spec => []KeysAtHand
  <1>1. Init => KeysAtHand
    <2> SUFFICES ASSUME Init, NEW i \in DOMAIN posts
                 PROVE  posts[i].secret.coat \in config.open \cup {"none"}
      BY DEF KeysAtHand
    <2>1. posts[i] = Row(Seeds[i].id, Seeds[i].owner, Stored(config, Seeds[i].text))
      BY DEF Init
    <2> QED BY <2>1 DEF Init, Row, Stored, Seal, Plain
  <1>2. TypeOK /\ KeysAtHand /\ [Next]_vars => KeysAtHand'
    <2> SUFFICES ASSUME TypeOK, KeysAtHand, [Next]_vars, config'.kept, NEW i \in DOMAIN posts'
                 PROVE  posts'[i].secret.coat \in config'.open \cup {"none"}
      BY DEF KeysAtHand
    <2>1. ASSUME NEW q \in Requests, Handle(q)
          PROVE  posts'[i].secret.coat \in config'.open \cup {"none"}
      <3>1. Origin(config, Operation(q), q, posts, posts'[i])
        BY <2>1, HandlingKeeps DEF Handle, Keeps, TypeOK
      <3>2. config' = config
        BY <2>1 DEF Handle
      <3> QED BY <3>1, <3>2 DEF Origin, KeysAtHand, Seal, Plain, TypeOK, Configs
    <2>2. CASE Redeploy
      <3>1. PICK seal, old, healthy :
                config' = [seal |-> seal, open |-> {seal} \cup old, healthy |-> healthy,
                           deploys |-> config.deploys + 1,
                           kept |-> config.kept /\ config.open \subseteq {seal} \cup old]
        BY <2>2, Zenon DEF Redeploy
      <3>2. config'.kept = (config.kept /\ config.open \subseteq {seal} \cup old)
            /\ config'.open = {seal} \cup old
        BY <3>1, Zenon
      <3>3. config.kept /\ config.open \subseteq config'.open
        BY <3>2, Zenon
      <3> QED BY <2>2, <3>3 DEF Redeploy, KeysAtHand
    <2>3. CASE UNCHANGED <<posts, config, answer, handled>>
      BY <2>3 DEF KeysAtHand
    <2> QED BY <2>1, <2>2, <2>3 DEF Next, vars, Start, FindMany, Count, FindRelated, FollowNext,
               FollowLast, End
  <1> QED BY <1>1, <1>2, WebTypeCorrect, PTL DEF Spec

\* While no key was dropped, secrets read as the texts they were given. (doPostProcess)
THEOREM SecretsAreReadable == Spec => []ReadsShowWhatWasGiven
  <1>1. KeysAtHand => ReadsShowWhatWasGiven
    BY DEF KeysAtHand, ReadsShowWhatWasGiven, Open, Plain
  <1> QED BY <1>1, KeysStayAtHand, PTL

\* Whatever is written through whichever layers is sealed. (_encrypt, preprocessWritePayload)
THEOREM WritesAreSealed == Spec => SecretsAreSealed
  <1> DEFINE sealed ==
        config.healthy /\ handled' # handled /\ Operation(answer'.req) # "updateMany" =>
        \A i \in DOMAIN posts' :
            \/ \E j \in DOMAIN posts : /\ posts[j].secret = posts'[i].secret
                                       /\ posts[j].pass = posts'[i].pass
                                       /\ posts[j].id = posts'[i].id
            \/ /\ posts'[i].secret.coat = config.seal \/ posts'[i].secret.text = Empty
               /\ posts'[i].pass.coat = "hash"
  <1>1. TypeOK /\ [Next]_vars => [sealed]_vars
    <2> SUFFICES ASSUME TypeOK, [Next]_vars, handled' # handled PROVE sealed
      BY DEF vars
    <2>1. PICK q \in Requests : Handle(q)
      BY DEF Next, vars, Redeploy, Start, FindMany, Count, FindRelated, FollowNext, FollowLast, End
    <2>2. answer'.req = q
      BY <2>1 DEF Handle
    <2>3. \A i \in DOMAIN posts' : Origin(config, Operation(q), q, posts, posts'[i])
      BY <2>1, HandlingKeeps DEF Handle, Keeps, TypeOK
    <2> SUFFICES ASSUME config.healthy, Operation(q) # "updateMany", NEW i \in DOMAIN posts'
                 PROVE  \/ \E j \in DOMAIN posts : /\ posts[j].secret = posts'[i].secret
                                                   /\ posts[j].pass = posts'[i].pass
                                                   /\ posts[j].id = posts'[i].id
                        \/ /\ posts'[i].secret.coat = config.seal \/ posts'[i].secret.text = Empty
                           /\ posts'[i].pass.coat = "hash"
      BY <2>2
    <2> QED BY <2>3 DEF Origin, Seal, Hash, Plain, TypeOK, Configs
  <1> QED BY <1>1, WebTypeCorrect, PTL DEF Spec, SecretsAreSealed

(***************************************************************************)
(* The walk                                                                *)
(***************************************************************************)
\* The proofs about walks, of the lists that the requests leave.
Walks == INSTANCE PagedWalkProofs WITH
            Item <- Ids, list <- Listed(posts), others <- Unlisted(posts)

\* The abstract walk pages by the same operators as the handlers. (makePaginator)
LEMMA PagingIsPaging ==
    ASSUME NEW w, NEW q, NEW l, NEW m, NEW related, NEW t, NEW fewer
    PROVE  /\ P!Idle = Idle /\ P!NotYet = NotYet
           /\ P!Ask(q, l) = Ask(q, l) /\ P!AskPlainly(related, l) = AskPlainly(related, l)
           /\ P!FoundPage(w, l) = FoundPage(w, l) /\ P!Counted(w, t) = Counted(w, t)
           /\ (P!Answered(w) <=> Answered(w)) /\ (P!MayGoOn(w) <=> MayGoOn(w))
           /\ P!GoOn(w) = GoOn(w) /\ P!LastPage(w) = LastPage(w) /\ P!Over(w) = Over(w)
           /\ P!Disturbed(w, l, m, fewer) = Disturbed(w, l, m, fewer)
  <1>1. P!Disturbed(w, l, m, fewer) = Disturbed(w, l, m, fewer)
    BY DEF P!Disturbed, Disturbed, P!Grows, Grows
  <1> QED BY <1>1 DEF
         Idle, P!Idle, NotYet, P!NotYet, Ask, P!Ask, AskPlainly, P!AskPlainly, Asked, P!Asked,
         Offset, P!Offset, Limit, P!Limit, PageSizeOption, P!PageSizeOption, FoundPage,
         P!FoundPage, Window, P!Window, Ordered, P!Ordered, Reversed, P!Reversed, Items,
         P!Items, Counted, P!Counted, Answered, P!Answered, MayGoOn, P!MayGoOn, HasNext,
         P!HasNext, HasPrev, P!HasPrev, GoOn, P!GoOn, NextPage, P!NextPage, PrevPage,
         P!PrevPage, Follow, P!Follow, LastPage, P!LastPage, LastOffset, P!LastOffset, Over,
         P!Over

\* So does the walk that PagedWalkProofs is about. (makePaginator)
LEMMA PagingIsWalking ==
    ASSUME NEW w, NEW q, NEW l, NEW m, NEW related, NEW t, NEW fewer
    PROVE  /\ Walks!Idle = Idle /\ Walks!NotYet = NotYet
           /\ Walks!Ask(q, l) = Ask(q, l) /\ Walks!AskPlainly(related, l) = AskPlainly(related, l)
           /\ Walks!FoundPage(w, l) = FoundPage(w, l) /\ Walks!Counted(w, t) = Counted(w, t)
           /\ (Walks!Answered(w) <=> Answered(w)) /\ (Walks!MayGoOn(w) <=> MayGoOn(w))
           /\ Walks!GoOn(w) = GoOn(w) /\ Walks!LastPage(w) = LastPage(w) /\ Walks!Over(w) = Over(w)
           /\ Walks!Disturbed(w, l, m, fewer) = Disturbed(w, l, m, fewer)
  <1>1. Walks!Disturbed(w, l, m, fewer) = Disturbed(w, l, m, fewer)
    BY DEF Walks!Disturbed, Disturbed, Walks!Grows, Grows
  <1> QED BY <1>1 DEF
         Idle, Walks!Idle, NotYet, Walks!NotYet, Ask, Walks!Ask, AskPlainly, Walks!AskPlainly,
         Asked, Walks!Asked, Offset, Walks!Offset, Limit, Walks!Limit, PageSizeOption,
         Walks!PageSizeOption, FoundPage, Walks!FoundPage, Window, Walks!Window, Ordered,
         Walks!Ordered, Reversed, Walks!Reversed, Items, Walks!Items, Counted, Walks!Counted,
         Answered, Walks!Answered, MayGoOn, Walks!MayGoOn, HasNext, Walks!HasNext, HasPrev,
         Walks!HasPrev, GoOn, Walks!GoOn, NextPage, Walks!NextPage, PrevPage, Walks!PrevPage,
         Follow, Walks!Follow, LastPage, Walks!LastPage, LastOffset, Walks!LastOffset, Over,
         Walks!Over

\* The list that is walked has no id twice. (processCollectionRead)
LEMMA ListedType ==
    ASSUME NEW table \in Tables
    PROVE  Listed(table) \in P!Lists /\ Unlisted(table) \in Nat
  <1>1. Listed(table) \in P!Lists
    <2> DEFINE places == {i \in DOMAIN table : /\ table[i].owner = Walker
                                             /\ table[i].id \in Wanted}
    <2>1. PICK found : found = Picked(table, places)
      OBVIOUS
    <2>2. found \in Tables
      BY <2>1, PickedTable
    <2>3. Listed(table) = [i \in DOMAIN found |-> found[i].id]
      BY <2>1 DEF Listed
    <2>4. \A i \in DOMAIN found : found[i].id \in Ids
      BY <2>2, TableRows DEF Posts
    <2>5. Listed(table) \in Seq(Ids) /\ Len(Listed(table)) = Len(found)
      BY <2>2, <2>3, <2>4, TableRows
    <2>6. ASSUME NEW i \in 1..Len(Listed(table)), NEW j \in 1..Len(Listed(table)),
                 Listed(table)[i] = Listed(table)[j]
          PROVE  i = j
      BY <2>2, <2>3, <2>5, <2>6, TableRows
    <2> QED BY <2>5, <2>6 DEF P!Lists
  <1>2. Unlisted(table) \in Nat
    <2> DEFINE rest == {i \in DOMAIN table : table[i].owner = Walker /\ table[i].id \notin Wanted}
    <2>1. IsFiniteSet(DOMAIN table)
      BY TableRows, FS_Interval
    <2>2. rest \in SUBSET DOMAIN table
      OBVIOUS
    <2>3. IsFiniteSet(rest)
      BY <2>1, <2>2, FS_Subset
    <2> QED BY <2>3, FS_CardinalityType DEF Unlisted
  <1> QED BY <1>1, <1>2

\* The handlers start as PagedWalk does.
LEMMA WalkStarts == TypeOK /\ Init => P!Init
  BY ListedType, PagingIsPaging DEF TypeOK, Init, P!Init

\* Every step of the handlers is a step of PagedWalk, or none of its own.
LEMMA StepsArePaging == TypeOK /\ TypeOK' /\ [Next]_vars => [P!Next]_(P!vars)
  <1> SUFFICES ASSUME TypeOK, TypeOK', [Next]_vars PROVE P!Next \/ UNCHANGED P!vars
    OBVIOUS
  <1>0. ASSUME UNCHANGED posts
        PROVE  Listed(posts)' = Listed(posts) /\ Unlisted(posts)' = Unlisted(posts)
    BY <1>0
  <1>1. ASSUME NEW q \in Requests, Handle(q) PROVE P!Change
    BY <1>1, ListedType, PagingIsPaging DEF TypeOK, Handle, P!Change
  <1>2. CASE Redeploy \/ UNCHANGED vars
    BY <1>0, <1>2 DEF Redeploy, vars, P!vars
  <1>3. CASE Start
    BY <1>0, <1>3, PagingIsPaging DEF Start, P!Start, P!Next
  <1>4. CASE FindMany \/ Count \/ FindRelated
    BY <1>0, <1>4, PagingIsPaging DEF FindMany, Count, FindRelated, P!FindMany, P!Count,
        P!FindRelated, P!Next
  <1>5. CASE FollowNext \/ FollowLast \/ End
    BY <1>0, <1>5, PagingIsPaging DEF FollowNext, FollowLast, End, P!FollowLink, P!FollowLast,
        P!End, P!Next
  <1> QED BY <1>1, <1>2, <1>3, <1>4, <1>5 DEF Next, P!Next

\* The handlers page as PagedWalk promises. (getPagination, makePaginator)
THEOREM HandlersImplementPagedWalk == Spec => ImplementsPagedWalk
  BY WalkStarts, StepsArePaging, WebTypeCorrect, PTL DEF Spec, P!Spec, ImplementsPagedWalk

\* PagedWalk and its instance among the theorems take the same steps.
LEMMA SameSteps ==
    /\ P!Init <=> Walks!Init
    /\ P!Next <=> Walks!Next
    /\ UNCHANGED P!vars <=> UNCHANGED Walks!vars
  <1>1. P!Init <=> Walks!Init
    BY PagingIsPaging, PagingIsWalking DEF P!Init, Walks!Init, P!Lists, Walks!Lists
  <1>2. P!Start <=> Walks!Start
    BY PagingIsPaging, PagingIsWalking DEF P!Start, Walks!Start
  <1>3. P!FindMany <=> Walks!FindMany
    BY PagingIsPaging, PagingIsWalking, Zenon DEF P!FindMany, Walks!FindMany
  <1>4. P!Count <=> Walks!Count
    BY PagingIsPaging, PagingIsWalking, Zenon DEF P!Count, Walks!Count
  <1>5. P!FindRelated <=> Walks!FindRelated
    <2> DEFINE total == Len(Listed(posts)) + Unlisted(posts)
    <2>1. P!Counted(P!FoundPage(walk, Listed(posts)), total)
            = Walks!Counted(Walks!FoundPage(walk, Listed(posts)), total)
      BY PagingIsPaging, PagingIsWalking
    <2> QED BY <2>1, PagingIsPaging, PagingIsWalking DEF P!FindRelated, Walks!FindRelated
  <1>6. P!FollowLink <=> Walks!FollowLink
    BY PagingIsPaging, PagingIsWalking, Zenon DEF P!FollowLink, Walks!FollowLink
  <1>7. P!FollowLast <=> Walks!FollowLast
    BY PagingIsPaging, PagingIsWalking, Zenon DEF P!FollowLast, Walks!FollowLast
  <1>8. P!End <=> Walks!End
    BY PagingIsPaging, PagingIsWalking, Zenon DEF P!End, Walks!End
  <1>9. P!Change <=> Walks!Change
    <2>1. P!Lists = Walks!Lists
      BY DEF P!Lists, Walks!Lists
    <2>2. \A l, fewer : P!Disturbed(walk, Listed(posts), l, fewer)
                        = Walks!Disturbed(walk, Listed(posts), l, fewer)
      BY PagingIsPaging, PagingIsWalking
    <2> QED BY <2>1, <2>2, Zenon DEF P!Change, Walks!Change
  <1> QED BY <1>1, <1>2, <1>3, <1>4, <1>5, <1>6, <1>7, <1>8, <1>9
       DEF P!Next, Walks!Next, P!vars, Walks!vars

\* An undisturbed walk along the links misses nothing and meets nothing twice,
\* whatever requests are handled beside it. (makePaginator, getPagination)
THEOREM WalksOverPostsComplete == Spec => []WalksAreComplete
  <1>1. Queries \subseteq Walks!Query
    BY QueryTypes DEF Walks!Query, Query
  <1>2. PageSize \in Nat /\ DefaultPageSize \in Nat \ {0}
    BY PageSizes
  <1>3. P!Spec => Walks!Spec
    BY SameSteps, PTL DEF P!Spec, Walks!Spec
  <1>4. Walks!Spec => []Walks!WalksAreComplete
    BY <1>1, <1>2, Walks!WalksComplete, PTL
  <1>5. Walks!WalksAreComplete => WalksAreComplete
    BY DEF WalksAreComplete, P!WalksAreComplete, Walks!WalksAreComplete, P!Items, Walks!Items
  <1> QED BY <1>3, <1>4, <1>5, HandlersImplementPagedWalk, PTL DEF ImplementsPagedWalk

(***************************************************************************)
(* Answers                                                                 *)
(***************************************************************************)
\* a row as a client means it
Seen(c, row) == [id |-> row.id, owner |-> row.owner, secret |-> Open(c, row.secret)]

\* The meaning of a table is that of its rows.
LEMMA Meanings ==
    ASSUME NEW table, NEW c
    PROVE  Meaning(table, c) = {Seen(c, table[i]) : i \in DOMAIN table}
  BY DEF Meaning, Seen

\* What is sealed opens as what was given, with the key it was sealed with.
LEMMA OpensAsGiven ==
    ASSUME NEW c \in Configs, c.seal \in c.open, NEW t \in Texts
    PROVE  Open(c, Plain(t)) = Plain(t) /\ Open(c, Seal(c, Plain(t))) = Plain(t)
  <1>1. Open(c, Plain(t)) = Plain(t)
    BY DEF Open, Plain
  <1>2. [Plain(t) EXCEPT !.coat = c.seal] = [text |-> t, coat |-> c.seal]
    BY DEF Plain
  <1>3. Open(c, [text |-> t, coat |-> c.seal]) = Plain(t)
    BY DEF Open
  <1> QED BY <1>1, <1>2, <1>3 DEF Seal

\* A row appended adds its meaning. (Insert)
LEMMA AppendedMeaning ==
    ASSUME NEW table \in Tables, NEW c, NEW row \in Posts
    PROVE  Meaning(Append(table, row), c) = Meaning(table, c) \cup {Seen(c, row)}
  <1> DEFINE after == Append(table, row)
  <1>1. /\ \A i \in DOMAIN table : i \in DOMAIN after /\ after[i] = table[i]
        /\ \A i \in DOMAIN after : i \in DOMAIN table \/ after[i] = row
        /\ \E i \in DOMAIN after : after[i] = row
    <2>1. Len(table) \in Nat /\ table \in Seq(Posts)
      BY TableRows DEF Tables
    <2>2. Len(table) + 1 \in DOMAIN after /\ after[Len(table) + 1] = row
      BY <2>1
    <2> QED BY <2>1, <2>2
  <1> HIDE DEF after
  <1> QED BY <1>1, Meanings, Zenon DEF after

\* A row replaced changes the meaning of its id only. (Rewrite)
LEMMA ReplacedMeaning ==
    ASSUME NEW table \in Tables, NEW c, NEW i \in DOMAIN table, NEW row
    PROVE  /\ Meaning([table EXCEPT ![i] = row], c)
                = Others(Meaning(table, c), table[i].id) \cup {Seen(c, row)}
           /\ Meaning(table, c) \ Others(Meaning(table, c), table[i].id) = {Seen(c, table[i])}
  <1> DEFINE after == [table EXCEPT ![i] = row]
  <1>1. /\ DOMAIN after = DOMAIN table /\ after[i] = row
        /\ \A k \in DOMAIN table : k # i => after[k] = table[k]
    BY TableRows
  <1>2. \A k \in DOMAIN table : Seen(c, table[k]).id = table[k].id
    BY DEF Seen
  <1>3. \A k \in DOMAIN table : table[k].id = table[i].id => k = i
    BY TableRows
  <1> HIDE DEF after
  <1>4. Meaning(after, c) = Others(Meaning(table, c), table[i].id) \cup {Seen(c, row)}
    <2>1. ASSUME NEW x \in Meaning(after, c)
          PROVE  x \in Others(Meaning(table, c), table[i].id) \cup {Seen(c, row)}
      BY <1>1, <1>2, <1>3, <2>1, Meanings DEF Others
    <2>2. ASSUME NEW x \in Others(Meaning(table, c), table[i].id) PROVE x \in Meaning(after, c)
      BY <1>1, <1>2, <1>3, <2>2, Meanings DEF Others
    <2>3. Seen(c, row) \in Meaning(after, c)
      BY <1>1, Meanings
    <2> QED BY <2>1, <2>2, <2>3
  <1>5. Meaning(table, c) \ Others(Meaning(table, c), table[i].id) = {Seen(c, table[i])}
    BY <1>2, <1>3, Meanings DEF Others
  <1> QED BY <1>4, <1>5 DEF after

\* An answer tells what became of a call.
Tells(c, q, table, result) ==
    LET intended == Intended(Meaning(table, c), q)
    IN /\ result.outcome \in {"done", "created"} => Meaning(result.posts, c) = intended
       /\ result.outcome = "unreadable" =>
            /\ Meaning(result.posts, c) = intended
            /\ \E i \in Find(result.posts, q.id) : ~MayRead(q.by, result.posts[i])
       /\ result.outcome \notin {"done", "created", "unreadable"} => result.posts = table

Refusing == Outcomes \ {"done", "created", "unreadable"}

\* A refusal tells that nothing changed. (Refuse)
LEMMA RefusalTells ==
    ASSUME NEW c, NEW q, NEW table, NEW outcome \in Refusing
    PROVE  Tells(c, q, table, Refuse(table, outcome))
  BY DEF Refusing, Tells, Refuse

\* What the calls that address one row ask for.
LEMMA IntendedRows ==
    ASSUME NEW rows, NEW q
    PROVE  /\ Operation(q) = "create" => Intended(rows, q) = Added(rows, q)
           /\ Operation(q) = "upsert" =>
                Intended(rows, q) = IF rows = Others(rows, q.id) THEN Added(rows, q)
                                    ELSE Edited(rows, q)
           /\ Operation(q) = "update" => Intended(rows, q) = Edited(rows, q)
           /\ Operation(q) = "give" =>
                Intended(rows, q) = Others(rows, q.id)
                                    \cup {Owned(x, q.owner) : x \in rows \ Others(rows, q.id)}
           /\ Operation(q) = "delete" => Intended(rows, q) = Others(rows, q.id)
           /\ Operation(q) = "findUnique" => Intended(rows, q) = rows
  BY DEF Intended

\* The outcome of an insertion is what became of it. (doCreate)
LEMMA InsertTells ==
    ASSUME NEW c \in Configs, c.seal \in c.open, NEW q, NEW table \in Tables,
           q.by \in Users \cup {Nobody}, q.text \in Texts, q.id \in Ids,
           ~Undefaulted(q), ~Exists(table, q.id), Operation(q) \in {"create", "upsert"}
    PROVE  Tells(c, q, table,
                 Insert(table, c, q.by, q.id, WithDefaultAuth(q.by, q.owner), q.text))
  <1> DEFINE owner == WithDefaultAuth(q.by, q.owner)
             row == Row(q.id, owner, Stored(c, q.text))
             after == Append(table, row)
  <1>1. owner # Absent /\ owner = IF q.owner = Absent THEN q.by ELSE q.owner
    BY Distinct DEF WithDefaultAuth, Undefaulted
  <1> HIDE DEF owner
  <1>2. row = [id |-> q.id, owner |-> owner, secret |-> Seal(c, Plain(q.text)),
               pass |-> Hash(Plain(q.text))]
    BY StoredValues DEF Row
  <1> HIDE DEF row
  <1>3. ASSUME Known(owner)
        PROVE  Meaning(after, c) = Intended(Meaning(table, c), q)
    <2>1. row \in Posts
      BY <1>1, <1>2, <1>3, StoredValues DEF Known, Posts
    <2>2. Seen(c, row) = AskedFor(q, q.id, q.by)
      BY <1>1, <1>2, OpensAsGiven DEF Seen, AskedFor
    <2>3. Meaning(table, c) = Others(Meaning(table, c), q.id)
      BY Meanings DEF Seen, Others, Exists, Find
    <2> QED BY <2>1, <2>2, <2>3, AppendedMeaning, IntendedRows DEF Added
  <1>4. ASSUME MayWrite(q.by, row) PROVE MayRead(q.by, row)
    BY <1>4 DEF MayRead
  <1>5. Insert(table, c, q.by, q.id, owner, q.text)
            \in {Refuse(table, outcome) : outcome \in Refusing}
        \/ (Known(owner) /\ Insert(table, c, q.by, q.id, owner, q.text)
                                = [posts |-> after, outcome |-> "created"])
    BY <1>4 DEF Insert, ReadBack, Refusing, Outcomes, row
  <1>6. CASE Known(owner) /\ Insert(table, c, q.by, q.id, owner, q.text)
                                = [posts |-> after, outcome |-> "created"]
    BY <1>3, <1>6 DEF Tells, owner
  <1>7. CASE Insert(table, c, q.by, q.id, owner, q.text)
                \in {Refuse(table, outcome) : outcome \in Refusing}
    BY <1>7, RefusalTells DEF owner
  <1> QED BY <1>5, <1>6, <1>7

\* The outcome of a rewriting is what became of it. (doUpdate)
LEMMA RewriteTells ==
    ASSUME NEW c, NEW q, NEW table \in Tables, NEW i \in DOMAIN table, NEW row,
           table[i].id = q.id, row.id = q.id,
           Known(row.owner) => Intended(Meaning(table, c), q)
                                = Others(Meaning(table, c), q.id) \cup {Seen(c, row)}
    PROVE  Tells(c, q, table, Rewrite(table, c, q.by, i, row))
  <1> DEFINE after == [table EXCEPT ![i] = row]
  <1>1. ASSUME Known(row.owner) PROVE Meaning(after, c) = Intended(Meaning(table, c), q)
    <2>1. Meaning(after, c) = Others(Meaning(table, c), table[i].id) \cup {Seen(c, row)}
      BY ReplacedMeaning
    <2> HIDE DEF after
    <2> QED BY <1>1, <2>1
  <1>2. i \in Find(after, q.id) /\ after[i] = row
    BY TableRows DEF Find
  <1> HIDE DEF after
  <1>3. \/ Rewrite(table, c, q.by, i, row) \in {Refuse(table, outcome) : outcome \in Refusing}
        \/ /\ Known(row.owner)
           /\ Rewrite(table, c, q.by, i, row)
                = [posts |-> after, outcome |-> IF MayRead(q.by, row) THEN "done" ELSE "unreadable"]
    BY DEF Rewrite, ReadBack, Refusing, Outcomes, after
  <1>4. CASE Rewrite(table, c, q.by, i, row) \in {Refuse(table, outcome) : outcome \in Refusing}
    BY <1>4, RefusalTells
  <1>5. CASE /\ Known(row.owner)
             /\ Rewrite(table, c, q.by, i, row)
                = [posts |-> after, outcome |-> IF MayRead(q.by, row) THEN "done" ELSE "unreadable"]
    BY <1>1, <1>2, <1>5 DEF Tells
  <1> QED BY <1>3, <1>4, <1>5

\* The outcome of an update is what became of it. (update)
LEMMA UpdateTells ==
    ASSUME NEW c \in Configs, c.seal \in c.open, NEW q, NEW table \in Tables, q.text \in Texts,
           Operation(q) = "update" \/ (Operation(q) = "upsert" /\ Exists(table, q.id))
    PROVE  Tells(c, q, table, Update(table, c, q))
  <1> DEFINE i == At(table, q.id)
             row == Row(q.id, OwnerGiven(q, table[i]), Stored(c, q.text))
  <1>1. ASSUME Exists(table, q.id)
        PROVE  Tells(c, q, table, Rewrite(table, c, q.by, i, row))
    <2>1. i \in DOMAIN table /\ table[i].id = q.id
      BY <1>1, FoundAt
    <2>2. row = [id |-> q.id, owner |-> OwnerGiven(q, table[i]),
                 secret |-> Seal(c, Plain(q.text)), pass |-> Hash(Plain(q.text))]
      BY StoredValues DEF Row
    <2> HIDE DEF i, row
    <2>3. Seen(c, row) = AskedFor(q, Seen(c, table[i]).id, Seen(c, table[i]).owner)
      BY <2>1, <2>2, OpensAsGiven DEF Seen, AskedFor, OwnerGiven
    <2>4. Meaning(table, c) \ Others(Meaning(table, c), q.id) = {Seen(c, table[i])}
      BY <2>1, ReplacedMeaning
    <2>5. Edited(Meaning(table, c), q) = Others(Meaning(table, c), q.id) \cup {Seen(c, row)}
      BY <2>3, <2>4 DEF Edited
    <2>6. Meaning(table, c) # Others(Meaning(table, c), q.id)
      BY <2>4
    <2>7. Intended(Meaning(table, c), q) = Edited(Meaning(table, c), q)
      BY <2>6, IntendedRows
    <2> QED BY <2>1, <2>2, <2>5, <2>7, RewriteTells
  <1>2. \A outcome \in Refusing : Tells(c, q, table, Refuse(table, outcome))
    BY RefusalTells
  <1> QED BY <1>1, <1>2 DEF Update, Refusing, Outcomes

\* The outcome of a change of owner is what became of it. (update)
LEMMA GiveTells ==
    ASSUME NEW c, NEW q, NEW table \in Tables, Operation(q) = "give"
    PROVE  Tells(c, q, table, Give(table, c, q))
  <1> DEFINE i == At(table, q.id)
             row == [table[i] EXCEPT !.owner = q.owner]
  <1>1. ASSUME Exists(table, q.id)
        PROVE  Tells(c, q, table, Rewrite(table, c, q.by, i, row))
    <2>1. i \in DOMAIN table /\ table[i].id = q.id /\ table[i] \in Posts
      BY <1>1, FoundAt, TableRows
    <2>2. row.id = q.id /\ row.owner = q.owner /\ row.secret = table[i].secret
      BY <2>1 DEF Posts
    <2> HIDE DEF i, row
    <2>3. Seen(c, row) = Owned(Seen(c, table[i]), q.owner)
      BY <2>1, <2>2 DEF Seen, Owned
    <2>4. Meaning(table, c) \ Others(Meaning(table, c), q.id) = {Seen(c, table[i])}
      BY <2>1, ReplacedMeaning
    <2>5. Intended(Meaning(table, c), q) = Others(Meaning(table, c), q.id) \cup {Seen(c, row)}
      BY <2>3, <2>4, IntendedRows
    <2> QED BY <2>1, <2>2, <2>5, RewriteTells
  <1>2. \A outcome \in Refusing : Tells(c, q, table, Refuse(table, outcome))
    BY RefusalTells
  <1> QED BY <1>1, <1>2 DEF Give, Refusing, Outcomes

\* The meaning of the rows picked is that of the places. (Picked)
LEMMA PickedMeaning ==
    ASSUME NEW table \in Tables, NEW places \in SUBSET DOMAIN table, NEW c
    PROVE  Meaning(Picked(table, places), c) = {Seen(c, table[k]) : k \in places}
  <1>1. PICK taken : taken = Picked(table, places)
    OBVIOUS
  <1>2. /\ \A n \in DOMAIN taken : \E k \in places : taken[n] = table[k]
        /\ \A k \in places : \E n \in DOMAIN taken : taken[n] = table[k]
    BY <1>1, PickedTable
  <1>3. Meaning(taken, c) = {Seen(c, table[k]) : k \in places}
    BY <1>2, Meanings
  <1> QED BY <1>1, <1>3

\* The outcome of a deletion is what became of it. (delete)
LEMMA DeleteTells ==
    ASSUME NEW c, NEW q, NEW table \in Tables, Operation(q) = "delete"
    PROVE  Tells(c, q, table, Delete(table, q))
  <1> DEFINE i == At(table, q.id)
             places == DOMAIN table \ {i}
             after == Picked(table, places)
  <1>1. ASSUME Exists(table, q.id)
        PROVE  Meaning(after, c) = Others(Meaning(table, c), q.id)
    <2>1. i \in DOMAIN table /\ table[i].id = q.id
          /\ \A k \in DOMAIN table : table[k].id = q.id => k = i
      BY <1>1, FoundAt, TableRows
    <2>2. Meaning(after, c) = {Seen(c, table[k]) : k \in places}
      BY PickedMeaning
    <2>3. \A k \in DOMAIN table : k \in places <=> Seen(c, table[k]).id # q.id
      BY <2>1 DEF Seen
    <2>4. places \subseteq DOMAIN table
      OBVIOUS
    <2> HIDE DEF after, places
    <2> QED BY <2>2, <2>3, <2>4, Meanings DEF Others
  <1>2. \A outcome \in Refusing : Tells(c, q, table, Refuse(table, outcome))
    BY RefusalTells
  <1>3. ASSUME Exists(table, q.id)
        PROVE  Tells(c, q, table, [posts |-> after, outcome |-> "done"])
    BY <1>1, <1>3, IntendedRows DEF Tells
  <1> QED BY <1>2, <1>3 DEF Delete, Refusing, Outcomes

\* deleteMany removes what the caller may delete. (deleteMany)
LEMMA DeleteManyTells ==
    ASSUME NEW c, NEW q, NEW table \in Tables, Operation(q) = "deleteMany"
    PROVE  Tells(c, q, table, DeleteMany(table, q))
  <1> DEFINE places == {i \in DOMAIN table : ~MayWrite(q.by, table[i])}
             after == Picked(table, places)
  <1>1. places \in SUBSET DOMAIN table
    OBVIOUS
  <1>2. Intended(Meaning(table, c), q)
            = {x \in Meaning(table, c) : x.owner # q.by \/ q.by = Nobody}
    BY DEF Intended
  <1>3. \A k \in DOMAIN table :
            k \in places <=> (Seen(c, table[k]).owner # q.by \/ q.by = Nobody)
    BY DEF Seen, MayWrite
  <1> HIDE DEF places
  <1>4. Meaning(after, c) = {Seen(c, table[k]) : k \in places}
    BY <1>1, PickedMeaning
  <1> HIDE DEF after
  <1>5. Meaning(after, c) = Intended(Meaning(table, c), q)
    BY <1>1, <1>2, <1>3, <1>4, Meanings
  <1> QED BY <1>5 DEF DeleteMany, Tells, places, after

\* updateMany changes what the caller may update. (updateMany)
LEMMA UpdateManyTells ==
    ASSUME NEW c \in Configs, c.seal \in c.open, NEW q, NEW table \in Tables, q.text \in Texts,
           Operation(q) = "updateMany"
    PROVE  Tells(c, q, table, UpdateMany(table, c, q))
  <1> DEFINE after == [i \in DOMAIN table |->
                        IF MayWrite(q.by, table[i])
                        THEN [table[i] EXCEPT !.secret = Plain(q.text), !.pass = Plain(q.text)]
                        ELSE table[i]]
             edited(x) == IF x.owner = q.by /\ q.by # Nobody
                          THEN [x EXCEPT !.secret = Plain(q.text)] ELSE x
  <1>1. Intended(Meaning(table, c), q) = {edited(x) : x \in Meaning(table, c)}
    BY DEF Intended
  <1>2. ASSUME NEW i \in DOMAIN table PROVE Seen(c, after[i]) = edited(Seen(c, table[i]))
    <2>1. table[i] \in Posts /\ Open(c, Plain(q.text)) = Plain(q.text)
      BY TableRows, OpensAsGiven
    <2>2. CASE MayWrite(q.by, table[i])
      <3>1. /\ after[i].id = table[i].id /\ after[i].owner = table[i].owner
            /\ after[i].secret = Plain(q.text)
        BY <2>1, <2>2 DEF Posts
      <3> HIDE DEF after
      <3>2. Seen(c, table[i]).owner = q.by /\ q.by # Nobody
        BY <2>2 DEF Seen, MayWrite
      <3>3. edited(Seen(c, table[i])) = [Seen(c, table[i]) EXCEPT !.secret = Plain(q.text)]
        BY <3>2
      <3> QED BY <2>1, <3>1, <3>3 DEF Seen
    <2>3. CASE ~MayWrite(q.by, table[i])
      BY <2>3 DEF Seen, MayWrite
    <2> QED BY <2>2, <2>3
  <1>3. DOMAIN after = DOMAIN table
    OBVIOUS
  <1> HIDE DEF after, edited
  <1>4. Meaning(after, c) = Intended(Meaning(table, c), q)
    BY <1>1, <1>2, <1>3, Meanings
  <1>5. Tells(c, q, table, Refuse(table, "invalid"))
    BY RefusalTells DEF Refusing, Outcomes
  <1>6. Tells(c, q, table, [posts |-> after, outcome |-> "done"])
    BY <1>4 DEF Tells
  <1> QED BY <1>5, <1>6 DEF UpdateMany, after

\* The outcome of connecting or disconnecting posts is what became of it.
LEMMA RelateTells ==
    ASSUME NEW c, NEW q, NEW table \in Tables, Operation(q) \in {"connect", "disconnect", "set"}
    PROVE  Tells(c, q, table, Relate(table, c, q, Operation(q)))
  <1> DEFINE verb == Operation(q)
             mine(id) == \E i \in Find(table, id) : table[i].owner = q.user
             touched == {id \in q.ids : verb # "disconnect" \/ mine(id)}
             owner(row) ==
                        IF verb # "disconnect" /\ row.id \in touched THEN q.user
                        ELSE IF verb = "set" /\ row.owner = q.user THEN Nobody
                        ELSE IF verb = "disconnect" /\ row.id \in touched THEN Nobody
                        ELSE row.owner
             after == [i \in DOMAIN table |-> [table[i] EXCEPT !.owner = owner(table[i])]]
             rows == Meaning(table, c)
             listed == {x \in rows : x.id \in q.ids}
             had == {x \in rows : x.owner = q.user}
  <1>1. ASSUME NEW i \in DOMAIN table
        PROVE  Seen(c, after[i]) = Owned(Seen(c, table[i]), owner(table[i]))
    <2>1. table[i] \in Posts
      BY TableRows
    <2> HIDE DEF owner
    <2>2. /\ after[i].id = table[i].id /\ after[i].owner = owner(table[i])
          /\ after[i].secret = table[i].secret
      BY <2>1 DEF Posts
    <2> HIDE DEF after
    <2> QED BY <2>2 DEF Seen, Owned
  <1>2. \A i \in DOMAIN table : Owned(Seen(c, table[i]), table[i].owner) = Seen(c, table[i])
    BY DEF Seen, Owned
  <1>3. \A i \in DOMAIN table : mine(table[i].id) <=> table[i].owner = q.user
    BY TableRows DEF Find
  <1>4. DOMAIN after = DOMAIN table
    OBVIOUS
  <1>5. \A i \in DOMAIN table : /\ Seen(c, table[i]) \in rows
                               /\ (Seen(c, table[i]) \in listed <=> table[i].id \in q.ids)
                               /\ (Seen(c, table[i]) \in had <=> table[i].owner = q.user)
    BY Meanings DEF Seen
  <1>6. \A x \in rows : \E i \in DOMAIN table : x = Seen(c, table[i])
    BY Meanings
  <1>7. Intended(rows, q) =
            CASE verb = "connect" -> (rows \ listed) \cup {Owned(x, q.user) : x \in listed}
              [] verb = "disconnect" -> (rows \ (listed \cap had))
                                        \cup {Owned(x, Nobody) : x \in listed \cap had}
              [] verb = "set" -> (rows \ (listed \cup had))
                                 \cup {Owned(x, q.user) : x \in listed}
                                 \cup {Owned(x, Nobody) : x \in had \ listed}
    BY DEF Intended
  <1>8. \A i \in DOMAIN table :
            owner(table[i]) =
                CASE verb = "connect" -> IF table[i].id \in q.ids THEN q.user ELSE table[i].owner
                  [] verb = "disconnect" -> IF table[i].id \in q.ids /\ table[i].owner = q.user
                                            THEN Nobody ELSE table[i].owner
                  [] verb = "set" -> IF table[i].id \in q.ids THEN q.user
                                     ELSE IF table[i].owner = q.user THEN Nobody
                                     ELSE table[i].owner
    BY <1>3
  <1>9. listed \subseteq rows /\ had \subseteq rows
    OBVIOUS
  <1>10. Meaning(after, c) = {Seen(c, after[i]) : i \in DOMAIN table}
    BY <1>4, Meanings
  <1> HIDE DEF after, rows, listed, had, owner, mine, touched
  <1>11. Meaning(after, c) = Intended(rows, q)
    <2>1. CASE verb = "connect"
      BY <1>1, <1>2, <1>5, <1>6, <1>7, <1>8, <1>9, <1>10, <2>1
    <2>2. CASE verb = "disconnect"
      BY <1>1, <1>2, <1>5, <1>6, <1>7, <1>8, <1>9, <1>10, <2>2
    <2>3. CASE verb = "set"
      BY <1>1, <1>2, <1>5, <1>6, <1>7, <1>8, <1>9, <1>10, <2>3
    <2> QED BY <2>1, <2>2, <2>3
  <1>12. Relate(table, c, q, verb) \in {Refuse(table, outcome) : outcome \in Refusing}
        \/ Relate(table, c, q, verb) = [posts |-> after, outcome |-> "done"]
    BY DEF Relate, Refusing, Outcomes, after, owner, touched, mine
  <1>13. CASE Relate(table, c, q, verb) \in {Refuse(table, outcome) : outcome \in Refusing}
    BY <1>13, RefusalTells
  <1>14. CASE Relate(table, c, q, verb) = [posts |-> after, outcome |-> "done"]
    BY <1>11, <1>14 DEF Tells, rows
  <1> QED BY <1>12, <1>13, <1>14

\* The outcome of every call is what became of it. (Perform)
LEMMA PerformTells ==
    ASSUME NEW c \in Configs, c.seal \in c.open, NEW q, NEW table \in Tables,
           Operation(q) \in Operations, Callable(Operation(q), q)
    PROVE  Tells(c, q, table, Perform(table, c, Operation(q), q))
  <1> DEFINE op == Operation(q)
  <1>0. \A outcome \in Refusing : Tells(c, q, table, Refuse(table, outcome))
    BY RefusalTells
  <1>1. CASE op \in {"create", "upsert"}
    <2>1. q.id \in Ids /\ q.by \in Users \cup {Nobody} /\ q.text \in Texts
      BY <1>1 DEF Callable
    <2>2. ASSUME ~Undefaulted(q), ~Exists(table, q.id)
          PROVE  Tells(c, q, table,
                       Insert(table, c, q.by, q.id, WithDefaultAuth(q.by, q.owner), q.text))
      BY <1>1, <2>1, <2>2, InsertTells
    <2>3. ASSUME Exists(table, q.id)
          PROVE  Insert(table, c, q.by, q.id, WithDefaultAuth(q.by, q.owner), q.text)
                    \in {Refuse(table, outcome) : outcome \in Refusing}
      BY <2>3 DEF Insert, Refusing, Outcomes
    <2>4. ASSUME op = "upsert", Exists(table, q.id) PROVE Tells(c, q, table, Update(table, c, q))
      BY <2>1, <2>4, UpdateTells
    <2>5. CASE op = "create"
      BY <1>0, <2>2, <2>3, <2>5 DEF Perform, Create, Refusing, Outcomes
    <2>6. CASE op = "upsert"
      BY <1>0, <2>2, <2>4, <2>6 DEF Perform, Upsert, Refusing, Outcomes
    <2> QED BY <1>1, <2>5, <2>6
  <1>2. CASE op = "update"
    BY <1>2, UpdateTells DEF Perform, Callable
  <1>3. CASE op = "updateMany"
    BY <1>3, UpdateManyTells DEF Perform, Callable
  <1>4. CASE op = "delete"
    BY <1>4, DeleteTells DEF Perform
  <1>5. CASE op = "deleteMany"
    BY <1>5, DeleteManyTells DEF Perform
  <1>6. CASE op = "findUnique"
    <2>1. Tells(c, q, table, Refuse(table, "done"))
      BY <1>6, IntendedRows DEF Tells, Refuse
    <2> QED BY <1>0, <1>6, <2>1 DEF Perform, FindUnique, Refusing, Outcomes
  <1>7. CASE op = "give"
    BY <1>7, GiveTells DEF Perform
  <1>8. CASE op \in {"connect", "disconnect", "set"}
    BY <1>8, RelateTells DEF Perform
  <1> QED BY <1>1, <1>2, <1>3, <1>4, <1>5, <1>6, <1>7, <1>8 DEF Operations

\* Splitting an id does not change the operation. (makeIdFilter)
LEMMA AddressedOperation ==
    ASSUME NEW q \in Requests
    PROVE  Operation(Addressed(q)) = Operation(q)
  <1>1. Addressed(q).api = q.api /\ Addressed(q).verb = q.verb /\ Addressed(q).path = q.path
    BY RequestTypes DEF Addressed
  <1> QED BY <1>1 DEF Operation

\* The outcome of every request is what became of it. (handleRequest)
LEMMA HandlingTells ==
    ASSUME NEW q \in Requests, TypeOK
    PROVE  Tells(config, Addressed(q), posts, Result(q))
  <1>1. \A outcome \in Refusing : Tells(config, Addressed(q), posts, Refuse(posts, outcome))
    BY RefusalTells
  <1>2. ASSUME Operation(q) # NoOperation, ~BadBody(q)
        PROVE  Tells(config, Addressed(q), posts,
                     Perform(posts, config, Operation(q), Addressed(q)))
    <2>1. Operation(q) \in Operations
      BY <1>2, OperationKinds
    <2>2. Callable(Operation(q), Addressed(q))
      BY <1>2, RequestsAreCallable
    <2> QED BY <2>1, <2>2, AddressedOperation, PerformTells DEF TypeOK
  <1> QED BY <1>1, <1>2 DEF Result, Refusing, Outcomes

\* Which outcomes are answered as successes. (ERROR_STATUS_MAPPING)
LEMMA SuccessfulOutcomes ==
    ASSUME NEW q \in Requests, NEW outcome \in Outcomes
    PROVE  /\ Succeeded(Status(q, outcome)) =>
                \/ outcome \in {"done", "created"}
                \/ outcome = "notFound" /\ Operation(q) = "findUnique"
           /\ ~Succeeded(Status(q, outcome)) => outcome \notin {"done", "created"}
           /\ outcome = "unreadable" => Status(q, outcome) = 403
  BY DEF Succeeded, Status, Outcomes

\* What an answer says of a request is what became of it. (handlePrismaError)
THEOREM AnswersAreTrue == Spec => AnswersTellTheOutcome
  <1> DEFINE true ==
        handled' # handled =>
        LET q == answer'.req
            rows == Meaning(posts, config)
            after == Meaning(posts', config)
            unreadable == /\ answer'.status = 403 /\ after = Intended(rows, q)
                          /\ \E i \in Find(posts', q.id) : ~MayRead(q.by, posts'[i])
        IN Addressed(q) = q =>
            IF Succeeded(answer'.status) THEN after = Intended(rows, q)
            ELSE posts' = posts \/ unreadable
  <1>1. TypeOK /\ [Next]_vars => [true]_vars
    <2> SUFFICES ASSUME TypeOK, [Next]_vars, handled' # handled PROVE true
      BY DEF vars
    <2>1. PICK q \in Requests : Handle(q)
      BY DEF Next, vars, Redeploy, Start, FindMany, Count, FindRelated, FollowNext, FollowLast, End
    <2>2. PICK result : result = Result(q)
      OBVIOUS
    <2>3. answer'.req = q /\ answer'.status = Status(q, result.outcome) /\ posts' = result.posts
      BY <2>1, <2>2 DEF Handle
    <2>4. Tells(config, Addressed(q), posts, result)
      BY <2>2, HandlingTells
    <2>5. result.outcome \in Outcomes
      BY <2>2, HandlingKeeps DEF Keeps, TypeOK
    <2> SUFFICES ASSUME Addressed(q) = q
                 PROVE  IF Succeeded(answer'.status)
                        THEN Meaning(posts', config) = Intended(Meaning(posts, config), q)
                        ELSE \/ posts' = posts
                             \/ /\ answer'.status = 403
                                /\ Meaning(posts', config) = Intended(Meaning(posts, config), q)
                                /\ \E i \in Find(posts', q.id) : ~MayRead(q.by, posts'[i])
      BY <2>3
    <2>6. Tells(config, q, posts, result)
      BY <2>4
    <2>7. CASE result.outcome = "notFound" /\ Operation(q) = "findUnique"
      BY <2>3, <2>6, <2>7, IntendedRows, SuccessfulOutcomes, <2>5 DEF Tells
    <2>8. CASE ~(result.outcome = "notFound" /\ Operation(q) = "findUnique")
      BY <2>3, <2>5, <2>6, <2>8, SuccessfulOutcomes DEF Tells
    <2> QED BY <2>7, <2>8
  <1> QED BY <1>1, WebTypeCorrect, PTL DEF Spec, AnswersTellTheOutcome

(***************************************************************************)
(* Retries                                                                 *)
(***************************************************************************)
\* Rows of one meaning are as many.
LEMMA SameLength ==
    ASSUME NEW before \in Tables, NEW after \in Tables, NEW c,
           Meaning(after, c) = Meaning(before, c)
    PROVE  Len(after) = Len(before)
  <1>1. ASSUME NEW table \in Tables PROVE Cardinality(Meaning(table, c)) = Len(table)
    <2> DEFINE f == [i \in 1..Len(table) |-> Seen(c, table[i])]
    <2>1. Len(table) \in Nat /\ DOMAIN table = 1..Len(table)
      BY TableRows
    <2>2. \A i \in 1..Len(table) : f[i].id = table[i].id
      BY DEF Seen
    <2>3. \A i, j \in 1..Len(table) : f[i] = f[j] => i = j
      BY <2>1, <2>2, TableRows
    <2>4. Meaning(table, c) = {f[i] : i \in 1..Len(table)}
      BY <2>1, Meanings
    <2>5. f \in [1..Len(table) -> Meaning(table, c)]
      BY <2>4
    <2> HIDE DEF f
    <2>6. f \in Bijection(1..Len(table), Meaning(table, c))
      BY <2>3, <2>4, <2>5 DEF Bijection, Injection, Surjection, IsInjective
    <2> QED BY <2>1, <2>6, FS_CountingElements DEF ExistsBijection
  <1> QED BY <1>1

\* What a client means by a row has no fields besides.
Shown(rows) == \A x \in rows : x = [id |-> x.id, owner |-> x.owner, secret |-> x.secret]

\* What a request gives a row, it gives it again.
LEMMA AskedForTwice ==
    ASSUME NEW q, NEW rows
    PROVE  /\ Edited(Edited(rows, q), q) = Edited(rows, q)
           /\ Edited(Added(rows, q), q) = Edited(rows, q) \cup {AskedFor(q, q.id, q.by)}
           /\ q.id \in {x.id : x \in Added(rows, q)}
           /\ q.id \in {x.id : x \in rows} => q.id \in {x.id : x \in Edited(rows, q)}
  <1>1. \A id, owner : LET y == AskedFor(q, id, owner)
                       IN y.id = id /\ AskedFor(q, y.id, y.owner) = y
    BY DEF AskedFor
  <1>2. ASSUME NEW set, NEW x
        PROVE  x \in Edited(set, q) <=> \/ x \in set /\ x.id # q.id
                                        \/ \E z \in set : /\ z.id = q.id
                                                          /\ x = AskedFor(q, z.id, z.owner)
    BY DEF Edited, Others
  <1>3. Edited(Edited(rows, q), q) = Edited(rows, q)
    <2>1. PICK once, twice : once = Edited(rows, q) /\ twice = Edited(once, q)
      OBVIOUS
    <2>2. \A x \in once : x.id = q.id => AskedFor(q, x.id, x.owner) = x
      BY <1>1, <1>2, <2>1
    <2>3. \A x : x \in twice <=> x \in once
      BY <1>2, <2>1, <2>2
    <2> QED BY <2>1, <2>3
  <1>4. Edited(Added(rows, q), q) = Edited(rows, q) \cup {AskedFor(q, q.id, q.by)}
    BY <1>1, <1>2 DEF Added
  <1>5. q.id \in {x.id : x \in Added(rows, q)}
    BY <1>1 DEF Added
  <1>6. q.id \in {x.id : x \in rows} => q.id \in {x.id : x \in Edited(rows, q)}
    BY <1>1, <1>2
  <1> QED BY <1>3, <1>4, <1>5, <1>6

\* Asking twice asks no more than asking once.
LEMMA IntendedTwice ==
    ASSUME NEW q, NEW rows, Shown(rows)
    PROVE  Intended(Intended(rows, q), q) = Intended(rows, q)
  <1> DEFINE op == Operation(q)
             once == Intended(rows, q)
  <1>0. ASSUME NEW x \in rows, NEW owner
        PROVE  /\ Owned(x, owner) = [id |-> x.id, owner |-> owner, secret |-> x.secret]
               /\ \A other : Owned(Owned(x, owner), other) = Owned(x, other)
    <2>1. PICK id, was, secret : x = [id |-> id, owner |-> was, secret |-> secret]
      BY DEF Shown
    <2>2. \A some, other : [[id |-> id, owner |-> some, secret |-> secret] EXCEPT !.owner = other]
                             = [id |-> id, owner |-> other, secret |-> secret]
      OBVIOUS
    <2> QED BY <2>1, <2>2 DEF Owned
  <1>1. CASE op = "create"
    BY <1>1, IntendedRows DEF Added
  <1>2. CASE op = "upsert"
    <2>1. \A set : set # Others(set, q.id) <=> q.id \in {x.id : x \in set}
      BY DEF Others
    <2>0. \A set : Intended(set, q) = IF set = Others(set, q.id) THEN Added(set, q)
                                      ELSE Edited(set, q)
      BY <1>2, IntendedRows
    <2>2. CASE rows = Others(rows, q.id)
      <3>1. once = Added(rows, q) /\ once # Others(once, q.id)
        BY <2>0, <2>1, <2>2, AskedForTwice
      <3>2. Edited(rows, q) = rows
        BY <2>2 DEF Edited
      <3> QED BY <1>2, <3>1, <3>2, IntendedRows, AskedForTwice DEF Added
    <2>3. CASE rows # Others(rows, q.id)
      <3>1. once = Edited(rows, q)
        BY <2>0, <2>3
      <3>2. once # Others(once, q.id)
        BY <2>1, <2>3, <3>1, AskedForTwice
      <3> HIDE DEF once
      <3>3. Intended(once, q) = Edited(once, q)
        BY <2>0, <3>2
      <3> QED BY <3>1, <3>3, AskedForTwice DEF once
    <2> QED BY <2>2, <2>3
  <1>3. CASE op = "update"
    BY <1>3, IntendedRows, AskedForTwice
  <1>4. CASE op = "delete"
    BY <1>4, IntendedRows DEF Others
  <1>5. CASE op = "give"
    <2> DEFINE given(set) == Others(set, q.id)
                             \cup {Owned(x, q.owner) : x \in set \ Others(set, q.id)}
    <2>1. \A set : Intended(set, q) = given(set)
      BY <1>5, IntendedRows
    <2>2. ASSUME NEW set, NEW x
          PROVE  x \in given(set) <=> \/ x \in set /\ x.id # q.id
                                      \/ \E z \in set : z.id = q.id /\ x = Owned(z, q.owner)
      BY DEF Others
    <2> HIDE DEF given
    <2>3. \A z \in rows : /\ Owned(z, q.owner).id = z.id
                          /\ Owned(Owned(z, q.owner), q.owner) = Owned(z, q.owner)
      BY <1>0
    <2>4. \A x : x \in given(given(rows)) <=> x \in given(rows)
      BY <2>2, <2>3
    <2> QED BY <2>1, <2>4
  <1>6. CASE op = "updateMany"
    <2> DEFINE edited(x) == IF x.owner = q.by /\ q.by # Nobody
                            THEN [x EXCEPT !.secret = Plain(q.text)] ELSE x
    <2>1. \A set : Intended(set, q) = {edited(x) : x \in set}
      BY <1>6 DEF Intended
    <2>2. \A x \in rows : edited(edited(x)) = edited(x)
      BY DEF Shown
    <2> HIDE DEF edited
    <2>3. PICK twice : twice = {edited(x) : x \in once}
      OBVIOUS
    <2>4. once = {edited(x) : x \in rows}
      BY <2>1
    <2>5. \A x : x \in twice <=> x \in once
      BY <2>2, <2>3, <2>4
    <2> QED BY <2>1, <2>3, <2>5
  <1>7. CASE op = "deleteMany"
    <2>1. \A set : Intended(set, q) = {x \in set : x.owner # q.by \/ q.by = Nobody}
      BY <1>7 DEF Intended
    <2> QED BY <2>1
  <1>8. CASE op \in {"connect", "disconnect", "set"}
    <2> DEFINE owner(x) ==
                 CASE op = "connect" -> IF x.id \in q.ids THEN q.user ELSE x.owner
                   [] op = "disconnect" -> IF x.id \in q.ids /\ x.owner = q.user
                                           THEN Nobody ELSE x.owner
                   [] op = "set" -> IF x.id \in q.ids THEN q.user
                                    ELSE IF x.owner = q.user THEN Nobody ELSE x.owner
               moved(x) == Owned(x, owner(x))
    <2>1. ASSUME NEW set, Shown(set) PROVE Intended(set, q) = {moved(x) : x \in set}
      <3>1. \A x \in set : Owned(x, x.owner) = x
        BY <2>1 DEF Shown, Owned
      <3> DEFINE listed == {x \in set : x.id \in q.ids}
                 had == {x \in set : x.owner = q.user}
      <3>2. \A x \in set : (x \in listed <=> x.id \in q.ids) /\ (x \in had <=> x.owner = q.user)
        OBVIOUS
      <3>3. listed \subseteq set /\ had \subseteq set
        OBVIOUS
      <3>4. CASE op = "connect"
        <4>1. Intended(set, q) = (set \ listed) \cup {Owned(x, q.user) : x \in listed}
          BY <3>4 DEF Intended
        <4> HIDE DEF listed, had
        <4> QED BY <3>1, <3>2, <3>3, <3>4, <4>1
      <3>5. CASE op = "disconnect"
        <4>1. Intended(set, q) = (set \ (listed \cap had))
                                 \cup {Owned(x, Nobody) : x \in listed \cap had}
          BY <3>5 DEF Intended
        <4> HIDE DEF listed, had
        <4> QED BY <3>1, <3>2, <3>3, <3>5, <4>1
      <3>6. CASE op = "set"
        <4>1. Intended(set, q) = (set \ (listed \cup had)) \cup {Owned(x, q.user) : x \in listed}
                                 \cup {Owned(x, Nobody) : x \in had \ listed}
          BY <3>6 DEF Intended
        <4> HIDE DEF listed, had
        <4> QED BY <3>1, <3>2, <3>3, <3>6, <4>1
      <3> QED BY <1>8, <3>4, <3>5, <3>6
    <2>2. ASSUME NEW x \in rows PROVE moved(moved(x)) = moved(x)
      <3>1. /\ moved(x).id = x.id /\ moved(x).owner = owner(x)
            /\ \A other : Owned(moved(x), other) = Owned(x, other)
        BY <1>0, <1>8
      <3>2. owner(moved(x)) = owner(x)
        BY <3>1, <1>8
      <3> QED BY <3>1, <3>2
    <2>3. Shown({moved(x) : x \in rows})
      BY DEF Shown, Owned
    <2> HIDE DEF moved
    <2> QED BY <2>1, <2>2, <2>3
  <1>9. CASE op \notin {"create", "upsert", "update", "updateMany", "delete", "deleteMany", "give",
                       "connect", "disconnect", "set"}
    BY <1>9 DEF Intended
  <1> QED BY <1>1, <1>2, <1>3, <1>4, <1>5, <1>6, <1>7, <1>8, <1>9

\* As long as the keys are at hand, what a request asked for after it succeeded is
\* what the rows mean already.
Landed ==
    answer # NoAnswer /\ Succeeded(answer.status) /\ config.kept =>
        Intended(Meaning(posts, config), Addressed(answer.req)) = Meaning(posts, config)

\* Meanings have the fields that are shown.
LEMMA MeaningsAreShown ==
    ASSUME NEW table, NEW c
    PROVE  Shown(Meaning(table, c))
  BY DEF Shown, Meaning

\* A request that is handled leaves what it asked for, or nothing.
LEMMA HandlingLands ==
    ASSUME NEW q \in Requests, TypeOK, Handle(q)
    PROVE  LET rows == Meaning(posts, config)
               intended == Intended(rows, Addressed(q))
           IN /\ answer'.req = q /\ config' = config
              /\ Meaning(posts', config) \in {rows, intended}
              /\ Succeeded(answer'.status) => Meaning(posts', config) = intended
  <1>1. PICK result : result = Result(q)
    OBVIOUS
  <1>2. /\ answer'.req = q /\ answer'.status = Status(q, result.outcome)
        /\ posts' = result.posts /\ config' = config
    BY <1>1 DEF Handle
  <1>3. Tells(config, Addressed(q), posts, result)
    BY <1>1, HandlingTells
  <1>4. result.outcome \in Outcomes
    BY <1>1, HandlingKeeps DEF Keeps, TypeOK
  <1>5. CASE result.outcome \in {"done", "created"}
    BY <1>2, <1>3, <1>5 DEF Tells
  <1>6. CASE result.outcome = "unreadable"
    BY <1>2, <1>3, <1>6 DEF Tells
  <1>7. CASE result.outcome \notin {"done", "created", "unreadable"}
    <2>1. posts' = posts
      BY <1>2, <1>3, <1>7 DEF Tells
    <2>2. Succeeded(answer'.status) => Operation(Addressed(q)) = "findUnique"
      BY <1>2, <1>4, <1>7, SuccessfulOutcomes, AddressedOperation
    <2> QED BY <1>2, <2>1, <2>2, IntendedRows
  <1> QED BY <1>5, <1>6, <1>7

\* A key that is kept opens what it opened.
LEMMA RedeployingKeepsMeaning ==
    ASSUME TypeOK, KeysAtHand, Redeploy, config'.kept
    PROVE  /\ config.kept /\ posts' = posts /\ answer' = answer
           /\ Meaning(posts, config') = Meaning(posts, config)
  <1>1. PICK seal, old, healthy :
            config' = [seal |-> seal, open |-> {seal} \cup old, healthy |-> healthy,
                       deploys |-> config.deploys + 1,
                       kept |-> config.kept /\ config.open \subseteq {seal} \cup old]
    BY Zenon DEF Redeploy
  <1>2. config'.kept = (config.kept /\ config.open \subseteq {seal} \cup old)
        /\ config'.open = {seal} \cup old
    BY <1>1, Zenon
  <1>3. config.kept /\ config.open \subseteq config'.open
    BY <1>2, Zenon
  <1>4. \A i \in DOMAIN posts : Open(config', posts[i].secret) = Open(config, posts[i].secret)
    <2> SUFFICES ASSUME NEW i \in DOMAIN posts
                 PROVE  Open(config', posts[i].secret) = Open(config, posts[i].secret)
      OBVIOUS
    <2>1. posts[i].secret.coat \in config.open \cup {"none"}
      BY <1>3 DEF KeysAtHand
    <2>2. posts[i].secret \in Values
      BY TableRows DEF TypeOK, Posts
    <2>3. posts[i].secret = [text |-> posts[i].secret.text, coat |-> posts[i].secret.coat]
      BY <2>2 DEF Values
    <2> QED BY <1>3, <2>1, <2>3 DEF Open, Plain
  <1>5. Meaning(posts, config') = Meaning(posts, config)
    BY <1>4 DEF Meaning
  <1> QED BY <1>3, <1>5 DEF Redeploy

\* A request sent again after a success changes nothing that is read. (handleRequest)
THEOREM RetriesAreHarmless == Spec => RetriesChangeNothing
  <1> DEFINE harmless ==
        handled' # handled /\ answer'.req = answer.req /\ Succeeded(answer.status)
        /\ config.kept
        => /\ Meaning(posts', config) = Meaning(posts, config)
           /\ Len(posts') = Len(posts)
  <1>1. Init => Landed
    BY DEF Init, Landed
  <1>2. TypeOK /\ KeysAtHand /\ Landed /\ [Next]_vars => Landed'
    <2> SUFFICES ASSUME TypeOK, KeysAtHand, Landed, [Next]_vars PROVE Landed'
      OBVIOUS
    <2>1. ASSUME NEW q \in Requests, Handle(q) PROVE Landed'
      <3> DEFINE rows == Meaning(posts, config)
                 asked == Addressed(q)
      <3>1. Intended(Intended(rows, asked), asked) = Intended(rows, asked)
        BY MeaningsAreShown, IntendedTwice
      <3>2. /\ answer'.req = q /\ config' = config
            /\ Succeeded(answer'.status) => Meaning(posts', config) = Intended(rows, asked)
        BY <2>1, HandlingLands
      <3> HIDE DEF rows
      <3> QED BY <3>1, <3>2 DEF Landed
    <2>2. CASE Redeploy
      <3> SUFFICES ASSUME config'.kept PROVE Landed'
        BY DEF Landed
      <3> QED BY <2>2, RedeployingKeepsMeaning DEF Landed
    <2>3. CASE UNCHANGED <<posts, config, answer, handled>>
      BY <2>3 DEF Landed
    <2> QED BY <2>1, <2>2, <2>3 DEF Next, vars, Start, FindMany, Count, FindRelated, FollowNext,
               FollowLast, End
  <1>3. TypeOK /\ TypeOK' /\ Landed /\ [Next]_vars => [harmless]_vars
    <2> SUFFICES ASSUME TypeOK, TypeOK', Landed, [Next]_vars, handled' # handled,
                        answer'.req = answer.req, Succeeded(answer.status), config.kept
                 PROVE  /\ Meaning(posts', config) = Meaning(posts, config)
                        /\ Len(posts') = Len(posts)
      BY DEF vars
    <2>1. PICK q \in Requests : Handle(q)
      BY DEF Next, vars, Redeploy, Start, FindMany, Count, FindRelated, FollowNext, FollowLast, End
    <2>2. answer.req = q
      BY <2>1, HandlingLands
    <2>3. answer # NoAnswer
      <3>1. "by" \in DOMAIN q
        BY RequestTypes
      <3>2. DOMAIN <<>> = {}
        OBVIOUS
      <3> QED BY <2>2, <3>1, <3>2 DEF NoAnswer
    <2>4. Intended(Meaning(posts, config), Addressed(q)) = Meaning(posts, config)
      BY <2>2, <2>3 DEF Landed
    <2>5. Meaning(posts', config) = Meaning(posts, config)
      BY <2>1, <2>4, HandlingLands
    <2>6. posts \in Tables /\ posts' \in Tables
      BY DEF TypeOK
    <2> QED BY <2>5, <2>6, SameLength
  <1>4. Spec => []KeysAtHand
    BY KeysStayAtHand
  <1> QED BY <1>1, <1>2, <1>3, <1>4, WebTypeCorrect, PTL DEF Spec, RetriesChangeNothing
=============================================================================
