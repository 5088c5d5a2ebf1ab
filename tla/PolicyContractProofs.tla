------------------------- MODULE PolicyContractProofs -------------------------
(***************************************************************************)
(* That the write path implements the contract of an enhanced client, for  *)
(* any number of clients, rows, fields and policies, and that its refusals *)
(* are justified.  The argument is local: while a client is inside its     *)
(* transaction, the rows it sees are those of its snapshot under its own   *)
(* writes, and its stage says what is already known of them.               *)
(***************************************************************************)
EXTENDS PolicyWriteProofs

\* Set operations whose effect is the one the contract states: the entity
\* checkers of the written fields do not run for them,
FieldsUncompared(r) ==
    r.op = "updateMany" => \A f \in DOMAIN r.data : Pol(r).fieldChecker[f] = Sites

\* the candidates are taken by the guard of the model alone, and filtered by
\* a conjunction of their identities when the identity is compound.
Enforced(r) ==
    /\ FieldsUncompared(r)
    /\ r.op = "updateMany" =>
          /\ IsDirect(r) \/ UpdateGuard(Pol(r), DOMAIN r.data) \subseteq Pol(r).update
          /\ CompoundId => Pol(r).updateChecker = Sites
    /\ r.op = "deleteMany" /\ CompoundId => Pol(r).deleteChecker = Sites

\* A call whose payload could be written at all: some row is valid, and no two
\* items of it compete for an identity.
Settled(r) ==
    /\ Pol(r).valid # {}
    /\ r.op = "createMany" => \A x, y \in r.items : x.id = y.id => x = y

\* The rows s under the writes w.
Over(s, w) == [i \in Ids |-> IF i \in DOMAIN w THEN w[i] ELSE s[i]]

\* The checks ks decide whether the policy lets r take the rows s to t.
Decides(r, s, t, ks) ==
    /\ (\A k \in ks : CheckPasses(r, k, t)) => Contract!Permitted(r, s, t)
    /\ Settled(r) /\ (\E u \in States : Contract!Permitted(r, s, u))
          => \A k \in ks : CheckPasses(r, k, t)

\* The rows W are the ones the result of r shows, when it shows any.
Shows(r, s, t, W) ==
    Contract!ShowsResult(r) =>
        (Contract!Readable(r, s, t) <=> \A i \in W : Found(Pol(r).read, i, t))

-----------------------------------------------------------------------------
(* Guards and checks, for one row. *)

\* The contract is stated in the words the write path is written in.
LEMMA SameWords ==
    /\ Contract!Rows = Rows /\ Contract!Sites = Sites
    /\ \A r : Contract!Pol(r) = Pol(r)
    /\ \A row, data : Contract!Written(row, data) = Written(row, data)
    /\ \A p, op : Contract!StaticallyDenied(p, op) = StaticallyDenied(p, op)
    /\ \A g, i, s : Contract!Found(g, i, s) = Found(g, i, s)
    /\ \A p, data : Contract!ValidData(p, data) = ValidData(p, data)
    /\ \A p, F : Contract!UpdateGuard(p, F) = UpdateGuard(p, F)
    /\ \A p, F : Contract!UpdateChecker(p, F) = UpdateChecker(p, F)
    /\ \A r, s : Contract!Updatable(r, s) = Updatable(r, s)
    /\ \A r, s : Contract!Deletable(r, s) = Deletable(r, s)
<1>1. Contract!Rows = Rows
  BY DEF Contract!Rows, Rows
<1>2. Contract!States = States
  BY <1>1 DEF Contract!States, States
<1>3. Contract!Sites = Sites
  BY <1>2 DEF Contract!Sites, Sites
<1>4. \A r : Contract!Pol(r) = Pol(r)
  BY DEF Contract!Pol, Pol
<1>5. \A row, data : Contract!Written(row, data) = Written(row, data)
  BY DEF Contract!Written, Written
<1>6. \A p, op : Contract!StaticallyDenied(p, op) = StaticallyDenied(p, op)
  BY DEF Contract!StaticallyDenied, StaticallyDenied
<1>7. \A g, i, s : Contract!Found(g, i, s) = Found(g, i, s)
  BY DEF Contract!Found, Found
<1>8. \A p, data : Contract!ValidData(p, data) = ValidData(p, data)
  BY DEF Contract!ValidData, ValidData
<1>9. \A p, F : Contract!UpdateGuard(p, F) = UpdateGuard(p, F)
  BY <1>3 DEF Contract!UpdateGuard, UpdateGuard,
              Contract!RejectedByField, RejectedByField
<1>10. \A p, F : Contract!UpdateChecker(p, F) = UpdateChecker(p, F)
  BY DEF Contract!UpdateChecker, UpdateChecker
<1>11. \A r, s : Contract!Matching(r, s) = Matching(r, s)
  BY DEF Contract!Matching, Matching
<1>12. \A r, s : Contract!Updatable(r, s) = Updatable(r, s)
  BY <1>4, <1>9, <1>11 DEF Contract!Updatable, Updatable
<1>13. \A r, s : Contract!Deletable(r, s) = Deletable(r, s)
  BY <1>4, <1>11 DEF Contract!Deletable, Deletable
<1> QED
  BY <1>1, <1>3, <1>4, <1>5, <1>6, <1>7, <1>8, <1>9, <1>10, <1>12, <1>13

\* Every request is made under a policy definition that is coherent.
LEMMA PolicyIsTyped ==
    ASSUME NEW r \in Requests
    PROVE  Pol(r) \in PolicyType /\ Coherent(Pol(r))
<1>1. r.pol \in DOMAIN PolicyOf
  BY ConstantsAssumption DEF RequestType
<1> QED
  BY <1>1, PolicyAssumption DEF Pol

\* Where there is a row, passing a guard is to be one of its sites.
LEMMA PassesIsMembership ==
    ASSUME NEW g, NEW checker, NEW i \in Ids, NEW s \in States, s[i] # NoRow
    PROVE  Passes(g, checker, i, s) <=> <<i, s>> \in g \cap checker
  BY DEF Passes, Found, Sites

\* The check of a created row says what the contract says of it.
LEMMA CreateCheckIsExact ==
    ASSUME NEW r \in Requests, NEW x \in Items, NEW t \in States, t[x.id] = x.row
    PROVE  PassesCreate(Pol(r), x.id, t) <=> Contract!CreatedRow(Pol(r), x, t)
<1>1. x.id \in Ids /\ x.row \in Rows /\ x.row # NoRow
  BY NoRowAssumption DEF Items
<1> QED
  BY <1>1 DEF PassesCreate, Found, Sites, Contract!CreatedRow

\* A row whose payload the generator allows is created as the contract says,
\* and one it denies never is.
LEMMA StaticVerdictIsExact ==
    ASSUME NEW r \in Requests, NEW x \in Items, NEW t \in States, t[x.id] = x.row
    PROVE  /\ x.row \in Pol(r).inputAllow \cap Pol(r).valid
                 => Contract!CreatedRow(Pol(r), x, t)
           /\ x.row \in Pol(r).inputDeny => ~Contract!CreatedRow(Pol(r), x, t)
<1>1. x.id \in Ids /\ <<x.id, t>> \in Sites
  BY DEF Items, Sites
<1>2. <<x.id, t>>[2][<<x.id, t>>[1]] = x.row
  OBVIOUS
<1> QED
  BY <1>1, <1>2, PolicyIsTyped DEF Coherent, Contract!CreatedRow

\* The value a post-update check compares with.
PreValue(r, i, s) == IF Pol(r).needsPre THEN s[i] ELSE NoRow

\* The post-update check of a row says what the contract says of it,
LEMMA UpdateCheckIsExact ==
    ASSUME NEW r \in Requests, NEW i \in Ids, NEW s \in States,
           NEW t \in States, t[i] # NoRow
    PROVE  PassesPostUpdate(Pol(r), i, PreValue(r, i, s), t)
              <=> Contract!PostUpdated(r, i, s, t)
<1>1. <<i, PreValue(r, i, s), t>> \in PostSites /\ t[i] \in Rows
  BY DEF PostSites, PreValue, States
<1> QED
  BY <1>1, SameWords DEF PassesPostUpdate, Contract!PostUpdated, PreValue

\* and where none is needed the contract asks for nothing.
LEMMA NoCheckNeeded ==
    ASSUME NEW r \in Requests, NEW i \in Ids, NEW s \in States,
           NEW t \in States, t[i] # NoRow, ~NeedsPostUpdate(Pol(r))
    PROVE  Contract!PostUpdated(r, i, s, t)
<1>1. Pol(r).post = PostSites /\ Pol(r).valid = Rows
  BY PolicyIsTyped DEF Coherent, NeedsPostUpdate
<1> QED
  BY <1>1, UpdateCheckIsExact DEF PassesPostUpdate

-----------------------------------------------------------------------------
(* Effects of one row: the checks that are left decide them. *)

CreateCheck(i) == [kind |-> "create", id |-> i, pre |-> NoRow]
PostUpdateCheck(r, i, s) == [kind |-> "postUpdate", id |-> i, pre |-> PreValue(r, i, s)]

\* A check is of its kind.
LEMMA CheckOfKind ==
    ASSUME NEW r, NEW i, NEW s, NEW t
    PROVE  /\ CheckPasses(r, CreateCheck(i), t) <=> PassesCreate(Pol(r), i, t)
           /\ CheckPasses(r, PostUpdateCheck(r, i, s), t)
                 <=> PassesPostUpdate(Pol(r), i, PreValue(r, i, s), t)
<1>1. /\ CreateCheck(i).kind = "create" /\ CreateCheck(i).id = i
      /\ PostUpdateCheck(r, i, s).kind = "postUpdate"
      /\ PostUpdateCheck(r, i, s).id = i
      /\ PostUpdateCheck(r, i, s).pre = PreValue(r, i, s)
  BY DEF CreateCheck, PostUpdateCheck
<1> QED
  BY <1>1 DEF CheckPasses, PassesCreate, PassesPostUpdate

\* A row that create, or upsert where there is none, has inserted.
LEMMA CreateDecides ==
    ASSUME NEW r \in Requests, r.op \in {"create", "upsert"}, ~RefusedUpFront(r),
           NEW x \in r.items, NEW s \in States, s[x.id] = NoRow,
           r.op = "upsert" => s[r.id] = NoRow,
           x.row \in Pol(r).valid,
           NEW t, t = Over(s, [j \in {x.id} |-> x.row])
    PROVE  /\ Decides(r, s, t, IF r.op = "create" /\ x.row \in Pol(r).inputAllow
                               THEN {} ELSE {CreateCheck(x.id)})
           /\ Shows(r, s, t, {x.id})
<1> DEFINE ks == IF r.op = "create" /\ x.row \in Pol(r).inputAllow
                 THEN {} ELSE {CreateCheck(x.id)}
           created == Contract!CreatedRow(Pol(r), x, t)
<1>1. x \in Items /\ x.id \in Ids /\ x.row \in Rows /\ r.items = {x}
  BY RequestIsTyped, ConstantsAssumption DEF Items, WellFormed
<1>2. t = [s EXCEPT ![x.id] = x.row] /\ t \in States /\ t[x.id] = x.row
  BY <1>1 DEF Over, States
<1>3. Contract!CreateOne(r, s, t) <=> created
  BY <1>1, <1>2, StaticVerdictIsExact, SameWords DEF Contract!CreateOne
<1>4. \A u \in States : Contract!CreateOne(r, s, u) => u = t
  BY <1>1, <1>2 DEF Contract!CreateOne
<1>5. \A u \in States : Contract!Permitted(r, s, u) <=> Contract!CreateOne(r, s, u)
  BY SameWords DEF Contract!Permitted, RefusedUpFront
<1>6. (\A k \in ks : CheckPasses(r, k, t)) <=> created
  <2>1. CASE ks = {}
    BY <2>1, <1>1, <1>2, StaticVerdictIsExact
  <2>2. CASE ks = {CreateCheck(x.id)}
    <3>1. (\A k \in ks : CheckPasses(r, k, t)) <=> CheckPasses(r, CreateCheck(x.id), t)
      BY <2>2
    <3> QED
      BY <3>1, <1>1, <1>2, CreateCheckIsExact, CheckOfKind
  <2> QED
    BY <2>1, <2>2
<1>7. Decides(r, s, t, ks)
  BY <1>2, <1>3, <1>4, <1>5, <1>6 DEF Decides
<1>8. Contract!Readable(r, s, t) <=> <<x.id, t>> \in Pol(r).read
  BY <1>1, SameWords DEF Contract!Readable, Contract!NewIds
<1>9. Found(Pol(r).read, x.id, t) <=> <<x.id, t>> \in Pol(r).read
  BY <1>1, <1>2, NoRowAssumption DEF Found
<1> QED
  BY <1>7, <1>8, <1>9 DEF Shows

\* The checks due after an update of the row r names.
DueChecks(r, s) ==
    IF DOMAIN r.data = {} \/ ~NeedsPostUpdate(Pol(r)) THEN {}
    ELSE {PostUpdateCheck(r, r.id, s)}

\* A row that update, or upsert where there is one, has written.
LEMMA UpdateDecides ==
    ASSUME NEW r \in Requests, r.op \in {"update", "upsert"}, ~RefusedUpFront(r),
           NEW s \in States, s[r.id] # NoRow,
           DOMAIN r.data # {} => Allowed(r, s),
           NEW t, t = Over(s, [j \in {r.id} |-> Written(s[r.id], r.data)])
    PROVE  /\ Decides(r, s, t, DueChecks(r, s))
           /\ Shows(r, s, t, {r.id})
<1> DEFINE ks == DueChecks(r, s)
           updated == DOMAIN r.data # {} => Contract!PostUpdated(r, r.id, s, t)
<1>1. r.id \in Ids /\ r.data \in PartialRows /\ s[r.id] \in Rows
  BY RequestIsTyped DEF States
<1>2. Written(s[r.id], r.data) \in Rows
  BY <1>1, WrittenIsRow
<1>3. /\ t = [s EXCEPT ![r.id] = Written(s[r.id], r.data)]
      /\ t \in States /\ t[r.id] # NoRow
  BY <1>1, <1>2, NoRowAssumption DEF Over, States
<1>4. DOMAIN r.data # {} =>
          <<r.id, s>> \in UpdateGuard(Pol(r), DOMAIN r.data)
                             \cap UpdateChecker(Pol(r), DOMAIN r.data)
  BY <1>1, PassesIsMembership DEF Allowed, MayUpdate
<1>5. Contract!UpdateOne(r, s, t) <=> updated
  BY <1>3, <1>4, SameWords DEF Contract!UpdateOne
<1>6. \A u \in States : Contract!UpdateOne(r, s, u) => u = t
  BY <1>3, SameWords DEF Contract!UpdateOne
<1>7. \A u \in States : Contract!Permitted(r, s, u) <=> Contract!UpdateOne(r, s, u)
  BY SameWords DEF Contract!Permitted, RefusedUpFront
<1>8. (\A k \in ks : CheckPasses(r, k, t)) <=> updated
  <2>1. CASE DOMAIN r.data = {}
    BY <2>1 DEF DueChecks
  <2>2. CASE ~NeedsPostUpdate(Pol(r))
    BY <2>2, <1>1, <1>3, NoCheckNeeded DEF DueChecks
  <2>3. CASE DOMAIN r.data # {} /\ NeedsPostUpdate(Pol(r))
    <3>1. (\A k \in ks : CheckPasses(r, k, t))
             <=> CheckPasses(r, PostUpdateCheck(r, r.id, s), t)
      BY <2>3 DEF DueChecks
    <3> QED
      BY <3>1, <2>3, <1>1, <1>3, UpdateCheckIsExact, CheckOfKind
  <2> QED
    BY <2>1, <2>2, <2>3
<1>9. Decides(r, s, t, ks)
  BY <1>3, <1>5, <1>6, <1>7, <1>8 DEF Decides
<1>10. Contract!Readable(r, s, t) <=> Found(Pol(r).read, r.id, t)
  BY <1>3, SameWords DEF Contract!Readable, Found
<1> QED
  BY <1>9, <1>10 DEF Shows

\* A row that delete has removed, the guard having let it.
LEMMA DeleteIsPermitted ==
    ASSUME NEW r \in Requests, r.op = "delete",
           NEW s \in States, s[r.id] # NoRow, Allowed(r, s)
    PROVE  Contract!Permitted(r, s, Over(s, [j \in {r.id} |-> NoRow]))
<1>1. r.id \in Ids
  BY RequestIsTyped
<1>2. Over(s, [j \in {r.id} |-> NoRow]) = [s EXCEPT ![r.id] = NoRow]
  BY <1>1 DEF Over, States
<1>3. Found(Pol(r).delete \cap Pol(r).deleteChecker, r.id, s)
  BY <1>1, PassesIsMembership DEF Allowed, MayDelete, Found
<1> QED
  BY <1>2, <1>3, SameWords DEF Contract!Permitted, Contract!DeleteOne

-----------------------------------------------------------------------------
(* Effects of set operations. *)

\* States are told apart by their rows.
LEMMA StatesAreEqual ==
    ASSUME NEW s \in States, NEW t \in States, \A i \in Ids : s[i] = t[i]
    PROVE  s = t
  BY DEF States

\* The rows over s of a write of the model's identities.
LEMMA OverIsState ==
    ASSUME NEW s \in States, NEW w, DOMAIN w \subseteq Ids,
           \A i \in DOMAIN w : w[i] \in Rows \cup {NoRow}
    PROVE  /\ Over(s, w) \in States
           /\ \A i \in DOMAIN w : Over(s, w)[i] = w[i]
           /\ \A i \in Ids \ DOMAIN w : Over(s, w)[i] = s[i]
  BY DEF Over, States

\* What createMany has inserted, one item for each identity that was free.
LEMMA CreateManyDecides ==
    ASSUME NEW r \in Requests, r.op = "createMany", ~RefusedUpFront(r),
           NEW s \in States, NEW w, DOMAIN w = Contract!NewIds(r, s),
           \A i \in DOMAIN w : \E x \in r.items : x.id = i /\ x.row = w[i],
           ~r.skipDuplicates => /\ \A x \in r.items : s[x.id] = NoRow
                                /\ \A x, y \in r.items : x.id = y.id => x = y,
           NEW t, t = Over(s, w),
           NEW ks, ks = IF IsDirect(r) THEN {} ELSE {CreateCheck(i) : i \in DOMAIN w}
    PROVE  Decides(r, s, t, ks) /\ Shows(r, s, t, DOMAIN w)
<1> DEFINE created(i) == \E x \in r.items : x.id = i /\ Contract!CreatedRow(Pol(r), x, t)
<1>1. \A x \in r.items : x \in Items /\ x.id \in Ids /\ x.row \in Rows
  BY RequestIsTyped DEF Items
<1>2. DOMAIN w \subseteq Ids /\ \A i \in DOMAIN w : w[i] \in Rows
  BY <1>1 DEF Contract!NewIds
<1>3. /\ t \in States
      /\ \A i \in DOMAIN w : t[i] = w[i]
      /\ \A i \in Ids \ DOMAIN w : t[i] = s[i]
  BY <1>2, OverIsState
<1>4. \A x \in r.items : x.row \in Pol(r).valid /\ x.row \notin Pol(r).inputDeny
  BY DEF RefusedUpFront
<1>5. Contract!CreateAll(r, s, t) <=> \A i \in DOMAIN w : created(i)
  BY <1>3, <1>4, SameWords DEF Contract!CreateAll
<1>6. \A u \in States : Contract!Permitted(r, s, u) <=> Contract!CreateAll(r, s, u)
  BY SameWords DEF Contract!Permitted, RefusedUpFront
<1>7. ASSUME NEW u \in States, Contract!CreateAll(r, s, u), Settled(r)
      PROVE  u = t
  <2>1. ASSUME NEW i \in DOMAIN w PROVE u[i] = w[i]
    <3>1. PICK x \in r.items : x.id = i /\ Contract!CreatedRow(Pol(r), x, u)
      BY <1>7, SameWords DEF Contract!CreateAll
    <3>2. PICK y \in r.items : y.id = i /\ y.row = w[i]
      OBVIOUS
    <3>3. x = y
      BY <3>1, <3>2, <1>7 DEF Settled
    <3> QED
      BY <3>1, <3>2, <3>3 DEF Contract!CreatedRow
  <2>2. \A i \in Ids \ DOMAIN w : u[i] = s[i]
    BY <1>7 DEF Contract!CreateAll
  <2> QED
    BY <1>3, <2>1, <2>2 DEF States
<1>8. \A i \in DOMAIN w : created(i) <=> PassesCreate(Pol(r), i, t)
  <2> TAKE i \in DOMAIN w
  <2>1. PICK x \in r.items : x.id = i /\ x.row = t[i]
    BY <1>3
  <2>2. PassesCreate(Pol(r), i, t) <=> Contract!CreatedRow(Pol(r), x, t)
    BY <1>1, <1>3, <2>1, CreateCheckIsExact
  <2>3. \A y \in r.items : y.id = i /\ Contract!CreatedRow(Pol(r), y, t)
                             => Contract!CreatedRow(Pol(r), x, t)
    BY <2>1 DEF Contract!CreatedRow
  <2> QED
    BY <2>1, <2>2, <2>3
<1>9. (\A k \in ks : CheckPasses(r, k, t)) <=> \A i \in DOMAIN w : created(i)
  <2>1. CASE IsDirect(r)
    <3>1. \A x \in r.items : x.row \in Pol(r).inputAllow
      BY <2>1 DEF IsDirect
    <3>2. ASSUME NEW i \in DOMAIN w PROVE created(i)
      <4>1. PICK x \in r.items : x.id = i /\ x.row = t[i]
        BY <1>3
      <4>2. x.row \in Pol(r).inputAllow \cap Pol(r).valid
        BY <3>1, <1>4
      <4> QED
        BY <4>1, <4>2, <1>1, <1>3, StaticVerdictIsExact
    <3> QED
      BY <2>1, <3>2
  <2>2. CASE ~IsDirect(r)
    <3>1. (\A k \in ks : CheckPasses(r, k, t))
             <=> \A i \in DOMAIN w : CheckPasses(r, CreateCheck(i), t)
      BY <2>2
    <3> QED
      BY <3>1, <1>8, CheckOfKind
  <2> QED
    BY <2>1, <2>2
<1>10. Decides(r, s, t, ks)
  BY <1>3, <1>5, <1>6, <1>7, <1>9 DEF Decides
<1>11. \A i \in DOMAIN w : Found(Pol(r).read, i, t) <=> <<i, t>> \in Pol(r).read
  <2>1. ASSUME NEW i \in DOMAIN w PROVE t[i] # NoRow
    <3>1. t[i] = w[i] /\ w[i] \in Rows
      BY <1>2, <1>3
    <3> QED
      BY <3>1, NoRowAssumption
  <2> QED
    BY <2>1 DEF Found
<1>12. Shows(r, s, t, DOMAIN w)
  BY <1>11, SameWords DEF Shows, Contract!Readable
<1> QED
  BY <1>10, <1>12

\* The rows updateMany should change, when no field has a checker of its own.
LEMMA ChosenIsUpdatable ==
    ASSUME NEW r \in Requests, r.op = "updateMany", FieldsUncompared(r),
           NEW s \in States
    PROVE  Contract!Chosen(r, s)
              = {i \in Updatable(r, s) : <<i, s>> \in Pol(r).updateChecker}
<1>1. \A i \in Updatable(r, s) : <<i, s>> \in Sites
  BY DEF Updatable, Matching, Sites
<1>2. \A i \in Updatable(r, s) :
         <<i, s>> \in UpdateChecker(Pol(r), DOMAIN r.data)
            <=> <<i, s>> \in Pol(r).updateChecker
  BY <1>1 DEF UpdateChecker, FieldsUncompared
<1> QED
  BY <1>2, SameWords DEF Contract!Chosen

\* What updateMany has written to the rows it should change.
LEMMA UpdateManyDecides ==
    ASSUME NEW r \in Requests, r.op = "updateMany", ~RefusedUpFront(r),
           NEW s \in States,
           NEW t, t = Over(s, [i \in Contract!Chosen(r, s) |-> Written(s[i], r.data)]),
           NEW ks, \/ ks = {PostUpdateCheck(r, i, s) : i \in Contract!Chosen(r, s)}
                   \/ ks = {} /\ ~NeedsPostUpdate(Pol(r))
    PROVE  Decides(r, s, t, ks) /\ Shows(r, s, t, Contract!Chosen(r, s))
<1> DEFINE C == Contract!Chosen(r, s)
           w == [i \in C |-> Written(s[i], r.data)]
           updated(i) == Contract!PostUpdated(r, i, s, t)
<1>1. \A i \in C : i \in Ids /\ s[i] \in Rows
  BY SameWords DEF Contract!Chosen, Updatable, Matching, States
<1>2. \A i \in C : w[i] \in Rows
  BY <1>1, WrittenIsRow, RequestIsTyped
<1>3. /\ t \in States
      /\ \A i \in C : t[i] = Written(s[i], r.data) /\ t[i] # NoRow
      /\ \A i \in Ids \ C : t[i] = s[i]
  BY <1>1, <1>2, OverIsState, NoRowAssumption
<1>4. ValidData(Pol(r), r.data)
  BY DEF RefusedUpFront
<1>5. Contract!UpdateAll(r, s, t) <=> \A i \in C : updated(i)
  BY <1>3, <1>4, SameWords DEF Contract!UpdateAll
<1>6. ASSUME NEW u \in States, Contract!UpdateAll(r, s, u)
      PROVE  u = t
  <2>1. \A i \in Ids : u[i] = t[i]
    BY <1>3, <1>6, SameWords DEF Contract!UpdateAll
  <2>2. t \in States
    BY <1>3
  <2> QED
    BY <2>1, <2>2, StatesAreEqual
<1>7. \A u \in States : Contract!Permitted(r, s, u) <=> Contract!UpdateAll(r, s, u)
  BY SameWords DEF Contract!Permitted, RefusedUpFront
<1>8. (\A k \in ks : CheckPasses(r, k, t)) <=> \A i \in C : updated(i)
  <2>1. CASE ks = {} /\ ~NeedsPostUpdate(Pol(r))
    BY <2>1, <1>1, <1>3, NoCheckNeeded
  <2>2. CASE ks = {PostUpdateCheck(r, i, s) : i \in C}
    <3>1. (\A k \in ks : CheckPasses(r, k, t))
             <=> \A i \in C : CheckPasses(r, PostUpdateCheck(r, i, s), t)
      BY <2>2
    <3> QED
      BY <3>1, <1>1, <1>3, UpdateCheckIsExact, CheckOfKind
  <2> QED
    BY <2>1, <2>2
<1>9. Decides(r, s, t, ks)
  BY <1>3, <1>5, <1>6, <1>7, <1>8 DEF Decides
<1>10. \A i \in C : Found(Pol(r).read, i, t) <=> <<i, t>> \in Pol(r).read
  BY <1>3 DEF Found
<1>11. Shows(r, s, t, C)
  BY <1>10, SameWords DEF Shows, Contract!Readable
<1> QED
  BY <1>9, <1>11

\* What deleteMany has removed, the guard and the checker having let it.
LEMMA DeleteManyIsPermitted ==
    ASSUME NEW r \in Requests, r.op = "deleteMany", ~RefusedUpFront(r),
           NEW s \in States,
           NEW D, D = {i \in Deletable(r, s) : <<i, s>> \in Pol(r).deleteChecker}
    PROVE  /\ Contract!Permitted(r, s, Over(s, [i \in D |-> NoRow]))
           /\ ~Contract!ShowsResult(r)
<1>1. D \subseteq Ids
  BY DEF Deletable, Matching
<1>2. Contract!DeleteAll(r, s, Over(s, [i \in D |-> NoRow]))
  BY <1>1, SameWords DEF Contract!DeleteAll, Over
<1>3. ~StaticallyDenied(Pol(r), "delete")
  BY DEF RefusedUpFront
<1>4. ~r.returning
  BY ConstantsAssumption DEF WellFormed
<1> QED
  BY <1>2, <1>3, <1>4, SameWords DEF Contract!Permitted, Contract!ShowsResult

-----------------------------------------------------------------------------
(* The invariant.  Stage by stage, what is known of the client c whose      *)
(* transaction reads its snapshot: which writes it has made, what it has    *)
(* decided, which checks are left and what they decide, what it answers.    *)

OwnView(c) == [i \in Ids |-> IF wr[c][i] = Clean THEN snap[c][i] ELSE wr[c][i]]

Untouched(c) == wr[c] = AllClean /\ checks[c] = {}
Silent(c) == resp[c] = "none"

\* a delete knows its answer before it begins to check
Told(c) ==
    resp[c] = IF req[c].op # "delete" THEN "none"
              ELSE IF Found(Pol(req[c]).read, req[c].id, snap[c])
              THEN "ok" ELSE "notReadable"

IsSingle(r) == r.op \in {"update", "upsert", "delete"}
HasRow(c) == snap[c][req[c].id] # NoRow
Possible(c) == \E u \in States : Contract!Permitted(req[c], snap[c], u)

\* A refusal a is justified by what the call saw: the policy permits no
\* outcome of it, or there is no row.
Justified(c, a) ==
    /\ a = "denied" /\ Settled(req[c]) => ~Possible(c)
    /\ a = "notFound" => ~HasRow(c)

AtBegin(c) == Untouched(c) /\ Silent(c)
AtDirect(c) == IsDirect(req[c]) /\ req[c].app = "plain"
AtProbe(c) == Untouched(c) /\ Silent(c) /\ req[c].op = "upsert"
AtInsert(c) ==
    /\ Untouched(c) /\ Silent(c)
    /\ req[c].op \in {"create", "upsert"}
    /\ req[c].op = "upsert" => ~HasRow(c)
AtReadFirst(c) == Untouched(c) /\ Silent(c) /\ req[c].op = "delete"
AtExist(c) ==
    /\ Untouched(c) /\ Told(c) /\ IsSingle(req[c])
    /\ req[c].op = "upsert" => HasRow(c)
AtCheck(c) ==
    /\ Untouched(c) /\ Told(c) /\ IsSingle(req[c]) /\ HasRow(c)
    /\ req[c].op # "delete" => DOMAIN req[c].data # {}
AtPre(c) ==
    /\ wr[c] = AllClean /\ Silent(c) /\ req[c].op \in {"update", "upsert"}
    /\ HasRow(c) /\ DOMAIN req[c].data # {} /\ Allowed(req[c], snap[c])
    /\ NeedsPostUpdate(Pol(req[c])) /\ Pol(req[c]).needsPre
AtWrite(c) ==
    /\ wr[c] = AllClean /\ Told(c) /\ IsSingle(req[c]) /\ HasRow(c)
    /\ req[c].op = "delete" \/ DOMAIN req[c].data # {} => Allowed(req[c], snap[c])
    /\ req[c].op # "delete" => checks[c] = DueChecks(req[c], snap[c])

\* createMany with the items T left and the rows w written over s: an item is
\* done when its row is written or found, and no two are done for one identity
\* unless duplicates are skipped
ItemDone(T, x) == <<x, "lookup">> \notin T /\ <<x, "create">> \notin T
KnowsItems(r, s, w, T) ==
    /\ T \subseteq r.items \X {"lookup", "create"}
    /\ ~r.skipDuplicates => T \subseteq r.items \X {"create"}
    /\ \A i \in Ids : w[i] # Clean =>
          s[i] = NoRow /\ \E x \in r.items : x.id = i /\ x.row = w[i]
    /\ \A x \in r.items : ItemDone(T, x) =>
          w[x.id] # Clean \/ (r.skipDuplicates /\ s[x.id] # NoRow)
    /\ ~r.skipDuplicates =>
          \A x, y \in r.items : ItemDone(T, x) /\ ItemDone(T, y) /\ x.id = y.id => x = y
AtItems(c) ==
    /\ req[c].op = "createMany" /\ ~IsDirect(req[c]) /\ Silent(c) /\ todo[c] # {}
    /\ KnowsItems(req[c], snap[c], wr[c], todo[c])
    /\ checks[c] = {CreateCheck(i) : i \in WrittenIds(c)}
AtCandidates(c) ==
    /\ Untouched(c) /\ Silent(c) /\ ~IsDirect(req[c])
    /\ req[c].op \in {"updateMany", "deleteMany"}

\* the native statement of a set operation: what its filter picks, and the
\* checks its candidates have registered
AtNative(c) ==
    LET r == req[c]
        s == snap[c]
    IN /\ wr[c] = AllClean /\ Silent(c)
       /\ \/ /\ IsDirect(r) /\ r.op \in {"createMany", "updateMany", "deleteMany"}
             /\ checks[c] = {} /\ picked[c] = Ids
          \/ /\ ~IsDirect(r) /\ r.op = "deleteMany"
             /\ checks[c] = {} /\ picked[c] = IdFilter(DeleteCandidates(r, s))
          \/ /\ ~IsDirect(r) /\ r.op = "updateMany"
             /\ checks[c] = {PostUpdateCheck(r, i, s) : i \in UpdateCandidates(r, s)}
             /\ picked[c] = IF Pol(r).updateChecker = Sites THEN Ids
                            ELSE IdFilter(UpdateCandidates(r, s))

AtPost(c) ==
    /\ Silent(c) /\ req[c].op # "delete"
    /\ Decides(req[c], snap[c], OwnView(c), checks[c])
    /\ Shows(req[c], snap[c], OwnView(c), WrittenIds(c))
AtReadBack(c) ==
    /\ Silent(c) /\ req[c].op # "delete" /\ Contract!ShowsResult(req[c])
    /\ Contract!Permitted(req[c], snap[c], OwnView(c))
    /\ Shows(req[c], snap[c], OwnView(c), WrittenIds(c))
AtCommit(c) ==
    LET shown == Contract!ShowsResult(req[c])
        readable == Contract!Readable(req[c], snap[c], OwnView(c))
    IN /\ resp[c] \notin Refusals => Contract!Permitted(req[c], snap[c], OwnView(c))
       /\ resp[c] = "none" /\ shown => req[c].op = "updateMany" /\ req[c].app = "plain"
       /\ resp[c] = "ok" => shown /\ readable
       /\ resp[c] = "notReadable" => shown /\ ~readable
       /\ resp[c] \in Refusals => req[c].app = "swallow" /\ Justified(c, resp[c])
       /\ resp[c] # "dbError"

Follows(c) ==
    /\ pc[c] \in Stages \cup {"direct"} => ~RefusedUpFront(req[c])
    /\ pc[c] \in {"idle", "called", "begin"} => AtBegin(c)
    /\ pc[c] = "direct" => AtDirect(c)
    /\ pc[c] = "probe" => AtProbe(c)
    /\ pc[c] = "insert" => AtInsert(c)
    /\ pc[c] = "readFirst" => AtReadFirst(c)
    /\ pc[c] = "exist" => AtExist(c)
    /\ pc[c] = "check" => AtCheck(c)
    /\ pc[c] = "pre" => AtPre(c)
    /\ pc[c] = "write" => AtWrite(c)
    /\ pc[c] = "items" => AtItems(c)
    /\ pc[c] = "candidates" => AtCandidates(c)
    /\ pc[c] = "native" => AtNative(c)
    /\ pc[c] = "post" => AtPost(c)
    /\ pc[c] = "readBack" => AtReadBack(c)
    /\ pc[c] = "commit" => AtCommit(c)

Kept(r) == r.isolation # "ReadCommitted" /\ Enforced(r)
Inv == \A c \in Clients : pc[c] = "idle" \/ Kept(req[c]) => Follows(c)

-----------------------------------------------------------------------------
(* What a transaction sees. *)

\* Its own view is a database state, the snapshot while nothing is written,
\* and what its statements see unless each of them reads what is committed.
LEMMA OwnViewIsSeen ==
    ASSUME TypeOK, NEW c \in Clients
    PROVE  /\ snap[c] \in States /\ OwnView(c) \in States
           /\ wr[c] = AllClean => OwnView(c) = snap[c]
           /\ req[c].isolation # "ReadCommitted" => View(c) = OwnView(c)
<1>1. snap[c] \in States /\ wr[c] \in [Ids -> Rows \cup {NoRow, Clean}]
  BY DEF TypeOK
<1>2. OwnView(c) \in States
  BY <1>1 DEF OwnView, States
<1>3. ASSUME wr[c] = AllClean PROVE OwnView(c) = snap[c]
  <2>1. \A i \in Ids : OwnView(c)[i] = snap[c][i]
    BY <1>3 DEF OwnView, AllClean
  <2> QED
    BY <2>1, <1>1, <1>2, StatesAreEqual
<1>4. req[c].isolation # "ReadCommitted" => View(c) = OwnView(c)
  BY DEF View, Base, OwnView
<1> QED
  BY <1>1, <1>2, <1>3, <1>4

\* Its first writes w appear over the snapshot.
LEMMA PutIsOver ==
    ASSUME TypeOK, NEW c \in Clients, wr[c] = AllClean, snap' = snap,
           NEW w, Put(c, w), DOMAIN w \subseteq Ids,
           \A i \in DOMAIN w : w[i] \in Rows \cup {NoRow}
    PROVE  OwnView(c)' = Over(snap[c], w) /\ WrittenIds(c)' = DOMAIN w
<1>1. wr'[c] = [i \in Ids |-> IF i \in DOMAIN w THEN w[i] ELSE Clean]
  BY DEF TypeOK, Put, AllClean
<1>2. \A i \in DOMAIN w : w[i] # Clean
  BY ConstantsAssumption
<1>3. \A i \in Ids : IF i \in DOMAIN w
                     THEN wr'[c][i] = w[i] /\ wr'[c][i] # Clean
                     ELSE wr'[c][i] = Clean
  BY <1>1, <1>2
<1>4. WrittenIds(c)' = DOMAIN w
  BY <1>3 DEF WrittenIds
<1>5. OwnView(c)' = Over(snap[c], w)
  BY <1>3 DEF OwnView, Over
<1> QED
  BY <1>4, <1>5

-----------------------------------------------------------------------------
(* Control: refusing, ending, and going on to the checks. *)

\* Ending a call leaves nothing to know.
LEMMA FinishFollows ==
    ASSUME TypeOK, NEW c \in Clients, NEW a, Finish(c, a)
    PROVE  Follows(c)'
<1>1. pc'[c] = "done"
  BY DEF TypeOK, Finish, Goto
<1> QED
  BY <1>1 DEF Follows, Stages

\* a call that ends with a refusal ends with a justified one
AnswersJustly(c) ==
    pc'[c] = "done" /\ resp'[c] \in Refusals => Justified(c, resp'[c])

\* A refusal that is justified is known to be when its caller commits.
LEMMA RefuseFollows ==
    ASSUME TypeOK, NEW c \in Clients, NEW a \in Refusals, Refuse(c, a),
           ~RefusedUpFront(req[c]), Justified(c, a)
    PROVE  Follows(c)' /\ AnswersJustly(c)
<1>1. CASE req[c].app = "swallow"
  <2>1. /\ pc'[c] = "commit" /\ resp'[c] = a
        /\ UNCHANGED <<req, snap, wr>>
    BY <1>1 DEF TypeOK, Refuse, Goto, Answer
  <2>2. AtCommit(c)'
    BY <1>1, <2>1 DEF AtCommit, Refusals, Justified, Possible, HasRow
  <2> QED
    BY <2>1, <2>2 DEF Follows, AnswersJustly
<1>2. CASE req[c].app # "swallow"
  <2>1. Finish(c, a)
    BY <1>2 DEF Refuse
  <2>2. resp'[c] = a
    BY <2>1 DEF TypeOK, Finish, Answer
  <2> QED
    BY <2>1, <2>2, FinishFollows DEF AnswersJustly
<1> QED
  BY <1>1, <1>2

\* The stage after the writes knows what the checks that are left decide.
LEMMA RegisterFollows ==
    ASSUME TypeOK, NEW c \in Clients, req[c] \in Requests,
           ~RefusedUpFront(req[c]), req[c].op # "delete", Silent(c),
           NEW ks, Register(c, ks), UNCHANGED <<req, snap, resp>>,
           Decides(req[c], snap[c], OwnView(c)', ks),
           Shows(req[c], snap[c], OwnView(c)', WrittenIds(c)')
    PROVE  Follows(c)' /\ AnswersJustly(c)
<1>1. /\ checks'[c] = ks
      /\ pc'[c] = IF ks = {} THEN AfterChecks(req[c]) ELSE "post"
      /\ req'[c] = req[c] /\ snap'[c] = snap[c] /\ resp'[c] = "none"
  BY DEF TypeOK, Register, Goto, Silent
<1>2. CASE ks # {}
  <2>1. AtPost(c)'
    BY <1>1 DEF AtPost, Silent
  <2> QED
    BY <1>1, <1>2, <2>1 DEF Follows, AnswersJustly
<1>3. CASE ks = {} /\ AfterChecks(req[c]) = "readBack"
  <2>1. Contract!Permitted(req[c], snap[c], OwnView(c)')
    BY <1>3 DEF Decides
  <2>2. Contract!ShowsResult(req[c])
    BY <1>3 DEF AfterChecks, Contract!ShowsResult
  <2>3. AtReadBack(c)'
    BY <1>1, <2>1, <2>2 DEF AtReadBack, Silent
  <2> QED
    BY <1>1, <1>3, <2>3 DEF Follows, AnswersJustly
<1>4. CASE ks = {} /\ AfterChecks(req[c]) = "commit"
  <2>1. Contract!Permitted(req[c], snap[c], OwnView(c)')
    BY <1>4 DEF Decides
  <2>2. Contract!ShowsResult(req[c]) =>
            req[c].op = "updateMany" /\ req[c].app = "plain"
    <3>1. req[c].returning => req[c].op \in {"createMany", "updateMany"}
      BY ConstantsAssumption DEF WellFormed
    <3> QED
      BY <3>1, <1>4 DEF AfterChecks, Contract!ShowsResult
  <2>3. AtCommit(c)'
    BY <1>1, <2>1, <2>2 DEF AtCommit, Refusals
  <2> QED
    BY <1>1, <1>4, <2>3 DEF Follows, AnswersJustly
<1>5. AfterChecks(req[c]) \in {"readBack", "commit"}
  BY DEF AfterChecks
<1> QED
  BY <1>2, <1>3, <1>4, <1>5

-----------------------------------------------------------------------------
(* One lemma per action: what its stage knows leads to what the next knows. *)

\* A call that is made or prepared has done nothing yet.
LEMMA PrepareFollows ==
    ASSUME TypeOK, NEW c \in Clients, Follows(c), Prepare(c)
    PROVE  Follows(c)'
<1>1. AtBegin(c) /\ UNCHANGED <<db, req, snap, wr, checks, todo, picked>>
  BY DEF Prepare, Follows
<1>2. CASE RefusedUpFront(req[c])
  BY <1>2 DEF TypeOK, Prepare, Goto, Follows, Stages
<1>3. CASE ~RefusedUpFront(req[c])
  <2>1. AtBegin(c)'
    BY <1>1, <1>3 DEF Prepare, AtBegin, Untouched, Silent
  <2>2. \/ pc'[c] = "begin"
        \/ pc'[c] = "direct" /\ AtDirect(c)
    BY <1>3 DEF TypeOK, Prepare, Goto, AtDirect
  <2> QED
    BY <1>1, <1>3, <2>1, <2>2 DEF Follows, AtDirect, Stages
<1> QED
  BY <1>2, <1>3

\* A transaction begins at the first stage of its operation, on the rows as they are.
LEMMA BeginFollows ==
    ASSUME TypeOK, NEW c \in Clients, req[c] \in Requests, Follows(c), Begin(c)
    PROVE  Follows(c)'
<1> DEFINE r == req[c]
<1>1. /\ AtBegin(c) /\ ~RefusedUpFront(r)
      /\ UNCHANGED <<db, req, wr, checks, resp>>
  BY DEF Begin, Follows, Stages
<1>2. /\ pc'[c] = FirstStage(r) /\ snap'[c] = db /\ picked'[c] = Ids
      /\ todo'[c] = IF FirstStage(r) # "items" THEN {}
                    ELSE r.items \X {IF r.skipDuplicates THEN "lookup" ELSE "create"}
  BY DEF TypeOK, Begin, Goto
<1>3. wr'[c] = AllClean /\ checks'[c] = {} /\ resp'[c] = "none" /\ req'[c] = r
  BY <1>1 DEF AtBegin, Untouched, Silent
<1>4. CASE r.op = "create"
  <2>1. pc'[c] = "insert"
    BY <1>2, <1>4 DEF FirstStage
  <2>2. AtInsert(c)'
    BY <1>3, <1>4 DEF AtInsert, Untouched, Silent
  <2> QED
    BY <1>1, <2>1, <2>2 DEF Follows
<1>5. CASE r.op = "update"
  <2>1. pc'[c] = "exist"
    BY <1>2, <1>5 DEF FirstStage
  <2>2. AtExist(c)'
    BY <1>3, <1>5 DEF AtExist, Untouched, Told, IsSingle
  <2> QED
    BY <1>1, <2>1, <2>2 DEF Follows
<1>6. CASE r.op = "upsert"
  <2>1. pc'[c] = "probe"
    BY <1>2, <1>6 DEF FirstStage
  <2>2. AtProbe(c)'
    BY <1>3, <1>6 DEF AtProbe, Untouched, Silent
  <2> QED
    BY <1>1, <2>1, <2>2 DEF Follows
<1>7. CASE r.op = "delete"
  <2>1. pc'[c] = "readFirst"
    BY <1>2, <1>7 DEF FirstStage
  <2>2. AtReadFirst(c)'
    BY <1>3, <1>7 DEF AtReadFirst, Untouched, Silent
  <2> QED
    BY <1>1, <2>1, <2>2 DEF Follows
<1>8. CASE r.op \in {"createMany", "updateMany", "deleteMany"} /\ IsDirect(r)
  <2>1. pc'[c] = "native"
    BY <1>2, <1>8 DEF FirstStage
  <2>2. AtNative(c)'
    BY <1>2, <1>3, <1>8 DEF AtNative, Silent
  <2> QED
    BY <1>1, <2>1, <2>2 DEF Follows
<1>9. CASE r.op \in {"updateMany", "deleteMany"} /\ ~IsDirect(r)
  <2>1. pc'[c] = "candidates"
    BY <1>2, <1>9 DEF FirstStage
  <2>2. AtCandidates(c)'
    BY <1>3, <1>9 DEF AtCandidates, Untouched, Silent
  <2> QED
    BY <1>1, <2>1, <2>2 DEF Follows
<1>10. CASE r.op = "createMany" /\ ~IsDirect(r)
  <2>1. pc'[c] = "items"
    BY <1>2, <1>10 DEF FirstStage
  <2>2. todo'[c] = r.items \X {IF r.skipDuplicates THEN "lookup" ELSE "create"}
    BY <1>2, <2>1
  <2>3. r.items # {}
    BY <1>10 DEF IsDirect
  <2>4. /\ todo'[c] # {} /\ todo'[c] \subseteq r.items \X {"lookup", "create"}
        /\ ~r.skipDuplicates => todo'[c] \subseteq r.items \X {"create"}
        /\ \A x \in r.items : ~ItemDone(todo'[c], x)
    <3>1. PICK x \in r.items : TRUE
      BY <2>3
    <3>2. CASE r.skipDuplicates
      <4>1. todo'[c] = r.items \X {"lookup"}
        BY <2>2, <3>2
      <4>2. \A y \in r.items : <<y, "lookup">> \in todo'[c]
        BY <4>1
      <4> QED
        BY <3>2, <4>1, <4>2 DEF ItemDone
    <3>3. CASE ~r.skipDuplicates
      <4>1. todo'[c] = r.items \X {"create"}
        BY <2>2, <3>3
      <4>2. \A y \in r.items : <<y, "create">> \in todo'[c]
        BY <4>1
      <4> QED
        BY <4>1, <4>2 DEF ItemDone
    <3> QED
      BY <3>2, <3>3
  <2>5. \A i \in Ids : wr'[c][i] = Clean
    BY <1>3 DEF AllClean
  <2>6. checks'[c] = {CreateCheck(i) : i \in WrittenIds(c)'}
    BY <1>3, <2>5 DEF WrittenIds
  <2>7. KnowsItems(r, snap'[c], wr'[c], todo'[c])
    BY <2>4, <2>5 DEF KnowsItems
  <2>8. AtItems(c)'
    BY <1>3, <1>10, <2>4, <2>6, <2>7 DEF AtItems, Silent
  <2> QED
    BY <1>1, <2>1, <2>8 DEF Follows
<1> QED
  BY <1>4, <1>5, <1>6, <1>7, <1>8, <1>9, <1>10, RequestIsTyped DEF Ops

\* An upsert takes the branch its row decides.
LEMMA ProbeFollows ==
    ASSUME TypeOK, NEW c \in Clients, Kept(req[c]), Follows(c), Probe(c)
    PROVE  Follows(c)'
<1>1. /\ AtProbe(c) /\ ~RefusedUpFront(req[c])
      /\ UNCHANGED <<db, req, snap, wr, checks, todo, picked, resp>>
  BY DEF Probe, Follows, Stages
<1>2. View(c) = snap[c]
  BY <1>1, OwnViewIsSeen DEF Kept, AtProbe, Untouched
<1>3. CASE HasRow(c)
  <2>1. pc'[c] = "exist"
    BY <1>2, <1>3 DEF TypeOK, Probe, Goto, HasRow
  <2>2. AtExist(c)'
    BY <1>1, <1>3 DEF AtProbe, AtExist, Untouched, Silent, Told, IsSingle, HasRow
  <2> QED
    BY <1>1, <2>1, <2>2 DEF Follows
<1>4. CASE ~HasRow(c)
  <2>1. pc'[c] = "insert"
    BY <1>2, <1>4 DEF TypeOK, Probe, Goto, HasRow
  <2>2. AtInsert(c)'
    BY <1>1, <1>4 DEF AtProbe, AtInsert, Untouched, Silent, HasRow
  <2> QED
    BY <1>1, <2>1, <2>2 DEF Follows
<1> QED
  BY <1>3, <1>4

\* A delete reads what it will answer from its snapshot.
LEMMA ReadFirstFollows ==
    ASSUME TypeOK, NEW c \in Clients, Kept(req[c]), Follows(c), ReadFirst(c)
    PROVE  Follows(c)'
<1>1. /\ AtReadFirst(c) /\ ~RefusedUpFront(req[c])
      /\ UNCHANGED <<db, req, snap, wr, checks, todo, picked>>
  BY DEF ReadFirst, Follows, Stages
<1>2. View(c) = snap[c]
  BY <1>1, OwnViewIsSeen DEF Kept, AtReadFirst, Untouched
<1>3. /\ pc'[c] = "exist"
      /\ resp'[c] = IF Found(Pol(req[c]).read, req[c].id, snap[c])
                    THEN "ok" ELSE "notReadable"
  BY <1>2 DEF TypeOK, ReadFirst, Goto, Answer
<1>4. AtExist(c)'
  BY <1>1, <1>3 DEF AtReadFirst, AtExist, Untouched, Told, IsSingle
<1> QED
  BY <1>1, <1>3, <1>4 DEF Follows

\* An update the schema or a constant guard denies is one no state permits.
LEMMA DeniedUpdateIsImpossible ==
    ASSUME NEW r \in Requests, r.op \in {"update", "upsert"},
           NEW s \in States, s[r.id] # NoRow,
           \/ ~ValidData(Pol(r), r.data) /\ Settled(r)
           \/ DOMAIN r.data # {} /\ StaticallyDenied(Pol(r), "update"),
           NEW u \in States, Contract!Permitted(r, s, u)
    PROVE  FALSE
<1>1. Contract!UpdateOne(r, s, u)
  BY DEF Contract!Permitted
<1>2. CASE DOMAIN r.data # {} /\ StaticallyDenied(Pol(r), "update")
  <2>1. PICK f \in DOMAIN r.data : TRUE
    BY <1>2
  <2>2. f \in Fields
    BY RequestIsTyped DEF PartialRows
  <2>3. Pol(r).update = {} /\ Pol(r).override[f] = {}
    BY <1>2, <2>2 DEF StaticallyDenied
  <2>4. <<r.id, s>> \notin UpdateGuard(Pol(r), DOMAIN r.data)
    BY <2>1, <2>3 DEF UpdateGuard
  <2> QED
    BY <1>1, <1>2, <2>4, SameWords DEF Contract!UpdateOne
<1>3. CASE DOMAIN r.data = {} /\ Settled(r)
  BY <1>3 DEF ValidData, Settled
<1>4. CASE DOMAIN r.data # {} /\ ~ValidData(Pol(r), r.data)
  <2>1. u[r.id] \in Pol(r).valid /\ u[r.id] = Written(s[r.id], r.data)
    BY <1>1, <1>4, SameWords, RequestIsTyped
       DEF Contract!UpdateOne, Contract!PostUpdated, States
  <2>2. \A f \in DOMAIN r.data : f \in Fields
    BY RequestIsTyped DEF PartialRows
  <2>3. \A f \in DOMAIN r.data : u[r.id][f] = r.data[f]
    BY <2>1, <2>2 DEF Written
  <2> QED
    BY <1>4, <2>1, <2>3 DEF ValidData
<1> QED
  BY <1>2, <1>3, <1>4

\* Past the look for the row there is one, or it is reported missing; data that no valid
\* row has, or a guard that is constantly false, denies what no outcome could do.
LEMMA ExistFollows ==
    ASSUME TypeOK, NEW c \in Clients, req[c] \in Requests, Kept(req[c]),
           Follows(c), Exist(c)
    PROVE  Follows(c)' /\ AnswersJustly(c)
<1> DEFINE r == req[c]
           isUpdate == r.op # "delete"
           writesRow == isUpdate /\ DOMAIN r.data # {}
           denied == \/ isUpdate /\ ~ValidData(Pol(r), r.data)
                     \/ writesRow /\ StaticallyDenied(Pol(r), "update")
<1>1. AtExist(c) /\ ~RefusedUpFront(r)
  BY DEF Exist, Follows, Stages
<1>2. View(c) = snap[c] /\ snap[c] \in States
  BY <1>1, OwnViewIsSeen DEF Kept, AtExist, Untouched
<1>3. CASE ~HasRow(c) /\ Refuse(c, "notFound")
  BY <1>1, <1>3, RefuseFollows DEF Refusals, Justified
<1>4. CASE HasRow(c) /\ denied /\ Refuse(c, "denied")
  <2>1. r.op \in {"update", "upsert"}
    BY <1>1, <1>4 DEF AtExist, IsSingle
  <2>2. Settled(r) => ~Possible(c)
    BY <1>2, <1>4, <2>1, DeniedUpdateIsImpossible DEF Possible, HasRow
  <2> QED
    BY <1>1, <1>4, <2>2, RefuseFollows DEF Refusals, Justified
<1>5. CASE /\ HasRow(c) /\ ~denied
           /\ Goto(c, IF isUpdate /\ ~writesRow THEN "write" ELSE "check")
           /\ UNCHANGED <<db, req, snap, wr, checks, todo, picked, resp>>
  <2>1. CASE isUpdate /\ ~writesRow
    <3>1. pc'[c] = "write"
      BY <1>5, <2>1 DEF TypeOK, Goto
    <3>2. AtWrite(c)'
      BY <1>1, <1>5, <2>1
         DEF AtExist, AtWrite, Untouched, Told, IsSingle, HasRow, DueChecks
    <3> QED
      BY <1>1, <1>5, <3>1, <3>2 DEF Follows, AnswersJustly
  <2>2. CASE ~(isUpdate /\ ~writesRow)
    <3>1. pc'[c] = "check"
      BY <1>5, <2>2 DEF TypeOK, Goto
    <3>2. AtCheck(c)'
      BY <1>1, <1>5, <2>2 DEF AtExist, AtCheck, Untouched, Told, IsSingle, HasRow
    <3> QED
      BY <1>1, <1>5, <3>1, <3>2 DEF Follows, AnswersJustly
  <2> QED
    BY <2>1, <2>2
<1> QED
  BY <1>2, <1>3, <1>4, <1>5 DEF Exist, HasRow

\* What the guard or the checker of a row does not let happen is not permitted.
LEMMA DisallowedIsImpossible ==
    ASSUME NEW r \in Requests, IsSingle(r), NEW s \in States, s[r.id] # NoRow,
           r.op # "delete" => DOMAIN r.data # {}, ~Allowed(r, s),
           NEW u \in States, Contract!Permitted(r, s, u)
    PROVE  FALSE
<1>1. r.id \in Ids
  BY RequestIsTyped
<1>2. CASE r.op = "delete"
  <2>1. Found(Pol(r).delete \cap Pol(r).deleteChecker, r.id, s)
    BY <1>2, SameWords DEF Contract!Permitted, Contract!DeleteOne
  <2> QED
    BY <2>1, <1>2 DEF Allowed, MayDelete, Passes
<1>3. CASE r.op # "delete"
  <2>1. Contract!UpdateOne(r, s, u)
    BY <1>3 DEF Contract!Permitted, IsSingle
  <2>2. <<r.id, s>> \in UpdateGuard(Pol(r), DOMAIN r.data)
                           \cap UpdateChecker(Pol(r), DOMAIN r.data)
    BY <2>1, <1>3, SameWords DEF Contract!UpdateOne
  <2> QED
    BY <2>2, <1>1, <1>3, PassesIsMembership DEF Allowed, MayUpdate
<1> QED
  BY <1>2, <1>3

\* Past the policy check the operation is allowed on the row as the snapshot has it.
LEMMA CheckPolicyFollows ==
    ASSUME TypeOK, NEW c \in Clients, req[c] \in Requests, Kept(req[c]),
           Follows(c), CheckPolicy(c)
    PROVE  Follows(c)' /\ AnswersJustly(c)
<1> DEFINE r == req[c]
           registers == r.op # "delete" /\ NeedsPostUpdate(Pol(r))
<1>1. AtCheck(c) /\ ~RefusedUpFront(r)
  BY DEF CheckPolicy, Follows, Stages
<1>2. View(c) = snap[c] /\ snap[c] \in States
  BY <1>1, OwnViewIsSeen DEF Kept, AtCheck, Untouched
<1>3. CASE ~Allowed(r, snap[c])
  <2>1. ~Possible(c)
    BY <1>1, <1>2, <1>3, DisallowedIsImpossible DEF Possible, AtCheck, HasRow
  <2> QED
    BY <1>1, <1>2, <1>3, <2>1, RefuseFollows DEF CheckPolicy, Refusals, Justified
<1>4. CASE Allowed(r, snap[c])
  <2>1. /\ pc'[c] = IF registers /\ Pol(r).needsPre THEN "pre" ELSE "write"
        /\ checks'[c] = IF registers /\ ~Pol(r).needsPre
                        THEN {[kind |-> "postUpdate", id |-> r.id, pre |-> NoRow]}
                        ELSE {}
        /\ UNCHANGED <<db, req, snap, wr, todo, picked, resp>>
    BY <1>2, <1>4 DEF TypeOK, CheckPolicy, Goto
  <2>2. CASE registers /\ Pol(r).needsPre
    <3>1. AtPre(c)'
      BY <1>1, <1>4, <2>1, <2>2
         DEF AtCheck, AtPre, Untouched, Told, Silent, IsSingle, HasRow
    <3> QED
      BY <1>1, <2>1, <2>2, <3>1 DEF Follows, AnswersJustly
  <2>3. CASE ~(registers /\ Pol(r).needsPre)
    <3>1. r.op # "delete" => checks'[c] = DueChecks(r, snap[c])
      BY <1>1, <2>1, <2>3 DEF AtCheck, DueChecks, PostUpdateCheck, PreValue
    <3>2. AtWrite(c)'
      BY <1>1, <1>4, <2>1, <3>1
         DEF AtCheck, AtWrite, Untouched, Told, IsSingle, HasRow
    <3> QED
      BY <1>1, <2>1, <2>3, <3>2 DEF Follows, AnswersJustly
  <2> QED
    BY <2>2, <2>3
<1> QED
  BY <1>3, <1>4

\* The value registered for the post-update check is that of the snapshot.
LEMMA ReadPreValueFollows ==
    ASSUME TypeOK, NEW c \in Clients, Kept(req[c]), Follows(c), ReadPreValue(c)
    PROVE  Follows(c)'
<1> DEFINE r == req[c]
<1>1. /\ AtPre(c) /\ ~RefusedUpFront(r)
      /\ UNCHANGED <<db, req, snap, wr, todo, picked, resp>>
  BY DEF ReadPreValue, Follows, Stages
<1>2. View(c) = snap[c]
  BY <1>1, OwnViewIsSeen DEF Kept, AtPre
<1>3. /\ pc'[c] = "write"
      /\ checks'[c] = {[kind |-> "postUpdate", id |-> r.id, pre |-> snap[c][r.id]]}
  BY <1>2 DEF TypeOK, ReadPreValue, Goto
<1>4. checks'[c] = DueChecks(r, snap[c])
  BY <1>1, <1>3 DEF AtPre, DueChecks, PostUpdateCheck, PreValue
<1>5. AtWrite(c)'
  BY <1>1, <1>4 DEF AtPre, AtWrite, Silent, Told, IsSingle, HasRow
<1> QED
  BY <1>1, <1>3, <1>5 DEF Follows

\* The row is written as the contract says, and the due check decides on it.
LEMMA WriteRowFollows ==
    ASSUME TypeOK, NEW c \in Clients, req[c] \in Requests, Kept(req[c]),
           Follows(c), WriteRow(c)
    PROVE  Follows(c)'
<1> DEFINE r == req[c]
           i == r.id
<1>1. /\ AtWrite(c) /\ ~RefusedUpFront(r)
      /\ UNCHANGED <<db, req, snap, todo, picked, resp>>
  BY DEF WriteRow, Follows, Stages
<1>2. View(c) = snap[c] /\ snap[c] \in States /\ wr[c] = AllClean
  BY <1>1, OwnViewIsSeen DEF Kept, AtWrite
<1>3. i \in Ids /\ snap[c][i] \in Rows /\ r.data \in PartialRows
  BY <1>1, <1>2, RequestIsTyped DEF AtWrite, HasRow, States
<1>4. CASE r.op = "delete"
  <2> DEFINE w == [j \in {i} |-> NoRow]
  <2>1. Put(c, w) /\ pc'[c] = "commit"
    BY <1>4 DEF TypeOK, WriteRow, Goto
  <2>2. OwnView(c)' = Over(snap[c], w)
    <3>1. DOMAIN w \subseteq Ids /\ \A j \in DOMAIN w : w[j] \in Rows \cup {NoRow}
      BY <1>3
    <3> HIDE DEF w
    <3> QED
      BY <1>1, <1>2, <2>1, <3>1, PutIsOver
  <2>3. Contract!Permitted(r, snap[c], OwnView(c)')
    BY <1>1, <1>2, <1>4, <2>2, DeleteIsPermitted DEF AtWrite, HasRow
  <2>4. Contract!Readable(r, snap[c], OwnView(c)')
           <=> Found(Pol(r).read, i, snap[c])
    BY <1>1, <1>4, SameWords DEF Contract!Readable, Found, AtWrite, HasRow
  <2>5. AtCommit(c)'
    BY <1>1, <1>4, <2>3, <2>4
       DEF AtWrite, AtCommit, Told, Refusals, Contract!ShowsResult
  <2> QED
    BY <1>1, <2>1, <2>5 DEF Follows
<1>5. CASE r.op # "delete"
  <2> DEFINE w == [j \in {i} |-> Written(snap[c][i], r.data)]
  <2>1. Put(c, w) /\ Register(c, DueChecks(r, snap[c]))
    BY <1>1, <1>2, <1>5 DEF WriteRow, AtWrite
  <2>2. OwnView(c)' = Over(snap[c], w) /\ WrittenIds(c)' = {i}
    <3>1. DOMAIN w = {i} /\ \A j \in DOMAIN w : w[j] \in Rows \cup {NoRow}
      BY <1>3, WrittenIsRow
    <3> HIDE DEF w
    <3> QED
      BY <1>1, <1>2, <1>3, <2>1, <3>1, PutIsOver
  <2>3. /\ r.op \in {"update", "upsert"} /\ Silent(c)
        /\ DOMAIN r.data # {} => Allowed(r, snap[c])
    BY <1>1, <1>5 DEF AtWrite, IsSingle, Told, Silent
  <2>4. /\ Decides(r, snap[c], OwnView(c)', DueChecks(r, snap[c]))
        /\ Shows(r, snap[c], OwnView(c)', {i})
    BY <1>1, <1>2, <1>3, <2>2, <2>3, NoRowAssumption, UpdateDecides
  <2> QED
    BY <1>1, <1>5, <2>1, <2>2, <2>3, <2>4, RegisterFollows
<1> QED
  BY <1>4, <1>5

\* The row is inserted where none was, and the registered check decides on it.
LEMMA InsertFollows ==
    ASSUME TypeOK, NEW c \in Clients, req[c] \in Requests, Kept(req[c]),
           Follows(c), Insert(c)
    PROVE  Follows(c)' /\ AnswersJustly(c)
<1> DEFINE r == req[c]
<1>1. AtInsert(c) /\ ~RefusedUpFront(r)
  BY DEF Insert, Follows, Stages
<1>2. View(c) = snap[c] /\ snap[c] \in States /\ wr[c] = AllClean
  BY <1>1, OwnViewIsSeen DEF Kept, AtInsert, Untouched
<1>3. ASSUME NEW x \in r.items, x.row \notin Pol(r).valid, Refuse(c, "denied")
      PROVE  Follows(c)' /\ AnswersJustly(c)
  <2>1. r.items = {x}
    BY <1>1, ConstantsAssumption DEF WellFormed, AtInsert
  <2>2. ~Possible(c)
    BY <1>1, <1>3, <2>1, SameWords
       DEF Possible, AtInsert, HasRow, Contract!Permitted, Contract!CreateOne,
           Contract!CreatedRow
  <2> QED
    BY <1>1, <1>3, <2>2, RefuseFollows DEF Refusals, Justified
<1>4. ASSUME NEW x \in r.items, x.row \in Pol(r).valid, View(c)[x.id] = NoRow,
             Put(c, [j \in {x.id} |-> x.row]),
             Register(c, IF r.op = "create" /\ x.row \in Pol(r).inputAllow
                         THEN {} ELSE {CreateCheck(x.id)}),
             UNCHANGED <<db, req, snap, todo, picked, resp>>
      PROVE  Follows(c)' /\ AnswersJustly(c)
  <2> DEFINE w == [j \in {x.id} |-> x.row]
             ks == IF r.op = "create" /\ x.row \in Pol(r).inputAllow
                   THEN {} ELSE {CreateCheck(x.id)}
  <2>1. x.id \in Ids /\ x.row \in Rows
    BY RequestIsTyped DEF Items
  <2>2. OwnView(c)' = Over(snap[c], w) /\ WrittenIds(c)' = {x.id}
    <3>1. DOMAIN w = {x.id} /\ \A j \in DOMAIN w : w[j] \in Rows \cup {NoRow}
      BY <2>1
    <3>2. Put(c, w)
      BY <1>4
    <3> HIDE DEF w
    <3> QED
      BY <1>2, <1>4, <2>1, <3>1, <3>2, PutIsOver
  <2>3. Decides(r, snap[c], OwnView(c)', ks) /\ Shows(r, snap[c], OwnView(c)', {x.id})
    BY <1>1, <1>2, <1>4, <2>2, CreateDecides DEF AtInsert, HasRow
  <2>4. Register(c, ks) /\ UNCHANGED <<req, snap, resp>>
    BY <1>4
  <2>5. Silent(c) /\ r.op # "delete"
    BY <1>1 DEF AtInsert
  <2> HIDE DEF ks
  <2> QED
    BY <1>1, <2>2, <2>3, <2>4, <2>5, RegisterFollows
<1> QED
  BY <1>3, <1>4 DEF Insert, CreateCheck

\* When no item is left, the identities that were free are written.
LEMMA ItemsDecide ==
    ASSUME NEW r \in Requests, r.op = "createMany", ~IsDirect(r), ~RefusedUpFront(r),
           NEW s \in States, NEW w \in [Ids -> Rows \cup {NoRow, Clean}],
           KnowsItems(r, s, w, {}),
           NEW W, W = {i \in Ids : w[i] # Clean},
           NEW t, t = [i \in Ids |-> IF w[i] = Clean THEN s[i] ELSE w[i]]
    PROVE  /\ Decides(r, s, t, {CreateCheck(i) : i \in W})
           /\ Shows(r, s, t, W)
<1> DEFINE v == [i \in W |-> w[i]]
<1>1. \A x \in r.items : ItemDone({}, x) /\ x.id \in Ids
  BY RequestIsTyped DEF ItemDone, Items
<1>2. \A x \in r.items : s[x.id] = NoRow => x.id \in W
  BY <1>1 DEF KnowsItems
<1>3. \A i \in W : s[i] = NoRow /\ \E x \in r.items : x.id = i /\ x.row = w[i]
  BY DEF KnowsItems
<1>4. W = Contract!NewIds(r, s)
  BY <1>2, <1>3, SameWords DEF Contract!NewIds
<1>5. ~r.skipDuplicates => /\ \A x \in r.items : s[x.id] = NoRow
                           /\ \A x, y \in r.items : x.id = y.id => x = y
  BY <1>1 DEF KnowsItems
<1>6. t = Over(s, v) /\ DOMAIN v = W
  BY DEF Over
<1>7. \A i \in DOMAIN v : \E x \in r.items : x.id = i /\ x.row = v[i]
  BY <1>3
<1> HIDE DEF v
<1>8. PICK ks : ks = {CreateCheck(i) : i \in DOMAIN v}
  OBVIOUS
<1>9. Decides(r, s, t, ks) /\ Shows(r, s, t, DOMAIN v)
  BY <1>4, <1>5, <1>6, <1>7, <1>8, CreateManyDecides
<1> QED
  BY <1>6, <1>8, <1>9

\* Looking an item up finishes it where there is a row.
LEMMA LookedUp ==
    ASSUME NEW r \in Requests, NEW s \in States,
           NEW w \in [Ids -> Rows \cup {NoRow, Clean}],
           NEW T, KnowsItems(r, s, w, T),
           NEW x, <<x, "lookup">> \in T,
           NEW T2, IF (w[x.id] = Clean /\ s[x.id] = NoRow) \/ w[x.id] = NoRow
                   THEN T2 = (T \ {<<x, "lookup">>}) \cup {<<x, "create">>}
                   ELSE T2 = T \ {<<x, "lookup">>}
    PROVE  KnowsItems(r, s, w, T2)
<1>1. r.skipDuplicates /\ x \in r.items /\ x.id \in Ids
  BY RequestIsTyped DEF KnowsItems, Items
<1>2. T2 \subseteq r.items \X {"lookup", "create"}
  BY <1>1 DEF KnowsItems
<1>3. \A y \in r.items : ItemDone(T2, y) =>
          ItemDone(T, y) \/ (y = x /\ (w[x.id] # Clean \/ s[x.id] # NoRow))
  BY DEF ItemDone
<1> QED
  BY <1>1, <1>2, <1>3 DEF KnowsItems

\* Creating an item finishes it: nothing was written at its identity.
LEMMA ItemCreated ==
    ASSUME NEW r \in Requests, NEW s \in States,
           NEW w \in [Ids -> Rows \cup {NoRow, Clean}],
           NEW T, KnowsItems(r, s, w, T),
           NEW x, <<x, "create">> \in T, w[x.id] = Clean, s[x.id] = NoRow,
           NEW v, v = [i \in Ids |-> IF i \in {x.id} THEN x.row ELSE w[i]]
    PROVE  KnowsItems(r, s, v, T \ {<<x, "create">>})
<1> DEFINE T2 == T \ {<<x, "create">>}
<1>1. x \in r.items /\ x.id \in Ids /\ x.row \in Rows
  BY RequestIsTyped DEF KnowsItems, Items
<1>2. x.row # Clean
  BY <1>1, ConstantsAssumption
<1>3. /\ T2 \subseteq r.items \X {"lookup", "create"}
      /\ ~r.skipDuplicates => T2 \subseteq r.items \X {"create"}
  BY DEF KnowsItems
<1>4. \A i \in Ids : v[i] # Clean =>
          s[i] = NoRow /\ \E y \in r.items : y.id = i /\ y.row = v[i]
  BY <1>1 DEF KnowsItems
<1>5. \A y \in r.items : ItemDone(T2, y) => ItemDone(T, y) \/ y = x
  BY DEF ItemDone
<1>6. \A y \in r.items : ItemDone(T2, y) =>
          v[y.id] # Clean \/ (r.skipDuplicates /\ s[y.id] # NoRow)
  <2> TAKE y \in r.items
  <2>1. y.id \in Ids
    BY RequestIsTyped DEF Items
  <2> QED
    BY <1>1, <1>2, <1>5, <2>1 DEF KnowsItems
<1>7. ASSUME ~r.skipDuplicates, NEW y \in r.items, NEW z \in r.items,
             ItemDone(T2, y), ItemDone(T2, z), y.id = z.id
      PROVE  y = z
  <2>1. \A u \in r.items : ItemDone(T, u) => u.id # x.id
    BY <1>7 DEF KnowsItems
  <2> QED
    BY <1>5, <1>7, <2>1 DEF KnowsItems
<1> HIDE DEF T2
<1>8. KnowsItems(r, s, v, T2)
  BY <1>3, <1>4, <1>6, <1>7 DEF KnowsItems
<1> QED
  BY <1>8 DEF T2

\* An item whose row exists is done without a write, any other is to be created.
LEMMA LookupFollows ==
    ASSUME TypeOK, NEW c \in Clients, req[c] \in Requests, Kept(req[c]),
           Follows(c), NEW x, Lookup(c, x)
    PROVE  Follows(c)'
<1> DEFINE r == req[c]
           others == todo[c] \ {<<x, "lookup">>}
           left == IF View(c)[x.id] = NoRow
                   THEN others \cup {<<x, "create">>} ELSE others
<1>1. /\ AtItems(c) /\ ~RefusedUpFront(r) /\ <<x, "lookup">> \in todo[c]
      /\ UNCHANGED <<db, req, snap, wr, picked, resp>>
  BY DEF Lookup, Follows, Stages
<1>2. /\ snap[c] \in States /\ View(c) = OwnView(c)
      /\ wr[c] \in [Ids -> Rows \cup {NoRow, Clean}]
  BY OwnViewIsSeen DEF Kept, TypeOK
<1>3. x.id \in Ids
  BY <1>1, RequestIsTyped DEF AtItems, KnowsItems, Items
<1>4. View(c)[x.id] = NoRow <=>
          (wr[c][x.id] = Clean /\ snap[c][x.id] = NoRow) \/ wr[c][x.id] = NoRow
  BY <1>2, <1>3, ConstantsAssumption DEF OwnView
<1>5. KnowsItems(r, snap[c], wr[c], left)
  BY <1>1, <1>2, <1>4, LookedUp DEF AtItems
<1>6. todo'[c] = left
  BY DEF TypeOK, Lookup
<1>7. checks[c] = {CreateCheck(i) : i \in WrittenIds(c)}
  BY <1>1 DEF AtItems
<1>8. WrittenIds(c)' = WrittenIds(c) /\ OwnView(c)' = OwnView(c)
  BY <1>1 DEF WrittenIds, OwnView
<1>9. CASE left = {}
  <2>1. Register(c, checks[c])
    BY <1>9 DEF Lookup
  <2>2. /\ Decides(r, snap[c], OwnView(c), {CreateCheck(i) : i \in WrittenIds(c)})
        /\ Shows(r, snap[c], OwnView(c), WrittenIds(c))
    BY <1>1, <1>2, <1>5, <1>9, ItemsDecide DEF AtItems, WrittenIds, OwnView
  <2> QED
    BY <1>1, <1>7, <1>8, <2>1, <2>2, RegisterFollows DEF AtItems
<1>10. CASE left # {}
  <2>1. UNCHANGED <<pc, checks>>
    BY <1>10 DEF Lookup
  <2>2. AtItems(c)'
    BY <1>1, <1>5, <1>6, <1>8, <1>10, <2>1 DEF AtItems, Silent
  <2> QED
    BY <1>1, <2>1, <2>2 DEF Follows, Lookup
<1> QED
  BY <1>9, <1>10

\* An item is created where no row was, and its check registered.
LEMMA CreateItemFollows ==
    ASSUME TypeOK, NEW c \in Clients, req[c] \in Requests, Kept(req[c]),
           Follows(c), NEW x, CreateItem(c, x)
    PROVE  Follows(c)'
<1> DEFINE r == req[c]
           left == todo[c] \ {<<x, "create">>}
           ks == checks[c] \cup {CreateCheck(x.id)}
<1>1. /\ AtItems(c) /\ ~RefusedUpFront(r) /\ <<x, "create">> \in todo[c]
      /\ UNCHANGED <<db, req, snap, picked, resp>>
  BY DEF CreateItem, Follows, Stages
<1>2. /\ snap[c] \in States /\ View(c) = OwnView(c)
      /\ wr[c] \in [Ids -> Rows \cup {NoRow, Clean}]
  BY OwnViewIsSeen DEF Kept, TypeOK
<1>3. x \in r.items /\ x.id \in Ids /\ x.row \in Rows
  BY <1>1, RequestIsTyped DEF AtItems, KnowsItems, Items
<1>4. wr[c][x.id] = Clean /\ snap[c][x.id] = NoRow
  <2>1. OwnView(c)[x.id] = NoRow
    BY <1>2 DEF CreateItem
  <2>2. wr[c][x.id] # NoRow
    BY <1>1, <1>3, NoRowAssumption, ConstantsAssumption, RequestIsTyped
       DEF AtItems, KnowsItems, Items
  <2> QED
    BY <1>3, <2>1, <2>2 DEF OwnView
<1>5. wr'[c] = [i \in Ids |-> IF i \in {x.id} THEN x.row ELSE wr[c][i]]
  BY <1>3 DEF TypeOK, CreateItem, Put
<1>6. KnowsItems(r, snap[c], wr'[c], left)
  BY <1>1, <1>2, <1>4, <1>5, ItemCreated DEF AtItems
<1>7. todo'[c] = left /\ wr'[c] \in [Ids -> Rows \cup {NoRow, Clean}]
  BY <1>2, <1>3, <1>5 DEF TypeOK, CreateItem
<1>8. WrittenIds(c)' = WrittenIds(c) \cup {x.id}
  BY <1>3, <1>5, ConstantsAssumption DEF WrittenIds
<1>9. ks = {CreateCheck(i) : i \in WrittenIds(c)'}
  BY <1>1, <1>8 DEF AtItems
<1>10. CASE left = {}
  <2>1. Register(c, ks)
    BY <1>10 DEF CreateItem, CreateCheck
  <2>2. /\ Decides(r, snap[c], OwnView(c)', {CreateCheck(i) : i \in WrittenIds(c)'})
        /\ Shows(r, snap[c], OwnView(c)', WrittenIds(c)')
    BY <1>1, <1>2, <1>6, <1>7, <1>10, ItemsDecide DEF AtItems, WrittenIds, OwnView
  <2> HIDE DEF ks
  <2> QED
    BY <1>1, <1>9, <2>1, <2>2, RegisterFollows DEF AtItems
<1>11. CASE left # {}
  <2>1. checks'[c] = ks /\ pc'[c] = pc[c]
    BY <1>11 DEF TypeOK, CreateItem, CreateCheck
  <2>2. AtItems(c)'
    BY <1>1, <1>6, <1>7, <1>9, <1>11, <2>1 DEF AtItems, Silent
  <2> QED
    BY <1>1, <2>1, <2>2 DEF Follows, CreateItem
<1> QED
  BY <1>10, <1>11

\* The candidates are those of the snapshot, each with its check.
LEMMA FindCandidatesFollows ==
    ASSUME TypeOK, NEW c \in Clients, Kept(req[c]), Follows(c), FindCandidates(c)
    PROVE  Follows(c)'
<1> DEFINE r == req[c]
           s == snap[c]
<1>1. /\ AtCandidates(c) /\ ~RefusedUpFront(r)
      /\ UNCHANGED <<db, req, snap, wr, todo, resp>>
  BY DEF FindCandidates, Follows, Stages
<1>2. View(c) = s
  BY <1>1, OwnViewIsSeen DEF Kept, AtCandidates, Untouched
<1>3. /\ pc'[c] = "native"
      /\ picked'[c] = IF r.op # "updateMany" THEN IdFilter(DeleteCandidates(r, s))
                      ELSE IF Pol(r).updateChecker = Sites THEN Ids
                      ELSE IdFilter(UpdateCandidates(r, s))
      /\ checks'[c] = IF r.op # "updateMany" THEN {}
                      ELSE {[kind |-> "postUpdate", id |-> i,
                             pre |-> IF Pol(r).needsPre THEN s[i] ELSE NoRow] :
                               i \in UpdateCandidates(r, s)}
  BY <1>2 DEF TypeOK, FindCandidates, Goto
<1>4. AtNative(c)'
  BY <1>1, <1>3 DEF AtCandidates, AtNative, Untouched, Silent,
                    PostUpdateCheck, PreValue
<1> QED
  BY <1>1, <1>3, <1>4 DEF Follows

\* What the one native statement of a set operation without checks does.
LEMMA DirectDecides ==
    ASSUME NEW r \in Requests, r.op \in {"createMany", "updateMany", "deleteMany"},
           IsDirect(r), ~RefusedUpFront(r), FieldsUncompared(r),
           NEW s \in States, NEW w \in NativeWrites(r, s, Ids),
           NEW t, t = Over(s, w)
    PROVE  Decides(r, s, t, {}) /\ Shows(r, s, t, DOMAIN w)
<1>1. CASE r.op = "createMany"
  <2>1. w \in NativeCreates(r, s)
    BY <1>1 DEF NativeWrites
  <2>2. DOMAIN w = Contract!NewIds(r, s)
    BY <2>1, SameWords DEF NativeCreates, FreeIds, Contract!NewIds
  <2>3. PICK ks : ks = {}
    OBVIOUS
  <2>4. Decides(r, s, t, ks) /\ Shows(r, s, t, DOMAIN w)
    BY <1>1, <2>1, <2>2, <2>3, CreateManyDecides DEF NativeCreates
  <2> QED
    BY <2>3, <2>4
<1>2. CASE r.op = "updateMany"
  <2>1. Pol(r).updateChecker = Sites /\ ~NeedsPostUpdate(Pol(r))
    BY <1>2 DEF IsDirect
  <2>2. w = [i \in Updatable(r, s) \cap Ids |-> Written(s[i], r.data)]
    BY <1>2 DEF NativeWrites
  <2>3. Updatable(r, s) \cap Ids = Contract!Chosen(r, s)
    BY <1>2, <2>1, ChosenIsUpdatable DEF Updatable, Matching, Sites
  <2>4. PICK ks : ks = {}
    OBVIOUS
  <2>5. /\ w = [i \in Contract!Chosen(r, s) |-> Written(s[i], r.data)]
        /\ DOMAIN w = Contract!Chosen(r, s)
    BY <2>2, <2>3
  <2>6. Decides(r, s, t, ks) /\ Shows(r, s, t, Contract!Chosen(r, s))
    BY <1>2, <2>1, <2>4, <2>5, UpdateManyDecides
  <2> QED
    BY <2>4, <2>5, <2>6
<1>3. CASE r.op = "deleteMany"
  <2>1. w = [i \in Deletable(r, s) \cap Ids |-> NoRow]
    BY <1>3 DEF NativeWrites
  <2>2. Deletable(r, s) \cap Ids
           = {i \in Deletable(r, s) : <<i, s>> \in Pol(r).deleteChecker}
    BY <1>3 DEF IsDirect, Deletable, Matching, Sites
  <2>3. Contract!Permitted(r, s, t) /\ ~Contract!ShowsResult(r)
    BY <1>3, <2>1, <2>2, DeleteManyIsPermitted
  <2> QED
    BY <2>3 DEF Decides, Shows
<1> QED
  BY <1>1, <1>2, <1>3

\* The native statement writes what the contract says, and the checks decide on it.
LEMMA NativeFollows ==
    ASSUME TypeOK, NEW c \in Clients, req[c] \in Requests, Kept(req[c]),
           Follows(c), Native(c)
    PROVE  Follows(c)'
<1> DEFINE r == req[c]
           s == snap[c]
<1>1. /\ AtNative(c) /\ ~RefusedUpFront(r) /\ Silent(c) /\ r.op # "delete"
      /\ UNCHANGED <<db, req, snap, todo, picked, resp>>
  BY DEF Native, Follows, Stages, AtNative
<1>2. View(c) = s /\ s \in States /\ wr[c] = AllClean
  BY <1>1, OwnViewIsSeen DEF Kept, AtNative
<1>3. PICK w \in NativeWrites(r, s, picked[c]) : Put(c, w)
  BY <1>2 DEF Native
<1>4. DOMAIN w \subseteq Ids /\ \A i \in DOMAIN w : w[i] \in Rows \cup {NoRow}
  BY <1>2, NativeWritesAreRows
<1>5. OwnView(c)' = Over(s, w) /\ WrittenIds(c)' = DOMAIN w
  BY <1>1, <1>2, <1>3, <1>4, PutIsOver
<1>6. Register(c, checks[c])
  BY DEF Native
<1>7. Decides(r, s, Over(s, w), checks[c]) /\ Shows(r, s, Over(s, w), DOMAIN w)
  <2>1. CASE IsDirect(r)
    BY <1>1, <1>2, <1>3, <2>1, DirectDecides DEF AtNative, Kept, Enforced
  <2>2. CASE ~IsDirect(r) /\ r.op = "deleteMany"
    <3> DEFINE D == {i \in Deletable(r, s) : <<i, s>> \in Pol(r).deleteChecker}
    <3>1. picked[c] = IdFilter(D)
      BY <1>1, <2>2 DEF AtNative, DeleteCandidates
    <3>2. ~CompoundId
      BY <2>2 DEF Kept, Enforced, IsDirect
    <3>3. w = [i \in Deletable(r, s) \cap D |-> NoRow]
      BY <1>3, <2>2, <3>1, <3>2 DEF NativeWrites, IdFilter
    <3>4. Deletable(r, s) \cap D = D
      OBVIOUS
    <3>5. w = [i \in D |-> NoRow]
      BY <3>3, <3>4
    <3> HIDE DEF D
    <3>6. Contract!Permitted(r, s, Over(s, w)) /\ ~Contract!ShowsResult(r)
      BY <1>1, <1>2, <2>2, <3>5, DeleteManyIsPermitted DEF D
    <3>7. checks[c] = {}
      BY <1>1, <2>2 DEF AtNative
    <3> QED
      BY <3>6, <3>7 DEF Decides, Shows
  <2>3. CASE ~IsDirect(r) /\ r.op = "updateMany"
    <3> DEFINE C == Contract!Chosen(r, s)
    <3>1. /\ checks[c] = {PostUpdateCheck(r, i, s) : i \in UpdateCandidates(r, s)}
          /\ picked[c] = IF Pol(r).updateChecker = Sites THEN Ids
                         ELSE IdFilter(UpdateCandidates(r, s))
      BY <1>1, <2>3 DEF AtNative
    <3>2. C = {i \in Updatable(r, s) : <<i, s>> \in Pol(r).updateChecker}
      BY <1>2, <2>3, ChosenIsUpdatable DEF Kept, Enforced
    <3>3. UpdateCandidates(r, s) = C
      BY <2>3, <3>2 DEF UpdateCandidates, Updatable, Kept, Enforced
    <3>4. Updatable(r, s) \cap picked[c] = C
      <4>1. CASE Pol(r).updateChecker = Sites
        BY <1>2, <3>1, <3>2, <4>1 DEF Updatable, Matching, Sites
      <4>2. CASE Pol(r).updateChecker # Sites
        <5>1. ~CompoundId
          BY <2>3, <4>2 DEF Kept, Enforced
        <5>2. picked[c] = C
          BY <3>1, <3>3, <4>2, <5>1 DEF IdFilter
        <5> QED
          BY <3>2, <5>2
      <4> QED
        BY <4>1, <4>2
    <3>5. w = [i \in C |-> Written(s[i], r.data)]
      BY <1>3, <2>3, <3>4 DEF NativeWrites
    <3>6. DOMAIN w = C
      BY <3>5
    <3>7. checks[c] = {PostUpdateCheck(r, i, s) : i \in C}
      BY <3>1, <3>3
    <3>8. Decides(r, s, Over(s, w), checks[c]) /\ Shows(r, s, Over(s, w), C)
      BY <1>1, <1>2, <2>3, <3>5, <3>7, UpdateManyDecides
    <3> QED
      BY <3>6, <3>8
  <2> QED
    BY <1>1, <2>1, <2>2, <2>3 DEF AtNative
<1> QED
  BY <1>1, <1>5, <1>6, <1>7, RegisterFollows

\* A check that passes leaves the others to decide; one that fails denies justly.
LEMMA PostCheckFollows ==
    ASSUME TypeOK, NEW c \in Clients, req[c] \in Requests, Kept(req[c]),
           Follows(c), PostCheck(c)
    PROVE  Follows(c)' /\ AnswersJustly(c)
<1> DEFINE r == req[c]
<1>1. AtPost(c) /\ ~RefusedUpFront(r)
  BY DEF PostCheck, Follows, Stages
<1>2. View(c) = OwnView(c)
  BY OwnViewIsSeen DEF Kept
<1>3. PICK k \in checks[c] :
         IF CheckPasses(r, k, OwnView(c))
         THEN /\ Register(c, checks[c] \ {k})
              /\ UNCHANGED <<db, req, snap, wr, todo, picked, resp>>
         ELSE Refuse(c, "denied")
  BY <1>2 DEF PostCheck
<1>4. CASE CheckPasses(r, k, OwnView(c))
  <2>1. OwnView(c)' = OwnView(c) /\ WrittenIds(c)' = WrittenIds(c)
    BY <1>3, <1>4 DEF OwnView, WrittenIds
  <2>2. Decides(r, snap[c], OwnView(c), checks[c] \ {k})
    BY <1>1, <1>4 DEF AtPost, Decides
  <2> QED
    BY <1>1, <1>3, <1>4, <2>1, <2>2, RegisterFollows DEF AtPost
<1>5. CASE ~CheckPasses(r, k, OwnView(c))
  <2>1. Settled(r) => ~Possible(c)
    BY <1>1, <1>3, <1>5 DEF AtPost, Decides, Possible
  <2> QED
    BY <1>1, <1>3, <1>5, <2>1, RefuseFollows DEF Refusals, Justified
<1> QED
  BY <1>4, <1>5

\* The result is readable as the contract says, on what the transaction wrote.
LEMMA ReadBackFollows ==
    ASSUME TypeOK, NEW c \in Clients, Kept(req[c]), Follows(c), ReadBack(c)
    PROVE  Follows(c)'
<1> DEFINE r == req[c]
<1>1. /\ AtReadBack(c) /\ ~RefusedUpFront(r)
      /\ UNCHANGED <<db, req, snap, wr, checks, todo, picked>>
  BY DEF ReadBack, Follows, Stages
<1>2. View(c) = OwnView(c)
  BY OwnViewIsSeen DEF Kept
<1>3. /\ pc'[c] = "commit"
      /\ resp'[c] = IF Contract!Readable(r, snap[c], OwnView(c))
                    THEN "ok" ELSE "notReadable"
  BY <1>1, <1>2 DEF TypeOK, ReadBack, ReadResult, Goto, Answer, AtReadBack, Shows
<1>4. OwnView(c)' = OwnView(c)
  BY <1>1 DEF OwnView
<1>5. AtCommit(c)'
  BY <1>1, <1>3, <1>4 DEF AtReadBack, AtCommit, Refusals
<1> QED
  BY <1>1, <1>3, <1>5 DEF Follows

\* No step takes a client back to before its call, or changes the call.
LEMMA StepGoesOn ==
    ASSUME TypeOK, NEW c \in Clients, Step(c)
    PROVE  /\ pc[c] # "idle" /\ req[c] \in Requests
           /\ pc'[c] # "idle" /\ req'[c] = req[c]
<1>1. pc[c] # "idle" /\ req[c] \in Requests
  BY DEF TypeOK, Step, Prepare, Begin, Probe, Exist, CheckPolicy, ReadPreValue,
         WriteRow, Insert, ReadFirst, Lookup, CreateItem, FindCandidates,
         Native, PostCheck, ReadBack, Rethrow, Commit, Direct, ReadAfter,
         Abort, Stages
<1>2. ASSUME NEW a, Finish(c, a) \/ Refuse(c, a)
      PROVE  pc'[c] # "idle" /\ req'[c] = req[c]
  BY <1>2 DEF TypeOK, Finish, Refuse, Goto
<1>3. ASSUME NEW ks, Register(c, ks)
      PROVE  pc'[c] # "idle"
  BY <1>3 DEF TypeOK, Register, AfterChecks, Goto
<1>4. CASE Prepare(c) \/ Begin(c) \/ Probe(c) \/ ReadPreValue(c) \/ ReadFirst(c)
  BY <1>1, <1>4 DEF TypeOK, Prepare, Begin, FirstStage, Probe, ReadPreValue, ReadFirst, Goto
<1>5. CASE ReadBack(c) \/ FindCandidates(c)
  BY <1>1, <1>5 DEF TypeOK, ReadBack, FindCandidates, Goto
<1>6. CASE Exist(c) \/ CheckPolicy(c)
  BY <1>1, <1>2, <1>6 DEF TypeOK, Exist, CheckPolicy, Goto
<1>7. CASE WriteRow(c) \/ Insert(c) \/ Native(c) \/ PostCheck(c)
  BY <1>1, <1>2, <1>3, <1>7 DEF TypeOK, WriteRow, Insert, Native, PostCheck, Goto
<1>8. CASE \E t \in todo[c] : Lookup(c, t[1]) \/ CreateItem(c, t[1])
  BY <1>1, <1>3, <1>8 DEF TypeOK, Lookup, CreateItem
<1>9. CASE Rethrow(c) \/ ReadAfter(c) \/ Abort(c)
  BY <1>1, <1>2, <1>9 DEF Rethrow, ReadAfter, Abort
<1>10. CASE Commit(c) \/ Direct(c)
  BY <1>1, <1>2, <1>10 DEF TypeOK, Commit, Direct, Goto
<1> QED
  BY <1>4, <1>5, <1>6, <1>7, <1>8, <1>9, <1>10 DEF Step

\* Whatever step a client takes, it knows what its new stage says it knows,
\* and once it has begun it is not refused for nothing.
LEMMA StepFollows ==
    ASSUME TypeOK, NEW c \in Clients, Kept(req[c]), Follows(c), Step(c)
    PROVE  Follows(c)' /\ (pc[c] # "called" => AnswersJustly(c))
<1>1. req[c] \in Requests
  BY StepGoesOn
<1>2. CASE \/ Begin(c) \/ Probe(c) \/ ReadPreValue(c) \/ ReadFirst(c)
           \/ ReadBack(c) \/ FindCandidates(c)
  <2>1. pc'[c] # "done"
    BY <1>2 DEF TypeOK, Begin, FirstStage, Probe, ReadPreValue, ReadFirst,
                ReadBack, FindCandidates, Goto
  <2> QED
    BY <1>1, <1>2, <2>1, BeginFollows, ProbeFollows, ReadPreValueFollows,
       ReadFirstFollows, ReadBackFollows, FindCandidatesFollows DEF AnswersJustly
<1>3. CASE \/ WriteRow(c) \/ Native(c)
           \/ \E t \in todo[c] : Lookup(c, t[1]) \/ CreateItem(c, t[1])
  <2>1. pc'[c] # "done"
    BY <1>1, <1>3 DEF TypeOK, WriteRow, Native, Lookup, CreateItem, Register,
                      AfterChecks, Goto
  <2> QED
    BY <1>1, <1>3, <2>1, WriteRowFollows, NativeFollows, LookupFollows,
       CreateItemFollows DEF AnswersJustly
<1>4. CASE Exist(c) \/ CheckPolicy(c) \/ Insert(c) \/ PostCheck(c)
  BY <1>1, <1>4, ExistFollows, CheckPolicyFollows, InsertFollows, PostCheckFollows
<1>5. CASE Prepare(c)
  BY <1>5, PrepareFollows DEF Prepare
<1>6. CASE Rethrow(c) \/ Commit(c) \/ Direct(c) \/ ReadAfter(c) \/ Abort(c)
  <2>1. pc'[c] \in {"done", "readAfter"}
    BY <1>6 DEF TypeOK, Rethrow, Commit, Direct, ReadAfter, Abort, Finish, Goto
  <2>2. Follows(c)'
    BY <2>1 DEF Follows, Stages
  <2>3. ASSUME pc'[c] = "done", resp'[c] \in Refusals
        PROVE  Justified(c, resp'[c])
    <3>1. ASSUME NEW a, Finish(c, a) PROVE resp'[c] = a
      BY <3>1 DEF TypeOK, Finish, Answer
    <3>2. ~Rethrow(c) /\ ~Direct(c) /\ ~ReadAfter(c) /\ ~Abort(c)
      BY <2>3, <3>1 DEF TypeOK, Rethrow, Direct, ReadAfter, ReadResult, Abort,
                        Goto, Refusals
    <3>3. pc[c] = "commit" /\ resp'[c] = resp[c]
      BY <1>6, <2>3, <3>1, <3>2 DEF TypeOK, Commit, Goto, Refusals
    <3> QED
      BY <2>3, <3>3 DEF Follows, AtCommit
  <2> QED
    BY <2>2, <2>3 DEF AnswersJustly
<1> QED
  BY <1>2, <1>3, <1>4, <1>5, <1>6 DEF Step

-----------------------------------------------------------------------------
(* A step of one client leaves all that is known of the others. *)

Same(d) ==
    /\ pc'[d] = pc[d] /\ req'[d] = req[d] /\ resp'[d] = resp[d]
    /\ snap'[d] = snap[d] /\ wr'[d] = wr[d] /\ checks'[d] = checks[d]
    /\ todo'[d] = todo[d] /\ picked'[d] = picked[d]

\* What is known of a client depends on its own state alone.
LEMMA SameFollows ==
    ASSUME NEW d \in Clients, Same(d), Follows(d)
    PROVE  Follows(d)'
<1>1. OwnView(d)' = OwnView(d) /\ WrittenIds(d)' = WrittenIds(d)
  BY DEF Same, OwnView, WrittenIds
<1>2. /\ AtBegin(d)' <=> AtBegin(d)
      /\ AtProbe(d)' <=> AtProbe(d)
      /\ AtDirect(d)' <=> AtDirect(d)
      /\ AtInsert(d)' <=> AtInsert(d)
      /\ AtReadFirst(d)' <=> AtReadFirst(d)
  BY DEF Same, AtBegin, AtProbe, AtDirect, AtInsert, AtReadFirst,
         Untouched, Silent, HasRow
<1>3. /\ AtExist(d)' <=> AtExist(d)
      /\ AtCheck(d)' <=> AtCheck(d)
      /\ AtPre(d)' <=> AtPre(d)
      /\ AtWrite(d)' <=> AtWrite(d)
  BY DEF Same, AtExist, AtCheck, AtPre, AtWrite, Untouched, Told, Silent, HasRow
<1>4. /\ AtItems(d)' <=> AtItems(d)
      /\ AtCandidates(d)' <=> AtCandidates(d)
      /\ AtNative(d)' <=> AtNative(d)
  BY <1>1 DEF Same, AtItems, AtCandidates, AtNative, Untouched, Silent
<1>5. /\ AtPost(d)' <=> AtPost(d)
      /\ AtReadBack(d)' <=> AtReadBack(d)
      /\ AtCommit(d)' <=> AtCommit(d)
  BY <1>1 DEF Same, AtPost, AtReadBack, AtCommit, Silent, Justified, HasRow, Possible
<1>6. pc'[d] = pc[d] /\ req'[d] = req[d]
  BY DEF Same
<1> QED
  BY <1>2, <1>3, <1>4, <1>5, <1>6 DEF Follows

\* Ending a call changes its own state alone, and so does a refusal.
LEMMA RefuseIsLocal ==
    ASSUME TypeOK, NEW c \in Clients, NEW d \in Clients \ {c}, NEW a,
           Finish(c, a) \/ Refuse(c, a)
    PROVE  Same(d)
<1>1. CASE Finish(c, a)
  BY <1>1 DEF TypeOK, Finish, Goto, Answer, Same
<1>2. CASE Refuse(c, a) /\ ~Finish(c, a)
  BY <1>2 DEF TypeOK, Refuse, Goto, Answer, Same
<1> QED
  BY <1>1, <1>2

\* A step of one client leaves the state of every other one alone.
LEMMA StepIsLocal ==
    ASSUME TypeOK, NEW c \in Clients, NEW d \in Clients \ {c},
           Step(c) \/ \E r \in Requests : Issue(c, r)
    PROVE  Same(d)
<1>1. CASE \E a : Finish(c, a) \/ Refuse(c, a)
  BY <1>1, RefuseIsLocal
<1>2. CASE \E r \in Requests : Issue(c, r)
  BY <1>2 DEF TypeOK, Issue, Goto, Same
<1>3. CASE Prepare(c) \/ Begin(c) \/ Probe(c) \/ ReadPreValue(c) \/ ReadFirst(c)
  BY <1>3 DEF TypeOK, Prepare, Begin, Probe, ReadPreValue, ReadFirst, Goto, Answer, Same
<1>4. CASE ReadBack(c) \/ FindCandidates(c)
  BY <1>4 DEF TypeOK, ReadBack, FindCandidates, Goto, Answer, Same
<1>5. CASE Exist(c) \/ CheckPolicy(c)
  BY <1>1, <1>5 DEF TypeOK, Exist, CheckPolicy, Goto, Same
<1>6. CASE WriteRow(c)
  BY <1>6 DEF TypeOK, WriteRow, Put, Register, Goto, Same
<1>7. CASE Insert(c)
  BY <1>1, <1>7 DEF TypeOK, Insert, Put, Register, Goto, Same
<1>8. CASE \E t \in todo[c] : Lookup(c, t[1])
  BY <1>8 DEF TypeOK, Lookup, Register, Goto, Same
<1>9. CASE \E t \in todo[c] : CreateItem(c, t[1])
  BY <1>9 DEF TypeOK, CreateItem, Put, Register, Goto, Same
<1>10. CASE Native(c)
  BY <1>10 DEF TypeOK, Native, Put, Register, Goto, Same
<1>11. CASE PostCheck(c)
  BY <1>1, <1>11 DEF TypeOK, PostCheck, Register, Goto, Same
<1>12. CASE Rethrow(c) \/ ReadAfter(c) \/ Abort(c)
  BY <1>1, <1>12 DEF Rethrow, ReadAfter, Abort
<1>13. CASE Commit(c)
  BY <1>1, <1>13 DEF TypeOK, Commit, Goto, Same
<1>14. CASE Direct(c)
  BY <1>1, <1>14 DEF TypeOK, Direct, Goto, Same
<1> QED
  BY <1>2, <1>3, <1>4, <1>5, <1>6, <1>7, <1>8, <1>9, <1>10, <1>11, <1>12, <1>13,
     <1>14 DEF Step

\* The invariant holds at first, and every step keeps it: the client that takes
\* it by its stage, the others because they do not change.
LEMMA InvIsInductive ==
    /\ Init => Inv
    /\ TypeOK /\ Inv /\ [Next]_vars => Inv'
<1>1. ASSUME Init PROVE Inv
  BY <1>1 DEF Init, Inv, Follows, AtBegin, Untouched, Silent, Stages
<1>2. ASSUME TypeOK, Inv, NEW c \in Clients, NEW r \in Requests, Issue(c, r)
      PROVE  Inv'
  <2>1. ASSUME NEW d \in Clients \ {c} PROVE (pc[d] = "idle" \/ Kept(req[d]) => Follows(d))'
    <3>1. Same(d)
      BY <1>2, StepIsLocal
    <3> QED
      BY <1>2, <3>1, SameFollows DEF Same, Inv
  <2>2. Follows(c) /\ pc[c] = "idle"
    BY <1>2 DEF Inv, Issue
  <2>3. AtBegin(c) /\ pc'[c] = "called" /\ UNCHANGED <<wr, checks, resp>>
    BY <1>2, <2>2 DEF TypeOK, Issue, Goto, Follows
  <2>4. Follows(c)'
    BY <2>3 DEF Follows, AtBegin, Untouched, Silent, Stages
  <2> QED
    BY <2>1, <2>4 DEF Inv
<1>3. ASSUME TypeOK, Inv, NEW c \in Clients, Step(c)
      PROVE  Inv'
  <2>1. ASSUME NEW d \in Clients \ {c} PROVE (pc[d] = "idle" \/ Kept(req[d]) => Follows(d))'
    <3>1. Same(d)
      BY <1>3, StepIsLocal
    <3> QED
      BY <1>3, <3>1, SameFollows DEF Same, Inv
  <2>2. pc'[c] # "idle" /\ req'[c] = req[c]
    BY <1>3, StepGoesOn
  <2>3. Kept(req[c]) => Follows(c)'
    BY <1>3, StepFollows DEF Inv
  <2> QED
    BY <2>1, <2>2, <2>3 DEF Inv
<1>4. ASSUME TypeOK, Inv, UNCHANGED vars PROVE Inv'
  <2>1. \A d \in Clients : Same(d)
    BY <1>4 DEF vars, Same
  <2> QED
    BY <1>4, <2>1, SameFollows DEF Same, Inv
<1> QED
  BY <1>1, <1>2, <1>3, <1>4 DEF Next

\* The invariant holds of every behaviour.
LEMMA Invariant == Spec => [](TypeOK /\ Inv)
<1>1. Init /\ TypeOK => TypeOK /\ Inv
  BY InvIsInductive
<1>2. TypeOK /\ Inv /\ [Next]_vars /\ TypeOK' => (TypeOK /\ Inv)'
  BY InvIsInductive
<1> QED
  BY <1>1, <1>2, TypeCorrect, PTL DEF Spec

-----------------------------------------------------------------------------
(* Refusals. *)

\* What is refused without a statement no state permits.
LEMMA UpFrontIsImpossible ==
    ASSUME NEW r \in Requests, RefusedUpFront(r), NEW s \in States, NEW u \in States,
           Contract!Permitted(r, s, u)
    PROVE  FALSE
<1>1. r.id \in Ids
  BY RequestIsTyped
<1>2. CASE r.op = "create"
  <2>1. PICK x \in r.items : Contract!CreatedRow(Pol(r), x, u)
    BY <1>2, SameWords DEF Contract!Permitted, Contract!CreateOne
  <2>2. r.items = {x}
    BY <1>2, <2>1, ConstantsAssumption DEF WellFormed
  <2>3. x.row \notin Pol(r).inputDeny
    BY <1>2, <2>2, SameWords DEF Contract!Permitted, Contract!CreateOne
  <2>4. Pol(r).create # {}
    BY <2>1 DEF Contract!CreatedRow
  <2> QED
    BY <1>2, <2>2, <2>3, <2>4 DEF RefusedUpFront, StaticallyDenied
<1>3. CASE r.op = "createMany"
  BY <1>3, SameWords DEF RefusedUpFront, Contract!Permitted, Contract!CreateAll
<1>4. CASE r.op \in {"updateMany", "upsert", "deleteMany"}
  BY <1>4, SameWords DEF RefusedUpFront, Contract!Permitted, Contract!UpdateAll
<1>5. CASE r.op = "delete"
  <2>1. Found(Pol(r).delete \cap Pol(r).deleteChecker, r.id, s)
    BY <1>5, SameWords DEF Contract!Permitted, Contract!DeleteOne
  <2> QED
    BY <1>5, <2>1 DEF RefusedUpFront, StaticallyDenied, Found
<1> QED
  BY <1>2, <1>3, <1>4, <1>5, RequestIsTyped DEF RefusedUpFront, Ops

\* Nobody is refused for nothing.  Where the database gives each transaction a
\* snapshot and set operations take the model's guard alone, a call is denied
\* only if on the rows it saw the policy permits no outcome of it, whatever the
\* others do meanwhile; and it is not found only if there was no row.
THEOREM RefusalsAreJustified ==
    ASSUME \A r \in Requests : Kept(r) /\ Settled(r)
    PROVE  Spec => RefusalJustified
<1> DEFINE justified(c) ==
      /\ pc'[c] = "done" /\ pc[c] # "done" /\ resp'[c] = "denied" =>
            LET s == IF pc[c] = "called" THEN db ELSE snap[c]
            IN  ~ \E t \in States : Contract!Permitted(req[c], s, t)
      /\ pc'[c] = "done" /\ pc[c] # "done" /\ resp'[c] = "notFound" =>
            snap[c][req[c].id] = NoRow
<1>1. ASSUME TypeOK, Inv, NEW c \in Clients, NEW d \in Clients,
             Step(c) \/ \E r \in Requests : Issue(c, r)
      PROVE  justified(d)
  <2>1. CASE d # c
    BY <1>1, <2>1, StepIsLocal DEF Same
  <2>2. CASE d = c /\ \E r \in Requests : Issue(c, r)
    BY <2>2, <1>1 DEF TypeOK, Issue, Goto
  <2>3. CASE d = c /\ Step(c)
    <3>1. req[c] \in Requests
      BY <1>1, <2>3, StepGoesOn
    <3>2. CASE pc[c] = "called"
      <4>1. Prepare(c)
        BY <2>3, <3>2 DEF Step, Begin, Probe, Exist, CheckPolicy, ReadPreValue,
              WriteRow, Insert, ReadFirst, Lookup, CreateItem, FindCandidates,
              Native, PostCheck, ReadBack, Rethrow, Commit, Direct, ReadAfter,
              Abort, Stages
      <4>2. pc'[c] = "done" => RefusedUpFront(req[c]) /\ resp'[c] = "denied"
        BY <1>1, <4>1 DEF TypeOK, Prepare, Goto, Answer
      <4>3. db \in States
        BY <1>1 DEF TypeOK
      <4> QED
        BY <2>3, <3>1, <3>2, <4>2, <4>3, UpFrontIsImpossible
    <3>3. CASE pc[c] # "called"
      <4>1. AnswersJustly(c) /\ Settled(req[c])
        BY <1>1, <2>3, <3>1, <3>3, StepFollows DEF Inv
      <4> QED
        BY <2>3, <3>3, <4>1 DEF AnswersJustly, Justified, Possible, HasRow, Refusals
    <3> QED
      BY <3>2, <3>3
  <2> QED
    BY <1>1, <2>1, <2>2, <2>3
<1>2. TypeOK /\ Inv /\ [Next]_vars => [\A c \in Clients : justified(c)]_vars
  BY <1>1 DEF Next
<1> QED
  BY <1>2, Invariant, PTL DEF Spec, RefusalJustified

-----------------------------------------------------------------------------
(* Set operations done by one statement. *)

\* A call goes to the database directly only if its guard can go with it, and
\* nothing has been answered by then.
DirectIsPlain ==
    \A c \in Clients :
        /\ pc[c] \in {"idle", "called", "direct"} => Silent(c)
        /\ pc[c] = "direct" => AtDirect(c) /\ ~RefusedUpFront(req[c])

\* Only the preparation of a call sends it to the database directly.
LEMMA StepToDirect ==
    ASSUME TypeOK, NEW c \in Clients, Step(c), pc'[c] \in {"idle", "called", "direct"}
    PROVE  Prepare(c) \/ pc'[c] = pc[c]
<1>1. ASSUME NEW a, Finish(c, a) \/ Refuse(c, a)
      PROVE  FALSE
  BY <1>1 DEF TypeOK, Finish, Refuse, Goto
<1>2. ASSUME NEW ks, Register(c, ks) PROVE FALSE
  BY <1>2 DEF TypeOK, Register, AfterChecks, Goto
<1>3. CASE \E t \in todo[c] : Lookup(c, t[1]) \/ CreateItem(c, t[1])
  BY <1>2, <1>3 DEF TypeOK, Lookup, CreateItem
<1>4. ~(Begin(c) \/ Probe(c) \/ ReadPreValue(c) \/ ReadFirst(c)
        \/ ReadBack(c) \/ FindCandidates(c))
  BY DEF TypeOK, Begin, FirstStage, Probe, ReadPreValue, ReadFirst,
         ReadBack, FindCandidates, Goto
<1>5. ~(Exist(c) \/ CheckPolicy(c))
  BY <1>1 DEF TypeOK, Exist, CheckPolicy, Goto
<1>6. ~(WriteRow(c) \/ Insert(c) \/ Native(c) \/ PostCheck(c))
  BY <1>1, <1>2 DEF TypeOK, WriteRow, Insert, Native, PostCheck, Goto
<1>7. ~(Rethrow(c) \/ ReadAfter(c) \/ Abort(c) \/ Commit(c) \/ Direct(c))
  BY <1>1 DEF TypeOK, Rethrow, ReadAfter, Abort, Commit, Direct, Goto
<1> QED
  BY <1>3, <1>4, <1>5, <1>6, <1>7 DEF Step

\* So it is in every behaviour.
LEMMA DirectIsInvariant == Spec => [](TypeOK /\ DirectIsPlain)
<1>1. Init => DirectIsPlain
  BY DEF Init, DirectIsPlain, Silent
<1>2. ASSUME TypeOK, DirectIsPlain, NEW c \in Clients,
             Step(c) \/ \E r \in Requests : Issue(c, r)
      PROVE  DirectIsPlain'
  <2> DEFINE plain(d) == /\ pc[d] \in {"idle", "called", "direct"} => Silent(d)
                         /\ pc[d] = "direct" => AtDirect(d) /\ ~RefusedUpFront(req[d])
  <2>1. ASSUME NEW d \in Clients, Same(d) PROVE plain(d)'
    BY <1>2, <2>1 DEF Same, DirectIsPlain, AtDirect, Silent
  <2>2. ASSUME NEW r \in Requests, Issue(c, r) PROVE plain(c)'
    BY <1>2, <2>2 DEF TypeOK, Issue, Goto, DirectIsPlain, Silent
  <2>3. ASSUME Prepare(c) PROVE plain(c)'
    BY <1>2, <2>3 DEF TypeOK, Prepare, Goto, Answer, DirectIsPlain, AtDirect, Silent
  <2>4. ASSUME pc'[c] \notin {"idle", "called", "direct"} PROVE plain(c)'
    BY <2>4
  <2>5. ASSUME Step(c), ~Prepare(c), pc'[c] \in {"idle", "called", "direct"}
        PROVE  plain(c)'
    <3>1. pc'[c] = pc[c]
      BY <1>2, <2>5, StepToDirect
    <3>2. pc[c] \notin {"idle", "called", "direct"}
      <4>1. pc[c] = "direct" => Direct(c) \/ Abort(c)
        BY <2>5 DEF Step, Prepare, Begin, Probe, Exist, CheckPolicy,
            ReadPreValue, WriteRow, Insert, ReadFirst, Lookup, CreateItem,
            FindCandidates, Native, PostCheck, ReadBack, Rethrow, Commit, ReadAfter
      <4>2. ~Direct(c) /\ ~Abort(c)
        BY <1>2, <2>5 DEF TypeOK, Direct, Abort, Finish, Goto
      <4>3. pc[c] # "idle"
        BY <1>2, <2>5, StepGoesOn
      <4>4. pc[c] # "called"
        BY <2>5 DEF Step, Prepare, Begin, Probe, Exist, CheckPolicy, Abort, Stages,
            ReadPreValue, WriteRow, Insert, ReadFirst, Lookup, CreateItem, Direct,
            FindCandidates, Native, PostCheck, ReadBack, Rethrow, Commit, ReadAfter
      <4> QED
        BY <4>1, <4>2, <4>3, <4>4
    <3> QED
      BY <3>1, <3>2, <2>5
  <2>6. plain(c)'
    BY <1>2, <2>2, <2>3, <2>4, <2>5
  <2>7. \A d \in Clients : plain(d)'
    BY <1>2, <2>1, <2>6, StepIsLocal
  <2> QED
    BY <2>7 DEF DirectIsPlain
<1>3. ASSUME TypeOK, DirectIsPlain, UNCHANGED vars PROVE DirectIsPlain'
  BY <1>3 DEF vars, DirectIsPlain, AtDirect, Silent
<1>4. TypeOK /\ DirectIsPlain /\ [Next]_vars => DirectIsPlain'
  BY <1>2, <1>3 DEF Next
<1> QED
  BY <1>1, <1>4, TypeCorrect, PTL DEF Spec

\* The statement writes what the contract says, on the rows it finds.
LEMMA DirectIsPermitted ==
    ASSUME TypeOK, DirectIsPlain, NEW c \in Clients, FieldsUncompared(req[c]), Direct(c)
    PROVE  /\ req[c] \in Requests /\ Contract!Permitted(req[c], db, db')
           /\ pc'[c] = "readAfter" => req[c].returning
           /\ ~req[c].returning => ~Contract!ShowsResult(req[c])
<1> DEFINE r == req[c]
<1>1. /\ r \in Requests /\ IsDirect(r) /\ ~RefusedUpFront(r) /\ db \in States
      /\ r.op \in {"createMany", "updateMany", "deleteMany"}
  BY DEF TypeOK, Direct, DirectIsPlain, AtDirect, IsDirect
<1>2. PICK w \in NativeWrites(r, db, Ids) : db' = Over(db, w)
  BY DEF Direct, Over
<1>3. Decides(r, db, db', {})
  BY <1>1, <1>2, DirectDecides
<1>4. Contract!Permitted(r, db, db')
  BY <1>3 DEF Decides
<1>5. pc'[c] = "readAfter" => r.returning
  BY DEF TypeOK, Direct, Finish, Goto
<1>6. ~r.returning => ~Contract!ShowsResult(r)
  BY <1>1 DEF Contract!ShowsResult
<1> QED
  BY <1>1, <1>4, <1>5, <1>6

\* A set operation done by one native statement obeys the policy on the rows it
\* finds, whatever the isolation and the other clients, unless the fields it
\* writes have checkers of their own, which do not run for set operations.
THEOREM SingleStatementsObeyPolicy ==
    ASSUME \A r \in Requests : FieldsUncompared(r)
    PROVE  Spec => SingleStatementObeysPolicy
<1> DEFINE obeys(c) ==
      /\ pc[c] = "direct"
      /\ pc'[c] = "readAfter" \/ resp'[c] = "ok"
      => Contract!Permitted(req[c], db, db')
<1>1. ASSUME TypeOK, DirectIsPlain, NEW c \in Clients, NEW d \in Clients,
             Step(c) \/ \E r \in Requests : Issue(c, r)
      PROVE  obeys(d)
  <2>1. CASE d # c
    BY <1>1, <2>1, StepIsLocal DEF Same, DirectIsPlain, Silent
  <2>2. CASE d = c /\ pc[c] = "direct"
    <3>1. Direct(c) \/ Abort(c)
      BY <1>1, <2>2 DEF Step, Issue, Prepare, Begin, Probe, Exist, CheckPolicy,
            ReadPreValue, WriteRow, Insert, ReadFirst, Lookup, CreateItem,
            FindCandidates, Native, PostCheck, ReadBack, Rethrow, Commit, ReadAfter
    <3>2. CASE Direct(c)
      <4>1. req[c] \in Requests
        BY <1>1, <2>2 DEF TypeOK
      <4> QED
        BY <1>1, <2>2, <3>2, <4>1, DirectIsPermitted
    <3>3. CASE Abort(c)
      BY <1>1, <2>2, <3>3 DEF TypeOK, Abort, Finish, Goto, Answer
    <3> QED
      BY <3>1, <3>2, <3>3
  <2> QED
    BY <2>1, <2>2
<1>2. TypeOK /\ DirectIsPlain /\ [Next]_vars => [\A c \in Clients : obeys(c)]_vars
  BY <1>1 DEF Next
<1> QED
  BY <1>2, DirectIsInvariant, PTL DEF Spec, SingleStatementObeysPolicy

-----------------------------------------------------------------------------
(* The refinement.  What a client is doing and what it was told, in the     *)
(* words of the contract.                                                   *)

status == [c \in Clients |->
             CASE pc[c] = "idle" -> "idle"
               [] pc[c] = "done" -> "answered"
               [] pc[c] = "readAfter" -> "applied"
               [] OTHER -> "called"]
answer == [c \in Clients |-> IF pc[c] = "done" THEN resp[c] ELSE "none"]

\* A step of one client takes its call one step further, or nowhere.
LEMMA StatusFollowsStage ==
    ASSUME TypeOK, NEW c \in Clients, Step(c) \/ \E r \in Requests : Issue(c, r)
    PROVE  /\ status' = [status EXCEPT ![c] =
                            CASE pc'[c] = "idle" -> "idle"
                              [] pc'[c] = "done" -> "answered"
                              [] pc'[c] = "readAfter" -> "applied"
                              [] OTHER -> "called"]
           /\ answer' = [answer EXCEPT ![c] = IF pc'[c] = "done" THEN resp'[c] ELSE "none"]
<1>1. \A d \in Clients \ {c} : pc'[d] = pc[d] /\ resp'[d] = resp[d]
  BY StepIsLocal DEF Same
<1> QED
  BY <1>1 DEF status, answer

\* To change a function to what it is leaves it alone.
LEMMA ExceptSame ==
    ASSUME NEW S, NEW f, f = [x \in S |-> f[x]], NEW c \in S
    PROVE  [f EXCEPT ![c] = f[c]] = f
  OBVIOUS

\* Both are functions of the clients.
LEMMA StatusIsFunction ==
    /\ status = [d \in Clients |-> status[d]]
    /\ answer = [d \in Clients |-> answer[d]]
  BY DEF status, answer

\* A step that neither answers a call nor changes the rows is nobody's business.
LEMMA SilentStep ==
    ASSUME TypeOK, TypeOK', NEW c \in Clients, Step(c), db' = db,
           pc[c] \notin {"done", "readAfter"}, pc'[c] \notin {"done", "readAfter"}
    PROVE  UNCHANGED Contract!vars
<1>1. pc[c] # "idle" /\ pc'[c] # "idle" /\ req'[c] = req[c]
  BY StepGoesOn
<1>2. \A d \in Clients \ {c} : req'[d] = req[d]
  BY StepIsLocal DEF Same
<1>3. req' = req
  BY <1>1, <1>2 DEF TypeOK
<1>4. status[c] = "called" /\ answer[c] = "none"
  BY <1>1 DEF status, answer
<1>5. status' = [status EXCEPT ![c] = "called"] /\ answer' = [answer EXCEPT ![c] = "none"]
  BY <1>1, StatusFollowsStage
<1>6. status' = status /\ answer' = answer
  BY <1>4, <1>5, ExceptSame, StatusIsFunction
<1> QED
  BY <1>3, <1>6 DEF Contract!vars, status, answer

\* A call that ends without effect is a refusal of the contract.
LEMMA EndWithoutEffect ==
    ASSUME TypeOK, TypeOK', NEW c \in Clients, Step(c), db' = db,
           pc[c] \notin {"done", "readAfter"}, pc'[c] = "done",
           \/ resp'[c] \in Refusals \cup {"dbError"}
           \/ resp'[c] = "notReadable" /\ req[c].app = "interactive"
    PROVE  Contract!Refuse(c)
<1>1. pc[c] # "idle" /\ req'[c] = req[c]
  BY StepGoesOn
<1>2. \A d \in Clients \ {c} : req'[d] = req[d]
  BY StepIsLocal DEF Same
<1>3. req' = req
  BY <1>1, <1>2 DEF TypeOK
<1>4. status[c] = "called" /\ status' = [status EXCEPT ![c] = "answered"]
  BY <1>1, StatusFollowsStage DEF status
<1>5. answer' = [answer EXCEPT ![c] = resp'[c]]
  BY StatusFollowsStage
<1>6. resp'[c] \in Contract!Refusals \cup {"dbError"}
                  \cup IF req[c].app = "interactive" THEN {"notReadable"} ELSE {}
  BY DEF Contract!Refusals, Refusals
<1>7. answer' \in {[answer EXCEPT ![c] = a] :
                      a \in Contract!Refusals \cup {"dbError"}
                            \cup IF req[c].app = "interactive" THEN {"notReadable"} ELSE {}}
  BY <1>5, <1>6
<1> QED
  BY <1>3, <1>4, <1>7, Zenon DEF Contract!Refuse, status, answer

\* What is read after the commit only settles the answer.
LEMMA ReadAfterConcludes ==
    ASSUME TypeOK, TypeOK', NEW c \in Clients, pc[c] = "readAfter",
           ReadAfter(c) \/ Abort(c)
    PROVE  Contract!Conclude(c)
<1>1. Step(c)
  BY DEF Step
<1>2. db' = db /\ req' = req /\ pc'[c] = "done"
  BY DEF TypeOK, ReadAfter, Abort, Finish, Goto
<1>3. resp'[c] \in {"ok", "notReadable", "dbError"}
  BY DEF TypeOK, ReadAfter, Abort, Finish, Answer, ReadResult
<1>4. status[c] = "applied" /\ status' = [status EXCEPT ![c] = "answered"]
  BY <1>1, <1>2, StatusFollowsStage DEF status
<1>5. answer' = [answer EXCEPT ![c] = resp'[c]]
  BY <1>1, <1>2, StatusFollowsStage
<1>6. answer' \in {[answer EXCEPT ![c] = a] : a \in {"ok", "notReadable", "dbError"}}
  BY <1>3, <1>5
<1> QED
  BY <1>2, <1>4, <1>6, Zenon DEF Contract!Conclude, status, answer

\* A step that changes the rows as the policy permits applies the call: with
\* the answer that fits what may be read, or before its result is read.
LEMMA EffectIsApplied ==
    ASSUME TypeOK, TypeOK', NEW c \in Clients, Step(c), req' = req,
           pc[c] \notin {"idle", "done", "readAfter"},
           Contract!Permitted(req[c], db, db'),
           \/ /\ pc'[c] = "done"
              /\ \/ /\ resp'[c] = "ok"
                    /\ Contract!ShowsResult(req[c]) => Contract!Readable(req[c], db, db')
                 \/ /\ resp'[c] = "notReadable" /\ Contract!ShowsResult(req[c])
                    /\ ~Contract!Readable(req[c], db, db')
                 \/ resp'[c] = "dbError"
           \/ pc'[c] = "readAfter" /\ req[c].returning
    PROVE  Contract!Apply(c)
<1>1. status[c] = "called" /\ answer[c] = "none"
  BY DEF status, answer
<1>2. CASE pc'[c] = "done"
  <2>1. status' = [status EXCEPT ![c] = "answered"]
    BY <1>2, StatusFollowsStage
  <2>2. answer' = [answer EXCEPT ![c] = resp'[c]]
    BY <1>2, StatusFollowsStage
  <2>3. \/ /\ Contract!ShowsResult(req[c]) => Contract!Readable(req[c], db, db')
           /\ answer' = [answer EXCEPT ![c] = "ok"]
        \/ /\ Contract!ShowsResult(req[c]) /\ ~Contract!Readable(req[c], db, db')
           /\ answer' = [answer EXCEPT ![c] = "notReadable"]
        \/ answer' = [answer EXCEPT ![c] = "dbError"]
    BY <1>2, <2>2
  <2> QED
    BY <1>1, <2>1, <2>3, Zenon DEF Contract!Apply, status, answer
<1>3. CASE pc'[c] = "readAfter" /\ req[c].returning
  <2>1. status' = [status EXCEPT ![c] = "applied"]
    BY <1>3, StatusFollowsStage
  <2>2. answer' = [answer EXCEPT ![c] = "none"]
    BY <1>3, StatusFollowsStage
  <2>3. answer' = answer
    BY <1>1, <2>2, ExceptSame, StatusIsFunction
  <2> QED
    BY <1>1, <1>3, <2>1, <2>3, Zenon DEF Contract!Apply, status, answer
<1> QED
  BY <1>2, <1>3

\* With a serializable database a commit is the effect of the call: nothing was
\* committed since its snapshot.
LEMMA CommitApplies ==
    ASSUME TypeOK, TypeOK', NEW c \in Clients, Commit(c), Follows(c),
           req[c].isolation = "Serializable", req[c].app # "swallow"
    PROVE  Contract!Apply(c)
<1> DEFINE r == req[c]
           shown == Contract!ShowsResult(r)
           readable == Contract!Readable(r, db, db')
<1>1. db = snap[c] /\ db' = OwnView(c) /\ AtCommit(c) /\ Step(c) /\ pc[c] = "commit"
  BY DEF Commit, CanCommit, Merged, OwnView, Follows, Step
<1>2. resp[c] \notin Refusals /\ resp[c] \in {"none", "ok", "notReadable"}
  BY <1>1 DEF TypeOK, AtCommit
<1>3. Contract!Permitted(r, db, db')
  BY <1>1, <1>2 DEF AtCommit
<1>4. CASE r.op = "updateMany" /\ r.returning /\ r.app = "plain"
  <2>1. pc'[c] = "readAfter" /\ req' = req
    BY <1>4 DEF TypeOK, Commit, Goto
  <2> QED
    BY <1>1, <1>3, <1>4, <2>1, EffectIsApplied
<1>5. CASE ~(r.op = "updateMany" /\ r.returning /\ r.app = "plain")
  <2>1. PICK a \in {IF resp[c] = "none" THEN "ok" ELSE resp[c], "dbError"} : Finish(c, a)
    BY <1>5 DEF Commit
  <2>2. pc'[c] = "done" /\ resp'[c] = a /\ req' = req
    BY <2>1 DEF TypeOK, Finish, Goto, Answer
  <2>3. resp[c] = "none" => ~shown
    BY <1>1, <1>5 DEF AtCommit, Contract!ShowsResult
  <2>4. resp[c] = "ok" => shown /\ readable
    BY <1>1 DEF AtCommit
  <2>5. resp[c] = "notReadable" => shown /\ ~readable
    BY <1>1 DEF AtCommit
  <2>6. \/ a = "ok" /\ (shown => readable)
        \/ a = "notReadable" /\ shown /\ ~readable
        \/ a = "dbError"
    BY <1>2, <2>1, <2>3, <2>4, <2>5
  <2> QED
    BY <1>1, <1>3, <2>2, <2>6, EffectIsApplied
<1> QED
  BY <1>4, <1>5

\* A statement outside a transaction is its own effect.
LEMMA DirectApplies ==
    ASSUME TypeOK, TypeOK', DirectIsPlain, NEW c \in Clients, Direct(c),
           FieldsUncompared(req[c])
    PROVE  Contract!Apply(c)
<1>1. /\ Contract!Permitted(req[c], db, db')
      /\ pc'[c] = "readAfter" => req[c].returning
      /\ ~req[c].returning => ~Contract!ShowsResult(req[c])
  BY DirectIsPermitted
<1>2. Step(c) /\ pc[c] = "direct"
  BY DEF Step, Direct
<1>3. CASE req[c].returning
  <2>1. pc'[c] = "readAfter" /\ req' = req
    BY <1>3 DEF TypeOK, Direct, Goto
  <2> QED
    BY <1>1, <1>2, <1>3, <2>1, EffectIsApplied
<1>4. CASE ~req[c].returning
  <2>1. pc'[c] = "done" /\ req' = req /\ resp'[c] \in {"ok", "dbError"}
    BY <1>4 DEF TypeOK, Direct, Finish, Goto, Answer
  <2> QED
    BY <1>1, <1>2, <1>4, <2>1, EffectIsApplied
<1> QED
  BY <1>3, <1>4

\* Every other step leaves the rows alone, and ends a call only by a refusal or
\* a failure, unless the caller owns the transaction an error aborts.
LEMMA OtherStepsLeaveNoTrace ==
    ASSUME TypeOK, NEW c \in Clients, Step(c), ~Commit(c), ~Direct(c),
           pc[c] # "readAfter", req[c].app # "swallow"
    PROVE  /\ db' = db /\ pc[c] # "done" /\ pc'[c] # "readAfter"
           /\ pc'[c] = "done" => \/ resp'[c] \in Refusals \cup {"dbError"}
                                 \/ resp'[c] = "notReadable" /\ req[c].app = "interactive"
<1> DEFINE ends == \/ resp'[c] \in Refusals \cup {"dbError"}
                   \/ resp'[c] = "notReadable" /\ req[c].app = "interactive"
           goal == /\ db' = db /\ pc[c] # "done" /\ pc'[c] # "readAfter"
                   /\ pc'[c] = "done" => ends
<1>1. ASSUME NEW a \in Refusals, Refuse(c, a)
      PROVE  db' = db /\ pc'[c] = "done" /\ ends
  BY <1>1 DEF TypeOK, Refuse, Finish, Goto, Answer
<1>2. ASSUME NEW ks, Register(c, ks)
      PROVE  pc'[c] \notin {"readAfter", "done"}
  BY <1>2 DEF TypeOK, Register, AfterChecks, Goto
<1>3. CASE Begin(c) \/ Probe(c) \/ ReadPreValue(c) \/ ReadFirst(c)
  BY <1>3 DEF TypeOK, Begin, FirstStage, Probe, ReadPreValue, ReadFirst, Goto
<1>4. CASE ReadBack(c) \/ FindCandidates(c)
  BY <1>4 DEF TypeOK, ReadBack, FindCandidates, Goto
<1>5. CASE Prepare(c)
  BY <1>5 DEF TypeOK, Prepare, Goto, Answer, Refusals
<1>6. CASE Exist(c) \/ CheckPolicy(c)
  <2>1. (\E a \in Refusals : Refuse(c, a)) \/ (db' = db /\ pc'[c] \notin {"readAfter", "done"})
    BY <1>6 DEF TypeOK, Exist, CheckPolicy, Goto, Refusals
  <2> QED
    BY <1>1, <1>6, <2>1 DEF Exist, CheckPolicy
<1>7. CASE WriteRow(c) \/ Native(c)
  BY <1>2, <1>7 DEF TypeOK, WriteRow, Native, Goto
<1>8. CASE Insert(c) \/ PostCheck(c)
  <2>1. (\E a \in Refusals : Refuse(c, a)) \/ (db' = db /\ pc'[c] \notin {"readAfter", "done"})
    BY <1>2, <1>8 DEF Insert, PostCheck, Refusals
  <2> QED
    BY <1>1, <1>8, <2>1 DEF Insert, PostCheck
<1>9. CASE \E t \in todo[c] : Lookup(c, t[1]) \/ CreateItem(c, t[1])
  BY <1>2, <1>9 DEF TypeOK, Lookup, CreateItem
<1>10. CASE Rethrow(c) \/ Abort(c)
  BY <1>10 DEF TypeOK, Rethrow, Abort, Finish, Goto, Answer, Stages
<1>11. ~ReadAfter(c)
  BY DEF ReadAfter
<1> QED
  BY <1>3, <1>4, <1>5, <1>6, <1>7, <1>8, <1>9, <1>10, <1>11 DEF Step

\* The write path implements the contract.  With a serializable database, for
\* set operations whose candidates are taken as the contract says and callers
\* that do not commit what was refused, every call is refused without a trace or
\* applies, at once, exactly the effect the policy permits, however its
\* statements interleave with those of others.
THEOREM WritePathImplementsContract ==
    ASSUME \A r \in Requests :
              r.isolation = "Serializable" /\ r.app # "swallow" /\ Enforced(r)
    PROVE  Spec => ImplementsContract
<1>1. Init => Contract!Init
  BY DEF Init, Contract!Init
<1>2. ASSUME TypeOK, TypeOK', NEW c \in Clients, NEW r \in Requests, Issue(c, r)
      PROVE  Contract!Call(c, r)
  <2>1. pc[c] = "idle" /\ pc'[c] = "called" /\ req' = [req EXCEPT ![c] = r] /\ db' = db
    BY <1>2 DEF TypeOK, Issue, Goto
  <2>2. status[c] = "idle" /\ answer[c] = "none"
    BY <2>1 DEF status, answer
  <2>3. status' = [status EXCEPT ![c] = "called"] /\ answer' = [answer EXCEPT ![c] = "none"]
    BY <1>2, <2>1, StatusFollowsStage
  <2>4. answer' = answer
    BY <2>2, <2>3, ExceptSame, StatusIsFunction
  <2> QED
    BY <2>1, <2>2, <2>3, <2>4, Zenon DEF Contract!Call, status, answer
<1>3. ASSUME TypeOK, TypeOK', Inv, DirectIsPlain, NEW c \in Clients, Step(c)
      PROVE  \/ Contract!Refuse(c) \/ Contract!Apply(c) \/ Contract!Conclude(c)
             \/ UNCHANGED Contract!vars
  <2>1. /\ req[c] \in Requests /\ pc[c] # "idle"
        /\ req[c].isolation = "Serializable" /\ req[c].app # "swallow" /\ Enforced(req[c])
    BY <1>3, StepGoesOn
  <2>2. Follows(c)
    BY <1>3, <2>1 DEF Inv, Kept
  <2>3. CASE Commit(c)
    BY <1>3, <2>1, <2>2, <2>3, CommitApplies
  <2>4. CASE Direct(c)
    BY <1>3, <2>1, <2>4, DirectApplies DEF Enforced
  <2>5. CASE pc[c] = "readAfter"
    <3>1. ReadAfter(c) \/ Abort(c)
      BY <1>3, <2>5 DEF Step, Prepare, Begin, Probe, Exist, CheckPolicy,
            ReadPreValue, WriteRow, Insert, ReadFirst, Lookup, CreateItem,
            FindCandidates, Native, PostCheck, ReadBack, Rethrow, Commit, Direct
    <3> QED
      BY <1>3, <2>5, <3>1, ReadAfterConcludes
  <2>6. CASE ~Commit(c) /\ ~Direct(c) /\ pc[c] # "readAfter"
    <3>1. /\ db' = db /\ pc[c] # "done" /\ pc'[c] # "readAfter"
          /\ pc'[c] = "done" => \/ resp'[c] \in Refusals \cup {"dbError"}
                                \/ resp'[c] = "notReadable" /\ req[c].app = "interactive"
      BY <1>3, <2>1, <2>6, OtherStepsLeaveNoTrace
    <3> QED
      BY <1>3, <2>6, <3>1, SilentStep, EndWithoutEffect
  <2> QED
    BY <2>3, <2>4, <2>5, <2>6
<1>4. UNCHANGED vars => UNCHANGED Contract!vars
  BY DEF vars, Contract!vars
<1>5. TypeOK /\ TypeOK' /\ Inv /\ DirectIsPlain /\ [Next]_vars
         => [Contract!Next]_(Contract!vars)
  BY <1>2, <1>3, <1>4 DEF Next, Contract!Next
<1> QED
  BY <1>1, <1>5, Invariant, DirectIsInvariant, PTL DEF Spec, ImplementsContract, Contract!Spec

=============================================================================
