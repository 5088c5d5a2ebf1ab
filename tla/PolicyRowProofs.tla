---------------------------- MODULE PolicyRowProofs ----------------------------
(***************************************************************************)
(* What the write path keeps where transactions are not serializable, for  *)
(* policies that look only at the row itself: nothing comes between the    *)
(* statement that checks a row and the commit, because the row is locked   *)
(* from the moment it is written.                                          *)
(***************************************************************************)
EXTENDS PolicyContractProofs

-----------------------------------------------------------------------------
(* Row locks. *)

\* The stages of a transaction that may have written.
Writing == {"items", "post", "readBack", "commit"}

\* A row is written by one open transaction at most, and under snapshot
\* isolation it is still what it was in the snapshot of that one.
Locked ==
    /\ \A c \in Clients : pc[c] \notin Writing => wr[c] = AllClean
    /\ \A c, d \in Clients, i \in Ids : c # d => wr[c][i] = Clean \/ wr[d][i] = Clean
    /\ \A c \in Clients, i \in Ids :
         req[c].isolation = "Snapshot" /\ wr[c][i] # Clean => db[i] = snap[c][i]

\* What a step may do to the rows its client has written, to its snapshot and
\* to the committed rows.
KeepsLocks(c) ==
    /\ pc'[c] \notin Writing => wr'[c] = AllClean
    /\ \A i \in Ids : \/ wr'[c][i] = wr[c][i]
                      \/ wr'[c][i] = Clean
                      \/ CanWrite(c, {i})
    /\ \A i \in Ids : db'[i] = db[i] \/ \A d \in Clients \ {c} : wr[d][i] = Clean
    /\ (db' = db /\ snap'[c] = snap[c]) \/ wr'[c] = AllClean

\* A call that ends has written nothing any more.
LEMMA FinishKeepsLocks ==
    ASSUME TypeOK, NEW c \in Clients, NEW a, Finish(c, a),
           \A i \in Ids : db'[i] = db[i] \/ \A d \in Clients \ {c} : wr[d][i] = Clean
    PROVE  KeepsLocks(c)
<1>1. wr'[c] = AllClean
  BY DEF TypeOK, Finish
<1> QED
  BY <1>1 DEF KeepsLocks, AllClean

\* So has one that is refused, and one that keeps its rows keeps their locks.
LEMMA RefuseKeepsLocks ==
    ASSUME TypeOK, NEW c \in Clients, NEW a, Refuse(c, a)
    PROVE  KeepsLocks(c)
<1>1. CASE req[c].app = "swallow"
  BY <1>1 DEF TypeOK, Refuse, Goto, KeepsLocks, Writing
<1>2. CASE req[c].app # "swallow"
  BY <1>2, FinishKeepsLocks DEF Refuse
<1> QED
  BY <1>1, <1>2

\* A statement that writes waits for the locks of the rows it writes.
LEMMA PutKeepsLocks ==
    ASSUME TypeOK, NEW c \in Clients, NEW w, Put(c, w), CanWrite(c, DOMAIN w),
           UNCHANGED <<db, snap>>, pc'[c] \in Writing
    PROVE  KeepsLocks(c)
<1>1. \A i \in Ids : wr'[c][i] = wr[c][i] \/ i \in DOMAIN w
  BY DEF TypeOK, Put
<1>2. \A i \in DOMAIN w : CanWrite(c, {i})
  BY DEF CanWrite
<1> QED
  BY <1>1, <1>2 DEF KeepsLocks

\* After a write the next stage is one of a transaction that has written.
LEMMA RegisterIsWriting ==
    ASSUME TypeOK, NEW c \in Clients, NEW ks, Register(c, ks)
    PROVE  pc'[c] \in Writing \ {"items"}
  BY DEF TypeOK, Register, AfterChecks, Goto, Writing

\* No step writes a row that another open transaction has written, or drops a
\* write set without the transaction.
LEMMA StepKeepsLocks ==
    ASSUME TypeOK, Locked, NEW c \in Clients, Step(c)
    PROVE  KeepsLocks(c)
<1>1. ASSUME wr' = wr, db' = db, snap' = snap,
             pc'[c] \in Writing \/ pc[c] \notin Writing
      PROVE  KeepsLocks(c)
  BY <1>1 DEF Locked, KeepsLocks
<1>2. CASE Prepare(c)
  BY <1>1, <1>2 DEF Prepare, Writing
<1>3. CASE Begin(c)
  BY <1>3 DEF TypeOK, Begin, Locked, KeepsLocks, Writing
<1>4. CASE Probe(c) \/ ReadPreValue(c) \/ ReadFirst(c) \/ FindCandidates(c)
  BY <1>1, <1>4 DEF Probe, ReadPreValue, ReadFirst, FindCandidates, Writing
<1>5. CASE Exist(c)
  <2>1. (\E a : Refuse(c, a)) \/ (pc[c] \notin Writing /\ UNCHANGED <<db, snap, wr>>)
    BY <1>5 DEF Exist, Writing
  <2> QED
    BY <1>1, <2>1, RefuseKeepsLocks
<1>6. CASE CheckPolicy(c)
  <2>1. (\E a : Refuse(c, a)) \/ (pc[c] \notin Writing /\ UNCHANGED <<db, snap, wr>>)
    BY <1>6 DEF CheckPolicy, Writing
  <2> QED
    BY <1>1, <2>1, RefuseKeepsLocks
<1>7. CASE WriteRow(c)
  <2> DEFINE i == req[c].id
             gone == [j \in {i} |-> NoRow]
             new == [j \in {i} |-> Written(View(c)[i], req[c].data)]
  <2>1. pc'[c] \in Writing /\ UNCHANGED <<db, snap>> /\ CanWrite(c, {i})
    BY <1>7, RegisterIsWriting DEF TypeOK, WriteRow, Goto, Writing
  <2>2. Put(c, gone) \/ Put(c, new)
    BY <1>7 DEF WriteRow
  <2>3. DOMAIN gone = {i} /\ DOMAIN new = {i}
    OBVIOUS
  <2> HIDE DEF gone, new
  <2> QED
    BY <2>1, <2>2, <2>3, PutKeepsLocks
<1>8. CASE Insert(c)
  <2>1. PICK x \in req[c].items :
           \/ Refuse(c, "denied")
           \/ /\ CanWrite(c, {x.id}) /\ Put(c, [j \in {x.id} |-> x.row])
              /\ \E ks : Register(c, ks)
              /\ UNCHANGED <<db, snap>>
    BY <1>8 DEF Insert
  <2> DEFINE w == [j \in {x.id} |-> x.row]
  <2>2. DOMAIN w = {x.id}
    OBVIOUS
  <2>3. Refuse(c, "denied") \/ (CanWrite(c, DOMAIN w) /\ Put(c, w) /\ pc'[c] \in Writing
                               /\ UNCHANGED <<db, snap>>)
    BY <2>1, <2>2, RegisterIsWriting
  <2> HIDE DEF w
  <2> QED
    BY <2>3, RefuseKeepsLocks, PutKeepsLocks
<1>9. ASSUME NEW x, Lookup(c, x) PROVE KeepsLocks(c)
  <2>1. pc'[c] \in Writing
    BY <1>9, RegisterIsWriting DEF Lookup, Writing
  <2> QED
    BY <1>1, <1>9, <2>1 DEF Lookup
<1>10. ASSUME NEW x, CreateItem(c, x) PROVE KeepsLocks(c)
  <2> DEFINE w == [j \in {x.id} |-> x.row]
  <2>1. pc'[c] \in Writing
    BY <1>10, RegisterIsWriting DEF CreateItem, Writing
  <2>2. DOMAIN w = {x.id} /\ Put(c, w) /\ CanWrite(c, {x.id}) /\ UNCHANGED <<db, snap>>
    BY <1>10 DEF CreateItem
  <2> HIDE DEF w
  <2> QED
    BY <2>1, <2>2, PutKeepsLocks
<1>11. CASE Native(c)
  <2>1. pc'[c] \in Writing
    BY <1>11, RegisterIsWriting DEF Native
  <2>2. PICK w : CanWrite(c, DOMAIN w) /\ Put(c, w)
    BY <1>11 DEF Native
  <2> QED
    BY <1>11, <2>1, <2>2, PutKeepsLocks DEF Native
<1>12. CASE PostCheck(c)
  <2>1. Refuse(c, "denied") \/ (pc'[c] \in Writing /\ UNCHANGED <<db, snap, wr>>)
    BY <1>12, RegisterIsWriting DEF PostCheck
  <2> QED
    BY <1>1, <2>1, RefuseKeepsLocks
<1>13. CASE ReadBack(c)
  BY <1>1, <1>13 DEF TypeOK, ReadBack, Goto, Writing
<1>14. CASE Rethrow(c) \/ ReadAfter(c) \/ Abort(c)
  BY <1>14, FinishKeepsLocks DEF Rethrow, ReadAfter, Abort
<1>15. CASE Commit(c)
  <2>1. \A i \in Ids : db'[i] = db[i] \/ \A d \in Clients \ {c} : wr[d][i] = Clean
    BY <1>15 DEF Commit, Merged, Locked
  <2>2. wr'[c] = AllClean
    BY <1>15 DEF TypeOK, Commit, Finish
  <2> QED
    BY <2>1, <2>2 DEF KeepsLocks, AllClean
<1>16. CASE Direct(c)
  <2>1. \A i \in Ids : db'[i] = db[i] \/ \A d \in Clients \ {c} : wr[d][i] = Clean
    BY <1>16 DEF Direct
  <2>2. wr'[c] = AllClean
    BY <1>16 DEF TypeOK, Direct, Finish, Locked, Writing
  <2> QED
    BY <2>1, <2>2 DEF KeepsLocks, AllClean
<1> QED
  BY <1>2, <1>3, <1>4, <1>5, <1>6, <1>7, <1>8, <1>9, <1>10, <1>11, <1>12, <1>13,
     <1>14, <1>15, <1>16 DEF Step

\* The locks are an invariant by themselves, whatever the calls and policies are.
LEMMA RowsStayLocked ==
    /\ Init => Locked
    /\ TypeOK /\ Locked /\ [Next]_vars => Locked'
<1>1. ASSUME Init PROVE Locked
  BY <1>1 DEF Init, Locked, AllClean
<1>2. ASSUME TypeOK, Locked, NEW c \in Clients, NEW r \in Requests, Issue(c, r)
      PROVE  Locked'
  <2>1. /\ wr' = wr /\ db' = db /\ snap' = snap /\ pc[c] = "idle"
        /\ \A d \in Clients \ {c} : pc'[d] = pc[d] /\ req'[d] = req[d]
    BY <1>2 DEF TypeOK, Issue, Goto
  <2>2. wr[c] = AllClean
    BY <1>2, <2>1 DEF Locked, Writing
  <2> QED
    BY <1>2, <2>1, <2>2 DEF Locked, AllClean
<1>3. ASSUME TypeOK, Locked, NEW c \in Clients, Step(c)
      PROVE  Locked'
  <2>1. KeepsLocks(c) /\ req'[c] = req[c]
    BY <1>3, StepKeepsLocks, StepGoesOn
  <2>2. \A d \in Clients \ {c} :
           pc'[d] = pc[d] /\ req'[d] = req[d] /\ wr'[d] = wr[d] /\ snap'[d] = snap[d]
    BY <1>3, StepIsLocal DEF Same
  <2>3. \A d \in Clients : pc'[d] \notin Writing => wr'[d] = AllClean
    BY <1>3, <2>1, <2>2 DEF Locked, KeepsLocks
  <2>4. \A d \in Clients \ {c}, i \in Ids : wr'[c][i] = Clean \/ wr'[d][i] = Clean
    BY <1>3, <2>1, <2>2 DEF Locked, KeepsLocks, CanWrite
  <2>5. \A d, e \in Clients, i \in Ids : d # e => wr'[d][i] = Clean \/ wr'[e][i] = Clean
    BY <1>3, <2>2, <2>4 DEF Locked
  <2>6. ASSUME NEW i \in Ids, req'[c].isolation = "Snapshot", wr'[c][i] # Clean
        PROVE  db'[i] = snap'[c][i]
    BY <1>3, <2>1, <2>6 DEF Locked, KeepsLocks, CanWrite, AllClean
  <2>7. ASSUME NEW d \in Clients \ {c}, NEW i \in Ids,
               req'[d].isolation = "Snapshot", wr'[d][i] # Clean
        PROVE  db'[i] = snap'[d][i]
    BY <1>3, <2>1, <2>2, <2>7 DEF Locked, KeepsLocks
  <2> QED
    BY <2>3, <2>5, <2>6, <2>7 DEF Locked
<1>4. ASSUME TypeOK, Locked, UNCHANGED vars PROVE Locked'
  BY <1>4 DEF vars, Locked
<1> QED
  BY <1>1, <1>2, <1>3, <1>4 DEF Next

\* The rows of an open transaction are its own in every behaviour.
LEMMA LocksHold == Spec => [](TypeOK /\ Locked)
<1>1. Init => Locked
  BY RowsStayLocked
<1>2. TypeOK /\ Locked /\ [Next]_vars => Locked'
  BY RowsStayLocked
<1> QED
  BY <1>1, <1>2, TypeCorrect, PTL DEF Spec

-----------------------------------------------------------------------------
(* Policies that look only at the row.                                      *)

LocalGuard(g) ==
    \A i \in Ids : \A s, t \in States : s[i] = t[i] => (<<i, s>> \in g <=> <<i, t>> \in g)
LocalPost(g) ==
    \A i \in Ids : \A pre \in Rows \cup {NoRow} : \A s, t \in States :
        s[i] = t[i] => (<<i, pre, s>> \in g <=> <<i, pre, t>> \in g)

RowLocal(p) ==
    /\ LocalGuard(p.create) /\ LocalGuard(p.update) /\ LocalGuard(p.delete)
    /\ LocalGuard(p.updateChecker) /\ LocalGuard(p.deleteChecker)
    /\ \A f \in Fields : /\ LocalGuard(p.fieldGuard[f]) /\ LocalGuard(p.override[f])
                         /\ LocalGuard(p.fieldChecker[f])
    /\ LocalPost(p.post)

\* The combined guards of such a policy look only at the row, too.
LEMMA CombinedGuardsAreLocal ==
    ASSUME NEW p, RowLocal(p), NEW F \in SUBSET Fields
    PROVE  LocalGuard(UpdateGuard(p, F) \cap UpdateChecker(p, F))
<1> SUFFICES ASSUME NEW i \in Ids, NEW s \in States, NEW t \in States, s[i] = t[i]
             PROVE  <<i, s>> \in UpdateGuard(p, F) \cap UpdateChecker(p, F)
                       <=> <<i, t>> \in UpdateGuard(p, F) \cap UpdateChecker(p, F)
  BY DEF LocalGuard
<1>1. <<i, s>> \in Sites /\ <<i, t>> \in Sites
  BY DEF Sites
<1>2. /\ <<i, s>> \in p.update <=> <<i, t>> \in p.update
      /\ <<i, s>> \in p.updateChecker <=> <<i, t>> \in p.updateChecker
  BY DEF RowLocal, LocalGuard
<1>3. \A f \in F : /\ <<i, s>> \in p.fieldGuard[f] <=> <<i, t>> \in p.fieldGuard[f]
                   /\ <<i, s>> \in p.override[f] <=> <<i, t>> \in p.override[f]
                   /\ <<i, s>> \in p.fieldChecker[f] <=> <<i, t>> \in p.fieldChecker[f]
  BY DEF RowLocal, LocalGuard
<1>4. <<i, s>> \in UpdateChecker(p, F) <=> <<i, t>> \in UpdateChecker(p, F)
  BY <1>2, <1>3 DEF UpdateChecker
<1>5. <<i, s>> \in UpdateGuard(p, F) <=> <<i, t>> \in UpdateGuard(p, F)
  BY <1>1, <1>2, <1>3 DEF UpdateGuard
<1> QED
  BY <1>4, <1>5

\* The row a call for one row is about, on the rows s.
IsOne(r) == r.op \in {"create", "update", "upsert", "delete"}
Updates(r, s) == r.op \in {"update", "delete"} \/ (r.op = "upsert" /\ s[r.id] # NoRow)
IsAbout(r, s, i) == IF Updates(r, s) THEN i = r.id ELSE \E x \in r.items : i = x.id

\* An upsert creates the row it has looked for.
CreatesWhatItSeeks(r) == r.op = "upsert" => \A x \in r.items : x.id = r.id

\* What the policy permits of one row it permits whatever the others are.
LEMMA PermittedIsLocal ==
    ASSUME NEW r \in Requests, IsOne(r), RowLocal(Pol(r)), CreatesWhatItSeeks(r),
           NEW s \in States, NEW t \in States, NEW s2 \in States, NEW t2 \in States,
           NEW i \in Ids, IsAbout(r, s, i), s2[i] = s[i], t2[i] = t[i],
           \A j \in Ids \ {i} : t2[j] = s2[j],
           Contract!Permitted(r, s, t)
    PROVE  Contract!Permitted(r, s2, t2)
<1> DEFINE p == Pol(r)
<1>0. r.id \in Ids /\ r.items \subseteq Items /\ r.data \in PartialRows
  BY RequestIsTyped
<1>1. DOMAIN r.data \in SUBSET Fields
  <2>1. PICK F \in SUBSET Fields : r.data \in [F -> Vals]
    BY <1>0 DEF PartialRows
  <2> QED
    BY <2>1
<1>2. ASSUME i = r.id, Contract!UpdateOne(r, s, t)
      PROVE  Contract!UpdateOne(r, s2, t2)
  <2>1. s2[i] # NoRow
    BY <1>2, SameWords DEF Contract!UpdateOne
  <2>2. t[i] = Written(s[i], r.data)
    BY <1>2, SameWords DEF Contract!UpdateOne, States
  <2>3. t2 = [s2 EXCEPT ![i] = Written(s2[i], r.data)]
    BY <2>2 DEF States
  <2>4. ASSUME DOMAIN r.data # {}
        PROVE  /\ <<i, s2>> \in UpdateGuard(p, DOMAIN r.data) \cap UpdateChecker(p, DOMAIN r.data)
               /\ Contract!PostUpdated(r, i, s2, t2)
    <3>1. /\ <<i, s>> \in UpdateGuard(p, DOMAIN r.data) \cap UpdateChecker(p, DOMAIN r.data)
          /\ Contract!PostUpdated(r, i, s, t)
      BY <1>2, <2>4, SameWords DEF Contract!UpdateOne
    <3>2. <<i, s2>> \in UpdateGuard(p, DOMAIN r.data) \cap UpdateChecker(p, DOMAIN r.data)
      <4>1. LocalGuard(UpdateGuard(p, DOMAIN r.data) \cap UpdateChecker(p, DOMAIN r.data))
        BY <1>1, CombinedGuardsAreLocal
      <4> HIDE DEF p
      <4> QED
        BY <3>1, <4>1 DEF LocalGuard
    <3>3. Contract!PostUpdated(r, i, s2, t2)
      <4>1. (IF p.needsPre THEN s[i] ELSE NoRow) \in Rows \cup {NoRow}
        BY DEF States
      <4>2. LocalPost(p.post)
        BY DEF RowLocal
      <4> QED
        BY <3>1, <4>1, <4>2, SameWords DEF Contract!PostUpdated, LocalPost
    <3> QED
      BY <3>2, <3>3
  <2> QED
    BY <1>2, <2>1, <2>3, <2>4, SameWords DEF Contract!UpdateOne
<1>3. ASSUME r.op \in {"create", "upsert"}, \E x \in r.items : i = x.id,
             Contract!CreateOne(r, s, t)
      PROVE  Contract!CreateOne(r, s2, t2)
  <2>1. PICK x \in r.items : r.items = {x}
    BY <1>3, ConstantsAssumption DEF WellFormed
  <2>2. i = x.id /\ s2[i] = NoRow /\ t[i] = x.row
    BY <1>3, <2>1, SameWords DEF Contract!CreateOne, Contract!CreatedRow
  <2>3. /\ x.row \notin p.inputDeny /\ x.row \in p.valid /\ <<i, t>> \in p.create
    BY <1>3, <2>1, <2>2, SameWords DEF Contract!CreateOne, Contract!CreatedRow
  <2>4. <<i, t2>> \in p.create
    BY <2>3 DEF RowLocal, LocalGuard
  <2>5. t2 = [s2 EXCEPT ![i] = x.row]
    BY <2>2 DEF States
  <2> QED
    BY <2>1, <2>2, <2>3, <2>4, <2>5, SameWords DEF Contract!CreateOne, Contract!CreatedRow
<1>4. ASSUME i = r.id, Contract!DeleteOne(r, s, t)
      PROVE  Contract!DeleteOne(r, s2, t2)
  <2>1. Found(p.delete \cap p.deleteChecker, i, s) /\ t[i] = NoRow
    BY <1>4, SameWords DEF Contract!DeleteOne, States
  <2>2. Found(p.delete \cap p.deleteChecker, i, s2)
    BY <2>1 DEF Found, RowLocal, LocalGuard
  <2>3. t2 = [s2 EXCEPT ![i] = NoRow]
    BY <2>1 DEF States
  <2> QED
    BY <1>4, <2>2, <2>3, SameWords DEF Contract!DeleteOne
<1>5. CASE r.op = "create"
  BY <1>3, <1>5 DEF Contract!Permitted, IsAbout, Updates
<1>6. CASE r.op = "update"
  BY <1>2, <1>6 DEF Contract!Permitted, IsAbout, Updates
<1>7. CASE r.op = "delete"
  BY <1>4, <1>7 DEF Contract!Permitted, IsAbout, Updates
<1>8. CASE r.op = "upsert"
  <2>1. i = r.id
    BY <1>8 DEF IsAbout, CreatesWhatItSeeks
  <2>2. CASE s[r.id] # NoRow
    BY <1>2, <1>8, <2>1, <2>2 DEF Contract!Permitted
  <2>3. CASE s[r.id] = NoRow
    BY <1>3, <1>8, <2>1, <2>3 DEF Contract!Permitted, IsAbout, Updates
  <2> QED
    BY <2>2, <2>3
<1> QED
  BY <1>5, <1>6, <1>7, <1>8 DEF IsOne

-----------------------------------------------------------------------------
(* Snapshot isolation.                                                      *)

\* A call for one row has written that row, and no other, once it is done.
WroteOne(c) ==
    /\ pc[c] \in {"post", "readBack", "commit"} /\ resp[c] \notin Refusals
    /\ IsOne(req[c])
    => \E i \in Ids : WrittenIds(c) = {i} /\ IsAbout(req[c], snap[c], i)

\* A refusal that its caller swallows goes to the commit, with the refusal.
LEMMA RefuseWroteOne ==
    ASSUME TypeOK, NEW c \in Clients, NEW a \in Refusals, Refuse(c, a)
    PROVE  WroteOne(c)'
<1>1. pc'[c] = "done" \/ (pc'[c] = "commit" /\ resp'[c] \in Refusals)
  BY DEF TypeOK, Refuse, Finish, Goto, Answer
<1> QED
  BY <1>1 DEF WroteOne

\* Only the statements that write a row lead to the stages after it.
LEMMA StepWroteOne ==
    ASSUME TypeOK, NEW c \in Clients, Kept(req[c]), Follows(c), WroteOne(c), Step(c)
    PROVE  WroteOne(c)'
<1>0. req[c] \in Requests /\ req'[c] = req[c]
  BY StepGoesOn
<1>1. CASE pc'[c] \notin {"post", "readBack", "commit"}
  BY <1>1 DEF WroteOne
<1>2. CASE WriteRow(c)
  <2> DEFINE r == req[c]
             i == r.id
             gone == [j \in {i} |-> NoRow]
             new == [j \in {i} |-> Written(snap[c][i], r.data)]
  <2>1. AtWrite(c)
    BY <1>2 DEF WriteRow, Follows
  <2>2. View(c) = snap[c] /\ snap[c] \in States /\ wr[c] = AllClean
    BY <1>0, <2>1, OwnViewIsSeen DEF Kept, AtWrite
  <2>3. i \in Ids /\ snap[c][i] \in Rows /\ r.data \in PartialRows
    BY <1>0, <2>1, <2>2, RequestIsTyped DEF AtWrite, HasRow, States
  <2>4. Put(c, gone) \/ Put(c, new)
    BY <1>2, <2>2 DEF WriteRow
  <2>5. /\ DOMAIN gone = {i} /\ \A j \in DOMAIN gone : gone[j] \in Rows \cup {NoRow}
        /\ DOMAIN new = {i} /\ \A j \in DOMAIN new : new[j] \in Rows \cup {NoRow}
    BY <2>3, WrittenIsRow
  <2>6. snap' = snap
    BY <1>2 DEF WriteRow
  <2>7. WrittenIds(c)' = {i}
    <3> HIDE DEF gone, new
    <3> QED
      BY <2>2, <2>3, <2>4, <2>5, <2>6, PutIsOver
  <2>8. IsAbout(r, snap[c], i)
    BY <2>1 DEF AtWrite, IsSingle, IsAbout, Updates, HasRow
  <2> QED
    BY <1>0, <2>3, <2>6, <2>7, <2>8 DEF WroteOne
<1>3. CASE Insert(c)
  <2>1. AtInsert(c)
    BY <1>3 DEF Insert, Follows
  <2>2. View(c) = snap[c] /\ wr[c] = AllClean
    BY <1>0, <2>1, OwnViewIsSeen DEF Kept, AtInsert, Untouched
  <2>3. PICK x \in req[c].items :
           \/ Refuse(c, "denied")
           \/ Put(c, [j \in {x.id} |-> x.row]) /\ snap' = snap
    BY <1>3 DEF Insert
  <2>4. CASE Refuse(c, "denied")
    BY <2>4, RefuseWroteOne DEF Refusals
  <2>5. CASE Put(c, [j \in {x.id} |-> x.row]) /\ snap' = snap
    <3> DEFINE w == [j \in {x.id} |-> x.row]
    <3>1. x.id \in Ids /\ x.row \in Rows
      BY <1>0, RequestIsTyped DEF Items
    <3>2. DOMAIN w = {x.id} /\ \A j \in DOMAIN w : w[j] \in Rows \cup {NoRow}
      BY <3>1
    <3>3. WrittenIds(c)' = {x.id}
      <4>1. Put(c, w) /\ snap' = snap
        BY <2>5
      <4> HIDE DEF w
      <4> QED
        BY <2>2, <3>1, <3>2, <4>1, PutIsOver
    <3>4. IsAbout(req[c], snap[c], x.id)
      BY <2>1 DEF AtInsert, IsAbout, Updates, HasRow
    <3> QED
      BY <1>0, <2>5, <3>1, <3>3, <3>4 DEF WroteOne
  <2> QED
    BY <2>3, <2>4, <2>5
<1>4. CASE Exist(c) \/ CheckPolicy(c)
  <2>1. (\E a \in Refusals : Refuse(c, a)) \/ pc'[c] \notin {"post", "readBack", "commit"}
    BY <1>4 DEF TypeOK, Exist, CheckPolicy, Goto, Refusals
  <2> QED
    BY <1>1, <2>1, RefuseWroteOne
<1>5. CASE PostCheck(c)
  <2>1. Refuse(c, "denied") \/ UNCHANGED <<req, snap, wr, resp>>
    BY <1>5 DEF PostCheck
  <2>2. CASE UNCHANGED <<req, snap, wr, resp>>
    BY <1>5, <2>2 DEF PostCheck, WroteOne, WrittenIds
  <2> QED
    BY <2>1, <2>2, RefuseWroteOne DEF Refusals
<1>6. CASE ReadBack(c)
  <2>1. AtReadBack(c) /\ pc[c] = "readBack"
    BY <1>6 DEF ReadBack, Follows
  <2>2. resp[c] \notin Refusals
    BY <2>1 DEF AtReadBack, Silent, Refusals
  <2> QED
    BY <1>6, <2>1, <2>2 DEF ReadBack, WroteOne, WrittenIds
<1>7. CASE Native(c) \/ \E t \in todo[c] : Lookup(c, t[1]) \/ CreateItem(c, t[1])
  <2>1. ~IsOne(req[c])
    BY <1>7 DEF Native, Lookup, CreateItem, Follows, AtNative, AtItems, IsOne
  <2> QED
    BY <1>0, <2>1 DEF WroteOne
<1>8. CASE \/ Begin(c) \/ Probe(c) \/ ReadPreValue(c) \/ ReadFirst(c) \/ FindCandidates(c)
           \/ Prepare(c)
  <2>1. pc'[c] \notin {"post", "readBack", "commit"}
    BY <1>8 DEF TypeOK, Begin, FirstStage, Probe, ReadPreValue, ReadFirst,
                FindCandidates, Prepare, Goto
  <2> QED
    BY <1>1, <2>1
<1>9. CASE Rethrow(c) \/ Commit(c) \/ Direct(c) \/ ReadAfter(c) \/ Abort(c)
  <2>1. pc'[c] \in {"done", "readAfter"}
    BY <1>9 DEF TypeOK, Rethrow, Commit, Direct, ReadAfter, Abort, Finish, Goto
  <2> QED
    BY <1>1, <2>1
<1> QED
  BY <1>2, <1>3, <1>4, <1>5, <1>6, <1>7, <1>8, <1>9 DEF Step

\* The calls for one row that read a snapshot.
OfSnapshot(r) == r.isolation = "Snapshot" /\ IsOne(r)
WroteOneRow == \A c \in Clients : OfSnapshot(req[c]) => WroteOne(c)

\* Every behaviour keeps to it.
LEMMA OneRowIsWritten == Spec => []WroteOneRow
<1>1. Init => WroteOneRow
  BY DEF Init, WroteOneRow, WroteOne
<1>2. ASSUME TypeOK, Inv, WroteOneRow, NEW c \in Clients, NEW r \in Requests, Issue(c, r)
      PROVE  WroteOneRow'
  <2>1. ASSUME NEW d \in Clients \ {c}, OfSnapshot(req'[d]) PROVE WroteOne(d)'
    <3>1. Same(d)
      BY <1>2, StepIsLocal
    <3> QED
      BY <1>2, <2>1, <3>1 DEF Same, WroteOneRow, WroteOne, WrittenIds
  <2>2. pc'[c] = "called"
    BY <1>2 DEF TypeOK, Issue, Goto
  <2> QED
    BY <2>1, <2>2 DEF WroteOneRow, WroteOne
<1>3. ASSUME TypeOK, Inv, WroteOneRow, NEW c \in Clients, Step(c)
      PROVE  WroteOneRow'
  <2>1. ASSUME NEW d \in Clients \ {c}, OfSnapshot(req'[d]) PROVE WroteOne(d)'
    <3>1. Same(d)
      BY <1>3, StepIsLocal
    <3> QED
      BY <1>3, <2>1, <3>1 DEF Same, WroteOneRow, WroteOne, WrittenIds
  <2>2. ASSUME OfSnapshot(req'[c]) PROVE WroteOne(c)'
    <3>1. req'[c] = req[c]
      BY <1>3, StepGoesOn
    <3>2. Kept(req[c])
      BY <2>2, <3>1 DEF OfSnapshot, IsOne, Kept, Enforced, FieldsUncompared
    <3> QED
      BY <1>3, <2>2, <3>1, <3>2, StepWroteOne DEF Inv, WroteOneRow
  <2> QED
    BY <2>1, <2>2 DEF WroteOneRow
<1>4. ASSUME WroteOneRow, UNCHANGED vars PROVE WroteOneRow'
  BY <1>4 DEF vars, WroteOneRow, WroteOne, WrittenIds
<1>5. TypeOK /\ Inv /\ WroteOneRow /\ [Next]_vars => WroteOneRow'
  BY <1>2, <1>3, <1>4 DEF Next
<1> QED
  BY <1>1, <1>5, Invariant, PTL DEF Spec

\* Under snapshot isolation, where policies look only at the row and an upsert
\* creates the row it has looked for, a call for one row that succeeds does what
\* its policy permits on the rows its commit finds, although they may have changed
\* since its guard was checked: its own row cannot have.
THEOREM SnapshotsObeyRowPolicy ==
    ASSUME \A r \in Requests :
              OfSnapshot(r) => RowLocal(Pol(r)) /\ CreatesWhatItSeeks(r)
    PROVE  Spec => SnapshotObeysRowPolicy
<1> DEFINE obeys(c) ==
      /\ pc[c] = "commit" /\ pc'[c] # "commit"
      /\ resp'[c] \notin Refusals \cup {"dbError"}
      /\ resp'[c] = "notReadable" => req[c].app # "interactive"
      /\ req[c].isolation = "Snapshot"
      /\ req[c].op \in {"create", "update", "upsert", "delete"}
      => Contract!Permitted(req[c], db, db')
<1>1. ASSUME TypeOK, Inv, Locked, WroteOneRow, NEW c \in Clients, NEW d \in Clients,
             Step(c) \/ \E r \in Requests : Issue(c, r)
      PROVE  obeys(d)
  <2>1. CASE d # c
    BY <1>1, <2>1, StepIsLocal DEF Same
  <2>2. CASE d = c
    <3> SUFFICES ASSUME pc[c] = "commit", pc'[c] # "commit", OfSnapshot(req[c]),
                        resp'[c] \notin Refusals \cup {"dbError"},
                        resp'[c] = "notReadable" => req[c].app # "interactive"
                 PROVE  Contract!Permitted(req[c], db, db')
      BY <2>2 DEF OfSnapshot, IsOne
    <3> DEFINE r == req[c]
    <3>1. Rethrow(c) \/ Commit(c) \/ Abort(c)
      BY <1>1 DEF Step, Issue, Prepare, Begin, Probe, Exist, CheckPolicy,
            ReadPreValue, WriteRow, Insert, ReadFirst, Lookup, CreateItem,
            FindCandidates, Native, PostCheck, ReadBack, Direct, ReadAfter
    <3>2. ~Rethrow(c) /\ ~Abort(c)
      BY <1>1 DEF TypeOK, Rethrow, Abort, Finish, Answer
    <3>3. Commit(c)
      BY <3>1, <3>2
    <3>4. r \in Requests /\ Kept(r) /\ AtCommit(c)
      BY <1>1 DEF TypeOK, Inv, Follows, OfSnapshot, IsOne, Kept, Enforced, FieldsUncompared
    <3>5. resp[c] \notin Refusals
      <4>1. ASSUME NEW a, Finish(c, a) PROVE resp'[c] = a
        BY <1>1, <4>1 DEF TypeOK, Finish, Answer
      <4>2. resp'[c] \in {resp[c], "ok"}
        BY <1>1, <3>3, <4>1 DEF Commit, TypeOK
      <4> QED
        BY <1>1, <3>3, <4>1, <4>2 DEF Commit, Refusals
    <3>6. Contract!Permitted(r, snap[c], OwnView(c))
      BY <3>4, <3>5 DEF AtCommit
    <3>7. PICK i \in Ids : WrittenIds(c) = {i} /\ IsAbout(r, snap[c], i)
      BY <1>1, <3>5 DEF WroteOneRow, WroteOne, OfSnapshot
    <3>8. db[i] = snap[c][i] /\ db'[i] = OwnView(c)[i]
      BY <1>1, <3>3, <3>7 DEF Locked, WrittenIds, Commit, Merged, OwnView, OfSnapshot
    <3>9. \A j \in Ids \ {i} : db'[j] = db[j]
      BY <3>3, <3>7 DEF WrittenIds, Commit, Merged
    <3>10. db \in States /\ db' \in States /\ snap[c] \in States /\ OwnView(c) \in States
      BY <1>1, <3>3, ViewIsState, OwnViewIsSeen DEF Commit, TypeOK
    <3> QED
      BY <3>4, <3>6, <3>7, <3>8, <3>9, <3>10, PermittedIsLocal DEF OfSnapshot
  <2> QED
    BY <1>1, <2>1, <2>2
<1>2. TypeOK /\ Inv /\ Locked /\ WroteOneRow /\ [Next]_vars
         => [\A c \in Clients : obeys(c)]_vars
  BY <1>1 DEF Next
<1> QED
  BY <1>2, Invariant, LocksHold, OneRowIsWritten, PTL DEF Spec, SnapshotObeysRowPolicy

-----------------------------------------------------------------------------
(* What is committed has passed its checks, at any isolation level.         *)

Creates(r) == r.op \in {"create", "createMany"}
Changes(r) == r.op = "update" /\ DOMAIN r.data # {}

\* The post-write checks of the call look only at the row they check.
ChecksAreLocal(r) ==
    /\ Creates(r) => LocalGuard(Pol(r).create)
    /\ r.op = "update" => LocalPost(Pol(r).post)

\* Row i has passed the check due to it, whatever the other rows are.
Passed(r, i, row) ==
    /\ Creates(r) =>
          \A t \in States : t[i] = row => <<i, t>> \in Pol(r).create /\ row \in Pol(r).valid
    /\ Changes(r) =>
          \E pre \in Rows \cup {NoRow} :
             \A t \in States : t[i] = row => <<i, pre, t>> \in Pol(r).post
                                             /\ row \in Pol(r).valid

\* That check is among ks.
IsDue(r, i, ks) ==
    /\ Creates(r) => CreateCheck(i) \in ks
    /\ Changes(r) =>
          \E pre \in Rows \cup {NoRow} : [kind |-> "postUpdate", id |-> i, pre |-> pre] \in ks

\* The stages of the calls in question before their last write.
StageOf(r, stage) ==
    /\ r.op = "create" => stage \in {"begin", "insert"}
    /\ r.op = "createMany" => stage \in {"begin", IF IsDirect(r) THEN "native" ELSE "items"}
    /\ r.op = "update" => stage \in {"begin", "exist", "check", "pre", "write"}

\* Inside its transaction a call of these kinds was not refused up front; its
\* checks are collected before the row is written, what it has written awaits its
\* check or has passed it, and no check is left when the result is read.
Passing(c) ==
    LET r == req[c] IN
    /\ pc[c] \in Stages
    /\ Creates(r) \/ Changes(r)
    /\ pc[c] = "commit" => resp[c] \notin Refusals
    => /\ ~RefusedUpFront(r)
       /\ pc[c] \in {"post", "readBack", "commit"} \/ StageOf(r, pc[c])
       /\ pc[c] = "pre" => NeedsPostUpdate(Pol(r))
       /\ pc[c] = "write" /\ NeedsPostUpdate(Pol(r)) => IsDue(r, r.id, checks[c])
       /\ \A i \in WrittenIds(c) :
             wr[c][i] \in Rows /\ (IsDue(r, i, checks[c]) \/ Passed(r, i, wr[c][i]))
       /\ pc[c] \in {"readBack", "commit"} => checks[c] = {}

\* A refusal that is swallowed reaches the commit as a refusal.
LEMMA RefusePasses ==
    ASSUME TypeOK, NEW c \in Clients, NEW a \in Refusals, Refuse(c, a)
    PROVE  Passing(c)'
<1>1. pc'[c] = "done" \/ (pc'[c] = "commit" /\ resp'[c] \in Refusals)
  BY DEF TypeOK, Refuse, Finish, Goto, Answer
<1> QED
  BY <1>1 DEF Passing, Stages

\* A check that has passed has passed for good.
LEMMA CheckPassed ==
    ASSUME NEW r \in Requests, ChecksAreLocal(r), NEW i \in Ids, NEW s \in States, s[i] \in Rows,
           NEW pre \in Rows \cup {NoRow}
    PROVE  /\ Creates(r) /\ CheckPasses(r, CreateCheck(i), s) => Passed(r, i, s[i])
           /\ Changes(r) /\ CheckPasses(r, [kind |-> "postUpdate", id |-> i, pre |-> pre], s)
                 => Passed(r, i, s[i])
<1> DEFINE p == Pol(r)
<1>1. s[i] # NoRow
  BY NoRowAssumption
<1>2. \A t \in States : <<i, t>> \in Sites /\ <<i, pre, t>> \in PostSites
  BY DEF Sites, PostSites
<1>3. ASSUME Creates(r), CheckPasses(r, CreateCheck(i), s) PROVE Passed(r, i, s[i])
  <2>1. PassesCreate(p, i, s)
    BY <1>3 DEF CheckPasses, CreateCheck
  <2>2. <<i, s>> \in p.create /\ s[i] \in p.valid
    BY <2>1, <1>2 DEF PassesCreate, Found
  <2>3. \A t \in States : t[i] = s[i] => <<i, t>> \in p.create
    BY <1>3, <2>2 DEF ChecksAreLocal, LocalGuard
  <2> QED
    BY <1>3, <2>2, <2>3 DEF Passed, Creates, Changes
<1>4. ASSUME Changes(r), CheckPasses(r, [kind |-> "postUpdate", id |-> i, pre |-> pre], s)
      PROVE  Passed(r, i, s[i])
  <2>1. PassesPostUpdate(p, i, pre, s)
    BY <1>4 DEF CheckPasses
  <2>2. <<i, pre, s>> \in p.post /\ s[i] \in p.valid
    BY <2>1, <1>2 DEF PassesPostUpdate
  <2>3. \A t \in States : t[i] = s[i] => <<i, pre, t>> \in p.post
    BY <1>4, <2>2 DEF ChecksAreLocal, LocalPost, Changes
  <2> QED
    BY <1>4, <2>2, <2>3 DEF Passed, Creates, Changes
<1> QED
  BY <1>3, <1>4

\* Where no check is registered the rows have passed it beforehand.
LEMMA UncheckedPasses ==
    ASSUME NEW r \in Requests, NEW i \in Ids, NEW row \in Rows
    PROVE  /\ Creates(r) /\ row \in Pol(r).inputAllow \cap Pol(r).valid => Passed(r, i, row)
           /\ Changes(r) /\ ~NeedsPostUpdate(Pol(r)) => Passed(r, i, row)
<1> DEFINE p == Pol(r)
<1>1. \A t \in States : /\ <<i, t>> \in Sites /\ <<i, NoRow, t>> \in PostSites
                        /\ <<i, t>>[2][<<i, t>>[1]] = t[i]
  BY DEF Sites, PostSites
<1>2. ASSUME Creates(r), row \in p.inputAllow \cap p.valid PROVE Passed(r, i, row)
  BY <1>1, <1>2, PolicyIsTyped DEF Coherent, Passed, Creates, Changes
<1>3. ASSUME Changes(r), ~NeedsPostUpdate(p) PROVE Passed(r, i, row)
  <2>1. p.post = PostSites /\ p.valid = Rows
    BY <1>3, PolicyIsTyped DEF Coherent, NeedsPostUpdate
  <2> QED
    BY <1>1, <1>3, <2>1 DEF Passed, Creates, Changes
<1> QED
  BY <1>2, <1>3

\* Going on after a write, or after a check.
LEMMA RegisterPasses ==
    ASSUME TypeOK, NEW c \in Clients, NEW ks, Register(c, ks), req'[c] = req[c],
           ~RefusedUpFront(req[c]),
           \A i \in WrittenIds(c)' :
              wr'[c][i] \in Rows /\ (IsDue(req[c], i, ks) \/ Passed(req[c], i, wr'[c][i]))
    PROVE  Passing(c)'
<1>1. /\ checks'[c] = ks /\ pc'[c] \in {"post", "readBack", "commit"}
      /\ pc'[c] \in {"readBack", "commit"} => ks = {}
  BY DEF TypeOK, Register, AfterChecks, Goto
<1> QED
  BY <1>1 DEF Passing

\* What a statement writes is written, and all that is, if it is the first.
LEMMA PutIsWritten ==
    ASSUME TypeOK, NEW c \in Clients, NEW w, Put(c, w)
    PROVE  /\ \A i \in WrittenIds(c)' : IF i \in DOMAIN w THEN wr'[c][i] = w[i]
                                        ELSE i \in WrittenIds(c) /\ wr'[c][i] = wr[c][i]
           /\ wr[c] = AllClean => WrittenIds(c)' \subseteq DOMAIN w
           /\ WrittenIds(c)' \subseteq Ids
<1>1. wr'[c] = [i \in Ids |-> IF i \in DOMAIN w THEN w[i] ELSE wr[c][i]]
  BY DEF TypeOK, Put
<1> QED
  BY <1>1 DEF WrittenIds, AllClean

\* Every step keeps it: one step of the proof per action.
LEMMA StepPasses ==
    ASSUME TypeOK, Locked, NEW c \in Clients, ChecksAreLocal(req[c]), Passing(c), Step(c)
    PROVE  Passing(c)'
<1> DEFINE r == req[c]
           p == Pol(r)
<1>0. /\ r \in Requests /\ req'[c] = req[c]
      /\ r.id \in Ids /\ r.items \subseteq Items /\ r.data \in PartialRows
  BY StepGoesOn, RequestIsTyped
<1>1. View(c) \in States
  BY ViewIsState
<1> SUFFICES ASSUME Creates(r) \/ Changes(r) PROVE Passing(c)'
  BY <1>0 DEF Passing
<1>2. ASSUME pc[c] \in Stages, pc[c] # "commit"
      PROVE  /\ ~RefusedUpFront(r)
             /\ pc[c] \in {"post", "readBack", "commit"} \/ StageOf(r, pc[c])
             /\ pc[c] = "pre" => NeedsPostUpdate(Pol(r))
             /\ pc[c] = "write" /\ NeedsPostUpdate(Pol(r)) => IsDue(r, r.id, checks[c])
             /\ \A i \in WrittenIds(c) :
                   wr[c][i] \in Rows /\ (IsDue(r, i, checks[c]) \/ Passed(r, i, wr[c][i]))
             /\ pc[c] \in {"readBack", "commit"} => checks[c] = {}
  BY <1>2 DEF Passing
<1>3. pc[c] \notin Writing => wr[c] = AllClean
  BY DEF Locked
<1>4. ASSUME wr'[c] = AllClean, pc'[c] \notin {"post", "readBack", "commit"}, pc'[c] # "pre",
             ~RefusedUpFront(r), pc'[c] \in Stages => StageOf(r, pc'[c]),
             pc'[c] = "write" /\ NeedsPostUpdate(p) => IsDue(r, r.id, checks'[c])
      PROVE  Passing(c)'
  <2>1. WrittenIds(c)' = {}
    BY <1>4 DEF WrittenIds, AllClean
  <2> QED
    BY <1>0, <1>4, <2>1 DEF Passing
<1>5. ASSUME pc'[c] \notin Stages PROVE Passing(c)'
  BY <1>5 DEF Passing
<1>6. CASE Prepare(c)
  <2>1. CASE RefusedUpFront(r)
    BY <1>5, <1>6, <2>1 DEF TypeOK, Prepare, Goto, Stages
  <2>2. CASE ~RefusedUpFront(r) /\ pc'[c] = "begin"
    BY <1>3, <1>4, <1>6, <2>2 DEF Prepare, StageOf, Writing
  <2>3. CASE ~RefusedUpFront(r) /\ pc'[c] # "begin"
    BY <1>5, <1>6, <2>3 DEF TypeOK, Prepare, Goto, Stages
  <2> QED
    BY <2>1, <2>2, <2>3
<1>7. CASE Begin(c)
  <2>1. pc'[c] = FirstStage(r) /\ wr'[c] = AllClean /\ pc[c] = "begin"
    BY <1>3, <1>7 DEF TypeOK, Begin, Goto, Writing
  <2>2. ~RefusedUpFront(r)
    BY <1>2, <2>1 DEF Stages
  <2>3. StageOf(r, FirstStage(r)) /\ FirstStage(r) \notin {"pre", "write", "post", "readBack", "commit"}
    BY DEF Creates, Changes, StageOf, FirstStage
  <2> QED
    BY <1>4, <2>1, <2>2, <2>3
<1>8. CASE Probe(c) \/ ReadFirst(c) \/ FindCandidates(c)
  <2>1. pc[c] \in {"probe", "readFirst", "candidates"}
    BY <1>8 DEF Probe, ReadFirst, FindCandidates
  <2> QED
    BY <1>2, <2>1 DEF Creates, Changes, StageOf, Stages
<1>9. CASE Exist(c)
  <2>1. pc[c] = "exist" /\ wr[c] = AllClean
    BY <1>3, <1>9 DEF Exist, Writing
  <2>2. Changes(r) /\ ~RefusedUpFront(r)
    BY <1>2, <2>1 DEF Creates, StageOf, Stages
  <2>3. (\E a \in Refusals : Refuse(c, a)) \/ (pc'[c] = "check" /\ wr' = wr)
    BY <1>9, <2>2 DEF TypeOK, Exist, Goto, Refusals, Changes
  <2> QED
    BY <1>4, <2>1, <2>2, <2>3, RefusePasses DEF StageOf, Changes
<1>10. CASE CheckPolicy(c)
  <2>1. pc[c] = "check" /\ wr[c] = AllClean
    BY <1>3, <1>10 DEF CheckPolicy, Writing
  <2>2. Changes(r) /\ ~RefusedUpFront(r)
    BY <1>2, <2>1 DEF Creates, StageOf, Stages
  <2>3. CASE Refuse(c, "denied")
    BY <2>3, RefusePasses DEF Refusals
  <2>4. CASE ~Refuse(c, "denied") /\ NeedsPostUpdate(p) /\ p.needsPre
    <3>1. pc'[c] = "pre" /\ wr'[c] = AllClean
      BY <1>10, <2>1, <2>2, <2>4 DEF TypeOK, CheckPolicy, Goto, Changes
    <3>2. WrittenIds(c)' = {}
      BY <3>1 DEF WrittenIds, AllClean
    <3> QED
      BY <1>0, <2>2, <2>4, <3>1, <3>2 DEF Passing, StageOf, Changes
  <2>5. CASE ~Refuse(c, "denied") /\ ~(NeedsPostUpdate(p) /\ p.needsPre)
    <3>1. /\ pc'[c] = "write" /\ wr'[c] = AllClean
          /\ NeedsPostUpdate(p) =>
                checks'[c] = {[kind |-> "postUpdate", id |-> r.id, pre |-> NoRow]}
      BY <1>10, <2>1, <2>2, <2>5 DEF TypeOK, CheckPolicy, Goto, Changes
    <3>2. NeedsPostUpdate(p) => IsDue(r, r.id, checks'[c])
      BY <2>2, <3>1 DEF IsDue, Changes, Creates
    <3> QED
      BY <1>4, <2>2, <3>1, <3>2 DEF StageOf, Changes
  <2> QED
    BY <2>3, <2>4, <2>5
<1>11. CASE ReadPreValue(c)
  <2>1. /\ pc[c] = "pre" /\ pc'[c] = "write" /\ wr'[c] = AllClean
        /\ checks'[c] = {[kind |-> "postUpdate", id |-> r.id, pre |-> View(c)[r.id]]}
    BY <1>3, <1>11 DEF TypeOK, ReadPreValue, Goto, Writing
  <2>2. Changes(r) /\ ~RefusedUpFront(r)
    BY <1>2, <2>1 DEF Creates, StageOf, Stages
  <2>3. View(c)[r.id] \in Rows \cup {NoRow}
    BY <1>0, <1>1 DEF States
  <2>4. IsDue(r, r.id, checks'[c])
    BY <2>1, <2>2, <2>3 DEF IsDue, Changes, Creates
  <2> QED
    BY <1>4, <2>1, <2>2, <2>4 DEF StageOf, Changes
<1>12. CASE WriteRow(c)
  <2> DEFINE row == Written(View(c)[r.id], r.data)
             w == [j \in {r.id} |-> row]
  <2>1. pc[c] = "write" /\ wr[c] = AllClean
    BY <1>3, <1>12 DEF WriteRow, Writing
  <2>2. Changes(r) /\ ~RefusedUpFront(r) /\ (NeedsPostUpdate(p) => IsDue(r, r.id, checks[c]))
    BY <1>2, <2>1 DEF Creates, StageOf, Stages
  <2>3. Put(c, w) /\ Register(c, checks[c])
    BY <1>12, <2>2 DEF WriteRow, Changes
  <2>4. row \in Rows
    BY <1>0, <1>1, <1>12, WrittenIsRow DEF WriteRow, States
  <2>5. IsDue(r, r.id, checks[c]) \/ Passed(r, r.id, row)
    BY <1>0, <2>2, <2>4, UncheckedPasses
  <2>6. DOMAIN w = {r.id} /\ \A i \in DOMAIN w : i = r.id /\ w[i] = row
    OBVIOUS
  <2> HIDE DEF w, row
  <2>7. \A i \in WrittenIds(c)' : i = r.id /\ wr'[c][i] = row
    BY <2>1, <2>3, <2>6, PutIsWritten
  <2> QED
    BY <1>0, <2>2, <2>3, <2>4, <2>5, <2>7, RegisterPasses
<1>13. CASE Insert(c)
  <2>1. pc[c] = "insert" /\ wr[c] = AllClean
    BY <1>3, <1>13 DEF Insert, Writing
  <2>2. r.op = "create" /\ ~RefusedUpFront(r)
    BY <1>2, <2>1 DEF Creates, Changes, StageOf, Stages
  <2>3. PICK x \in r.items :
           \/ Refuse(c, "denied")
           \/ /\ x.row \in p.valid /\ Put(c, [j \in {x.id} |-> x.row])
              /\ Register(c, IF x.row \in p.inputAllow THEN {} ELSE {CreateCheck(x.id)})
    BY <1>13, <2>2 DEF Insert, CreateCheck
  <2>4. CASE Refuse(c, "denied")
    BY <2>4, RefusePasses DEF Refusals
  <2>5. CASE ~Refuse(c, "denied")
    <3> DEFINE w == [j \in {x.id} |-> x.row]
               ks == IF x.row \in p.inputAllow THEN {} ELSE {CreateCheck(x.id)}
    <3>1. x.id \in Ids /\ x.row \in Rows
      BY <1>0 DEF Items
    <3>2. IsDue(r, x.id, ks) \/ Passed(r, x.id, x.row)
      <4>1. CASE x.row \in p.inputAllow
        BY <1>0, <2>2, <2>3, <2>5, <3>1, <4>1, UncheckedPasses DEF Creates
      <4>2. CASE x.row \notin p.inputAllow
        BY <2>2, <4>2 DEF IsDue, Changes
      <4> QED
        BY <4>1, <4>2
    <3>3. DOMAIN w = {x.id} /\ \A i \in DOMAIN w : i = x.id /\ w[i] = x.row
      OBVIOUS
    <3>4. Put(c, w) /\ Register(c, ks)
      BY <2>3, <2>5
    <3> HIDE DEF w, ks
    <3>5. \A i \in WrittenIds(c)' : i = x.id /\ wr'[c][i] = x.row
      BY <2>1, <3>3, <3>4, PutIsWritten
    <3> QED
      BY <1>0, <2>2, <3>1, <3>2, <3>4, <3>5, RegisterPasses
  <2> QED
    BY <2>4, <2>5
<1>14. ASSUME NEW x, Lookup(c, x) PROVE Passing(c)'
  <2>1. pc[c] = "items" /\ wr' = wr
    BY <1>14 DEF Lookup
  <2>2. /\ ~RefusedUpFront(r) /\ StageOf(r, "items")
        /\ \A i \in WrittenIds(c) :
              wr[c][i] \in Rows /\ (IsDue(r, i, checks[c]) \/ Passed(r, i, wr[c][i]))
    BY <1>2, <2>1 DEF Stages
  <2>3. WrittenIds(c)' = WrittenIds(c)
    BY <2>1 DEF WrittenIds
  <2>4. CASE Register(c, checks[c])
    BY <1>0, <2>1, <2>2, <2>3, <2>4, RegisterPasses
  <2>5. CASE UNCHANGED <<pc, checks>>
    BY <1>0, <2>1, <2>2, <2>3, <2>5 DEF Passing
  <2> QED
    BY <1>14, <2>4, <2>5 DEF Lookup
<1>15. ASSUME NEW t \in todo[c], CreateItem(c, t[1]) PROVE Passing(c)'
  <2> DEFINE x == t[1]
             w == [j \in {x.id} |-> x.row]
             ks == checks[c] \cup {CreateCheck(x.id)}
  <2>1. x.id \in Ids /\ x.row \in Rows
    BY <1>15 DEF TypeOK, Items
  <2>2. pc[c] = "items" /\ Put(c, w)
    BY <1>15 DEF CreateItem
  <2>3. /\ ~RefusedUpFront(r) /\ StageOf(r, "items") /\ r.op = "createMany"
        /\ \A i \in WrittenIds(c) :
              wr[c][i] \in Rows /\ (IsDue(r, i, checks[c]) \/ Passed(r, i, wr[c][i]))
    BY <1>2, <2>2 DEF Stages, StageOf, Creates, Changes
  <2>4. DOMAIN w = {x.id} /\ \A i \in DOMAIN w : i = x.id /\ w[i] = x.row
    OBVIOUS
  <2>5. Register(c, ks) \/ (pc' = pc /\ checks' = [checks EXCEPT ![c] = ks])
    BY <1>15 DEF CreateItem, CreateCheck
  <2>6. \A i \in WrittenIds(c) : IsDue(r, i, checks[c]) => IsDue(r, i, ks)
    BY DEF IsDue
  <2>7. IsDue(r, x.id, ks)
    BY <2>3 DEF IsDue, Changes
  <2> HIDE DEF w, ks, x
  <2>8. \A i \in WrittenIds(c)' :
           wr'[c][i] \in Rows /\ (IsDue(r, i, ks) \/ Passed(r, i, wr'[c][i]))
    <3> TAKE i \in WrittenIds(c)'
    <3>1. CASE i \in DOMAIN w
      BY <2>1, <2>2, <2>4, <2>7, <3>1, PutIsWritten
    <3>2. CASE i \notin DOMAIN w
      BY <2>2, <2>3, <2>6, <3>2, PutIsWritten
    <3> QED
      BY <3>1, <3>2
  <2>9. CASE Register(c, ks)
    BY <1>0, <2>3, <2>8, <2>9, RegisterPasses
  <2>10. CASE pc' = pc /\ checks' = [checks EXCEPT ![c] = ks]
    BY <1>0, <2>2, <2>3, <2>8, <2>10 DEF TypeOK, Passing
  <2> QED
    BY <2>5, <2>9, <2>10
<1>16. CASE Native(c)
  <2>1. pc[c] = "native" /\ wr[c] = AllClean
    BY <1>3, <1>16 DEF Native, Writing
  <2>2. r.op = "createMany" /\ IsDirect(r) /\ ~RefusedUpFront(r)
    BY <1>2, <2>1 DEF Creates, Changes, StageOf, Stages
  <2>3. PICK w \in NativeCreates(r, View(c)) : Put(c, w)
    BY <1>16, <2>2 DEF Native, NativeWrites
  <2>4. Register(c, checks[c])
    BY <1>16 DEF Native
  <2>5. ASSUME NEW i \in DOMAIN w PROVE i \in Ids /\ w[i] \in Rows /\ Passed(r, i, w[i])
    <3>1. PICK x \in r.items : x.id = i /\ x.row = w[i]
      BY <2>3 DEF NativeCreates
    <3>2. x.id \in Ids /\ x.row \in Rows
      BY <1>0 DEF Items
    <3>3. x.row \in p.inputAllow \cap p.valid
      BY <2>2 DEF IsDirect, RefusedUpFront
    <3> QED
      BY <1>0, <2>2, <3>1, <3>2, <3>3, UncheckedPasses DEF Creates
  <2>6. \A i \in WrittenIds(c)' : i \in DOMAIN w /\ wr'[c][i] = w[i]
    BY <2>1, <2>3, PutIsWritten
  <2> QED
    BY <1>0, <2>2, <2>4, <2>5, <2>6, RegisterPasses
<1>17. CASE PostCheck(c)
  <2>1. PICK k \in checks[c] :
           \/ /\ CheckPasses(r, k, View(c)) /\ Register(c, checks[c] \ {k})
              /\ wr' = wr
           \/ Refuse(c, "denied")
    BY <1>17 DEF PostCheck
  <2>2. CASE Refuse(c, "denied")
    BY <2>2, RefusePasses DEF Refusals
  <2>3. CASE CheckPasses(r, k, View(c)) /\ Register(c, checks[c] \ {k}) /\ wr' = wr
    <3>1. /\ ~RefusedUpFront(r)
          /\ \A i \in WrittenIds(c) :
                wr[c][i] \in Rows /\ (IsDue(r, i, checks[c]) \/ Passed(r, i, wr[c][i]))
      BY <1>2, <1>17 DEF PostCheck, Stages
    <3>2. ASSUME NEW i \in WrittenIds(c)
          PROVE  /\ wr'[c][i] \in Rows
                 /\ IsDue(r, i, checks[c] \ {k}) \/ Passed(r, i, wr'[c][i])
      <4>1. i \in Ids /\ View(c)[i] = wr[c][i] /\ wr[c][i] \in Rows
        BY <3>1 DEF WrittenIds, View
      <4>2. CASE Passed(r, i, wr[c][i])
        BY <2>3, <4>1, <4>2
      <4>3. CASE Creates(r) /\ IsDue(r, i, checks[c])
        <5>1. CASE k = CreateCheck(i)
          BY <1>0, <1>1, <2>3, <4>1, <4>3, <5>1, CheckPassed
        <5>2. CASE k # CreateCheck(i)
          BY <2>3, <4>1, <4>3, <5>2 DEF IsDue, Creates, Changes
        <5> QED
          BY <5>1, <5>2
      <4>4. CASE Changes(r) /\ IsDue(r, i, checks[c])
        <5>1. PICK pre \in Rows \cup {NoRow} :
                 [kind |-> "postUpdate", id |-> i, pre |-> pre] \in checks[c]
          BY <4>4 DEF IsDue
        <5>2. CASE k = [kind |-> "postUpdate", id |-> i, pre |-> pre]
          BY <1>0, <1>1, <2>3, <4>1, <4>4, <5>2, CheckPassed
        <5>3. CASE k # [kind |-> "postUpdate", id |-> i, pre |-> pre]
          BY <2>3, <4>1, <4>4, <5>1, <5>3 DEF IsDue, Creates, Changes
        <5> QED
          BY <5>2, <5>3
      <4> QED
        BY <3>1, <4>2, <4>3, <4>4
    <3>3. WrittenIds(c)' = WrittenIds(c)
      BY <2>3 DEF WrittenIds
    <3> QED
      BY <1>0, <2>3, <3>1, <3>2, <3>3, RegisterPasses
  <2> QED
    BY <2>1, <2>2, <2>3
<1>18. CASE ReadBack(c)
  <2>1. pc[c] = "readBack" /\ pc'[c] = "commit" /\ wr' = wr /\ checks' = checks
    BY <1>18 DEF TypeOK, ReadBack, Goto
  <2>2. WrittenIds(c)' = WrittenIds(c)
    BY <2>1 DEF WrittenIds
  <2> QED
    BY <1>0, <1>2, <2>1, <2>2 DEF Passing, Stages
<1>19. CASE Rethrow(c) \/ Commit(c) \/ Direct(c) \/ ReadAfter(c) \/ Abort(c)
  <2>1. pc'[c] \in {"done", "readAfter"}
    BY <1>19 DEF TypeOK, Rethrow, Commit, Direct, ReadAfter, Abort, Finish, Goto
  <2> QED
    BY <1>5, <2>1 DEF Stages
<1> QED
  BY <1>6, <1>7, <1>8, <1>9, <1>10, <1>11, <1>12, <1>13, <1>14, <1>15, <1>16, <1>17,
     <1>18, <1>19 DEF Step

\* Under any isolation level, where the checks look only at the row itself: what a
\* create or an update commits passes, as committed, its create guard or its
\* post-update rules, and the schema. The check runs after the write, and from the
\* write on the row is locked.
THEOREM WrittenRowsHavePassed ==
    ASSUME \A r \in Requests : ChecksAreLocal(r)
    PROVE  Spec => WrittenRowsPassChecks
<1> DEFINE AllPassing == \A c \in Clients : Passing(c)
           passes(c) ==
             /\ pc[c] = "commit" /\ pc'[c] # "commit"
             /\ resp[c] \notin Refusals /\ db' # db
             => LET p == Pol(req[c]) IN
               \A i \in WrittenIds(c) :
                 /\ req[c].op \in {"create", "createMany"} =>
                       <<i, db'>> \in p.create /\ db'[i] \in p.valid
                 /\ req[c].op = "update" /\ DOMAIN req[c].data # {} =>
                       /\ db'[i] \in p.valid
                       /\ \E pre \in Rows \cup {NoRow} : <<i, pre, db'>> \in p.post
<1>1. Init => AllPassing
  BY DEF Init, Passing, Stages
<1>2. ASSUME TypeOK, Locked, AllPassing, NEW c \in Clients, NEW d \in Clients,
             Step(c) \/ \E r \in Requests : Issue(c, r)
      PROVE  Passing(d)'
  <2>1. CASE d # c
    <3>1. Same(d)
      BY <1>2, <2>1, StepIsLocal
    <3>2. WrittenIds(d)' = WrittenIds(d)
      BY <3>1 DEF Same, WrittenIds
    <3> QED
      BY <1>2, <3>1, <3>2 DEF Same, Passing
  <2>2. CASE d = c /\ Step(c)
    BY <1>2, <2>2, StepGoesOn, StepPasses
  <2>3. CASE d = c /\ \E r \in Requests : Issue(c, r)
    BY <1>2, <2>3 DEF TypeOK, Issue, Goto, Passing, Stages
  <2> QED
    BY <1>2, <2>1, <2>2, <2>3
<1>3. ASSUME AllPassing, UNCHANGED vars PROVE AllPassing'
  BY <1>3 DEF vars, Passing, WrittenIds
<1>4. TypeOK /\ Locked /\ AllPassing /\ [Next]_vars => AllPassing'
  BY <1>2, <1>3 DEF Next
<1>5. ASSUME TypeOK, AllPassing, NEW c \in Clients, NEW d \in Clients,
             Step(c) \/ \E r \in Requests : Issue(c, r)
      PROVE  passes(d)
  <2>1. CASE d # c
    BY <1>5, <2>1, StepIsLocal DEF Same
  <2>2. CASE d = c
    <3> SUFFICES ASSUME pc[c] = "commit", resp[c] \notin Refusals, db' # db,
                        Creates(req[c]) \/ Changes(req[c]), NEW i \in WrittenIds(c)
                 PROVE  /\ Creates(req[c]) =>
                              <<i, db'>> \in Pol(req[c]).create /\ db'[i] \in Pol(req[c]).valid
                        /\ Changes(req[c]) =>
                              /\ db'[i] \in Pol(req[c]).valid
                              /\ \E pre \in Rows \cup {NoRow} :
                                    <<i, pre, db'>> \in Pol(req[c]).post
      BY <2>2 DEF Creates, Changes
    <3>1. Rethrow(c) \/ Commit(c) \/ Abort(c)
      BY <1>5 DEF Step, Issue, Prepare, Begin, Probe, Exist, CheckPolicy,
            ReadPreValue, WriteRow, Insert, ReadFirst, Lookup, CreateItem,
            FindCandidates, Native, PostCheck, ReadBack, Direct, ReadAfter
    <3>2. db' = Merged(c)
      BY <3>1 DEF Rethrow, Abort, Commit
    <3>3. db' \in States /\ db'[i] = wr[c][i]
      BY <1>5, <3>2, ViewIsState DEF Merged, WrittenIds
    <3>4. Passed(req[c], i, wr[c][i])
      <4>1. IsDue(req[c], i, {}) \/ Passed(req[c], i, wr[c][i])
        BY <1>5 DEF Passing, Stages
      <4> QED
        BY <4>1 DEF IsDue
    <3> QED
      BY <3>3, <3>4 DEF Passed
  <2> QED
    BY <2>1, <2>2
<1>6. TypeOK /\ AllPassing /\ [Next]_vars => [\A c \in Clients : passes(c)]_vars
  BY <1>5 DEF Next
<1> QED
  BY <1>1, <1>4, <1>6, LocksHold, PTL DEF Spec, WrittenRowsPassChecks

=============================================================================
