---------------------------- MODULE DelegatesProofs ----------------------------
(***************************************************************************)
(* Proofs about the delegate enhancement, for every hierarchy of models,   *)
(* every set of entities and every menu of calls: its types, that an       *)
(* entity whose rows are all there reads the same through every model of   *)
(* its lineage, and that serializable deletes are complete.                *)
(***************************************************************************)
EXTENDS Delegates, TLAPS, FiniteSetTheorems, WellFoundedInduction

-----------------------------------------------------------------------------
(* Hierarchies. *)

\* What can be reached is closed under `next`, and the least such set.
LEMMA ReachableIsLeast ==
    ASSUME NEW U, NEW m \in U, NEW next \in [U -> SUBSET U]
    PROVE  /\ Reachable(U, m, next) \subseteq U
           /\ m \in Reachable(U, m, next)
           /\ \A n \in Reachable(U, m, next) : next[n] \subseteq Reachable(U, m, next)
           /\ \A S \in SUBSET U : (m \in S /\ \A n \in S : next[n] \subseteq S)
                 => Reachable(U, m, next) \subseteq S
BY DEF Reachable

\* A lineage has the model and is closed under taking the base, and it is in
\* every set that has and is.
LEMMA LineageIsLeast ==
    ASSUME NEW m \in Models
    PROVE  /\ Lineage[m] \subseteq Models
           /\ m \in Lineage[m]
           /\ \A n \in Lineage[m] : Base[n] # NoModel => Base[n] \in Lineage[m]
           /\ \A S \in SUBSET Models :
                 (m \in S /\ \A n \in S : Base[n] # NoModel => Base[n] \in S)
                    => Lineage[m] \subseteq S
<1> DEFINE next == [n \in Models |-> {Base[n]} \ {NoModel}]
<1>1. next \in [Models -> SUBSET Models]
  BY ConstantsAssumption
<1>2. \A n \in Models : next[n] = {Base[n]} \ {NoModel}
  OBVIOUS
<1>3. Lineage[m] = Reachable(Models, m, next)
  BY DEF Lineage
<1> HIDE DEF next
<1>4. /\ Lineage[m] \subseteq Models
      /\ m \in Lineage[m]
      /\ \A n \in Lineage[m] : next[n] \subseteq Lineage[m]
      /\ \A S \in SUBSET Models : (m \in S /\ \A n \in S : next[n] \subseteq S)
            => Lineage[m] \subseteq S
  BY <1>1, <1>3, ReachableIsLeast
<1>5. ASSUME NEW S \in SUBSET Models, m \in S,
             \A n \in S : Base[n] # NoModel => Base[n] \in S
      PROVE  Lineage[m] \subseteq S
  BY <1>2, <1>4, <1>5
<1> QED
  BY <1>2, <1>4, <1>5

LEMMA LineagesNest ==
    ASSUME NEW m \in Models, NEW n \in Lineage[m]
    PROVE  n \in Models /\ Lineage[n] \subseteq Lineage[m]
BY LineageIsLeast

LEMMA LineageUnfolds ==
    ASSUME NEW m \in Models
    PROVE  /\ Base[m] = NoModel => Lineage[m] = {m}
           /\ Base[m] # NoModel => /\ Base[m] \in Models
                                   /\ Lineage[m] = {m} \cup Lineage[Base[m]]
<1>1. CASE Base[m] = NoModel
  <2>1. {m} \in SUBSET Models /\ \A n \in {m} : Base[n] # NoModel => Base[n] \in {m}
    BY <1>1
  <2> QED
    BY <1>1, <2>1, LineageIsLeast
<1>2. CASE Base[m] # NoModel
  <2>1. Base[m] \in Models
    BY <1>2, ConstantsAssumption
  <2> DEFINE S == {m} \cup Lineage[Base[m]]
  <2>2. S \in SUBSET Models /\ m \in S
    BY <2>1, LineageIsLeast
  <2>3. \A n \in S : Base[n] # NoModel => Base[n] \in S
    BY <2>1, LineageIsLeast
  <2>4. Lineage[m] \subseteq S
    BY <2>2, <2>3, LineageIsLeast
  <2>5. S \subseteq Lineage[m]
    BY <1>2, LineageIsLeast, LineagesNest
  <2> QED
    BY <1>2, <2>1, <2>4, <2>5
<1> QED
  BY <1>1, <1>2

\* No model is in the lineage of its base.
LEMMA NoCycles ==
    ASSUME NEW m \in Models, Base[m] # NoModel
    PROVE  m \notin Lineage[Base[m]]
<1> DEFINE T == {n \in Models : Base[n] # NoModel /\ n \in Lineage[Base[n]]}
<1>1. ASSUME NEW n \in T
      PROVE  Base[n] \in T
  <2> DEFINE l == Base[n]
  <2>1. l \in Models /\ n \in Models /\ n \in Lineage[l]
    BY ConstantsAssumption
  <2>2. CASE n = l
    BY <2>2
  <2>3. CASE n # l
    <3>1. Base[l] # NoModel /\ Base[l] \in Models /\ n \in Lineage[Base[l]]
      BY <2>1, <2>3, LineageUnfolds
    <3>2. l \in Lineage[Base[l]]
      BY <2>1, <3>1, LineageIsLeast
    <3> QED
      BY <2>1, <3>1, <3>2
  <2> QED
    BY <2>2, <2>3
<1>2. T \in SUBSET Models
  OBVIOUS
<1> HIDE DEF T
<1>3. T = {}
  BY <1>1, <1>2, ConstantsAssumption
<1> QED
  BY <1>3 DEF T

\* Of two models of a lineage one inherits from the other.
LEMMA LineageIsChain ==
    ASSUME NEW m \in Models, NEW a \in Lineage[m], NEW b \in Lineage[m]
    PROVE  a \in Lineage[b] \/ b \in Lineage[a]
<1> DEFINE S == {x \in Lineage[m] : \A y \in Lineage[m] : x \in Lineage[y] \/ y \in Lineage[x]}
<1>1. m \in S /\ S \in SUBSET Models
  BY LineageIsLeast
<1>2. ASSUME NEW x \in S, Base[x] # NoModel
      PROVE  Base[x] \in S
  <2>1. x \in Models /\ Base[x] \in Lineage[m]
    BY <1>2, LineageIsLeast
  <2>2. ASSUME NEW y \in Lineage[m]
        PROVE  Base[x] \in Lineage[y] \/ y \in Lineage[Base[x]]
    <3>1. y \in Models
      BY LineageIsLeast
    <3>2. CASE x \in Lineage[y]
      BY <1>2, <3>1, <3>2, LineageIsLeast
    <3>3. CASE y \in Lineage[x]
      BY <1>2, <2>1, <3>1, <3>3, LineageUnfolds, LineageIsLeast
    <3> QED
      BY <3>2, <3>3
  <2> QED
    BY <2>1, <2>2
<1> HIDE DEF S
<1>3. Lineage[m] \subseteq S
  BY <1>1, <1>2, LineageIsLeast
<1> QED
  BY <1>3 DEF S

\* Below a level of an entity there is one other.
LEMMA LevelBelowIsUnique ==
    ASSUME NEW m \in Models, NEW a \in Lineage[m], NEW b \in Lineage[m],
           Base[a] = Base[b], Base[a] # NoModel
    PROVE  a = b
<1>1. a \in Models /\ b \in Models
  BY LineageIsLeast
<1>2. CASE a \in Lineage[b]
  BY <1>1, <1>2, LineageUnfolds, NoCycles
<1>3. CASE b \in Lineage[a]
  BY <1>1, <1>3, LineageUnfolds, NoCycles
<1> QED
  BY <1>2, <1>3, LineageIsChain

LEMMA LevelBelowExists ==
    ASSUME NEW m \in Models, NEW l \in Lineage[m], l # m
    PROVE  \E k \in Lineage[m] : Base[k] = l
<1> DEFINE S == {m} \cup {n \in Lineage[m] : \E k \in Lineage[m] : Base[k] = n}
<1>1. S \in SUBSET Models /\ m \in S
  BY LineageIsLeast
<1>2. \A n \in S : Base[n] # NoModel => Base[n] \in S
  BY LineageIsLeast
<1> HIDE DEF S
<1>3. Lineage[m] \subseteq S
  BY <1>1, <1>2, LineageIsLeast
<1> QED
  BY <1>3 DEF S

\* What a discriminator names.
LEMMA DiscriminatorNamesLevelBelow ==
    ASSUME NEW m \in Models, NEW l \in Lineage[m]
    PROVE  /\ Discriminator(m, l) \in {k \in Lineage[m] : Base[k] = l} \cup {NoModel}
           /\ Discriminator(m, l) \in {k \in Models : Base[k] = l} \cup {NoModel}
           /\ \A k \in Lineage[m] : Base[k] = l => Discriminator(m, l) = k
<1>1. l \in Models /\ l # NoModel
  BY LineageIsLeast, ConstantsAssumption
<1>2. CASE l = m
  BY <1>1, <1>2, LineagesNest, NoCycles DEF Discriminator
<1>3. CASE l # m
  <2>1. Discriminator(m, l) \in Lineage[m] /\ Base[Discriminator(m, l)] = l
    BY <1>3, LevelBelowExists DEF Discriminator
  <2>2. \A k \in Lineage[m] : Base[k] = l => Discriminator(m, l) = k
    BY <1>1, <2>1, LevelBelowIsUnique
  <2> QED
    BY <2>1, <2>2, LineageIsLeast
<1> QED
  BY <1>2, <1>3

-----------------------------------------------------------------------------
(* The inductive invariant. *)

\* A row of the slot's table whose discriminator names the level below: those
\* of the entity it is a row of, whatever call wrote it.
GoodRow(s, row) == /\ row \in Row(s[1])
                   /\ row.sub = Discriminator(Kind[s[2]], s[1])

GoodRows(f) == /\ DOMAIN f \subseteq Slots
               /\ \A s \in DOMAIN f : f[s] = NoRow \/ GoodRow(s, f[s])

\* w changes rows that are there, but not their owners.
Changes(v, w) == /\ DOMAIN w \subseteq Present(v)
                 /\ \A s \in DOMAIN w : GoodRow(s, w[s]) /\ w[s].fk = v[s].fk

GoodWrites(f) == /\ DOMAIN f = Slots
                 /\ \A s \in Slots : f[s] \in {NoRow, Clean} \/ GoodRow(s, f[s])

\* A task does what the call it is part of was asked for.
TaskFits(t, r) ==
    /\ t \in TaskType /\ t.path # <<>>
    /\ t.kind = "update" => r.op = "updateMany" /\ t.model = r.model
    /\ t.kind = "create" => t.model = Kind[Id(t)]

\* The call of a caller is of its menu and where it can be.
CallFits(c) ==
    /\ req[c] \in Menu[c]
    /\ pc[c] = "find" => \/ req[c].op = "update" /\ req[c].nested # NoModel
                         \/ req[c].op \in {"updateMany", "deleteMany"}
    /\ pc[c] = "write" => req[c].op \in {"update", "updateMany"}

IInv ==
    /\ DOMAIN db = Slots /\ GoodRows(db)
    /\ isolation \in Isolations
    /\ pc \in [Clients -> {"idle", "find", "tasks", "write", "commit"}]
    /\ req \in [Clients -> RequestType \cup {NoReq}]
    /\ \A c \in Clients : IF pc[c] = "idle" THEN req[c] = NoReq ELSE CallFits(c)
    /\ DOMAIN wr = Clients
    /\ \A c \in Clients : GoodWrites(wr[c])
    /\ tasks \in [Clients -> SUBSET TaskType]
    /\ \A c \in Clients : \A t \in tasks[c] : pc[c] = "tasks" /\ TaskFits(t, req[c])
    /\ late \in [Clients -> SUBSET Ids]

\* What is written is right, and what is written over it.
LEMMA GoodOver ==
    ASSUME NEW f, NEW w, GoodWrites(f), GoodRows(w)
    PROVE  GoodWrites(Over(f, w))
BY DEF GoodWrites, GoodRows, Over

LEMMA GoodCommit ==
    ASSUME NEW f, NEW w, DOMAIN f = Slots, GoodRows(f), GoodRows(w)
    PROVE  DOMAIN Over(f, w) = Slots /\ GoodRows(Over(f, w))
BY DEF GoodRows, Over

LEMMA GoodView ==
    ASSUME IInv, NEW c \in Clients
    PROVE  DOMAIN View(c) = Slots /\ GoodRows(View(c))
BY DEF IInv, GoodRows, GoodWrites, View

LEMMA GoodDelete ==
    ASSUME NEW v, DOMAIN v = Slots, GoodRows(v), NEW s
    PROVE  GoodRows(DeleteRow(v, s))
<1> DEFINE gone == Swept(v, s)
           freed == {t \in Present(v) : <<Owner[t[1]], v[t].fk>> \in gone}
           w == [t \in {u \in Present(v) : u \in gone \cup freed} |->
                    IF t \in gone THEN NoRow ELSE [v[t] EXCEPT !.fk = NoId]]
<1>1. DeleteRow(v, s) = w
  BY DEF DeleteRow
<1>2. ASSUME NEW t \in DOMAIN w
      PROVE  t \in Slots /\ (w[t] = NoRow \/ GoodRow(t, w[t]))
  <2>1. t \in Slots /\ GoodRow(t, v[t])
    BY DEF Present, GoodRows
  <2>2. w[t] = NoRow \/ w[t] = [v[t] EXCEPT !.fk = NoId]
    OBVIOUS
  <2> QED
    BY <2>1, <2>2 DEF GoodRow, Row
<1> HIDE DEF w
<1> QED
  BY <1>1, <1>2 DEF GoodRows

\* A row stays right when its data or its stamp change.
LEMMA GoodChange ==
    ASSUME NEW s, NEW row, GoodRow(s, row), NEW changes \in BOOLEAN, NEW stamps \in BOOLEAN
    PROVE  LET new == [row EXCEPT !.val = IF changes THEN 1 - @ ELSE @,
                                  !.at = IF stamps THEN 1 - @ ELSE @]
           IN  GoodRow(s, new) /\ new.fk = row.fk
<1>1. row.val \in {0, 1} /\ row.at \in {0, 1}
  BY DEF GoodRow, Row
<1> DEFINE val == IF changes THEN 1 - row.val ELSE row.val
           at == IF stamps THEN 1 - row.at ELSE row.at
<1>2. val \in {0, 1} /\ at \in {0, 1}
  BY <1>1
<1> HIDE DEF val, at
<1>3. /\ GoodRow(s, [row EXCEPT !.val = val, !.at = at])
      /\ [row EXCEPT !.val = val, !.at = at].fk = row.fk
  BY <1>2 DEF GoodRow, Row
<1> QED
  BY <1>3 DEF val, at

LEMMA GoodUpdate ==
    ASSUME NEW v, DOMAIN v = Slots, GoodRows(v), NEW m \in Models, NEW i \in Ids,
           NEW levels \in SUBSET Lineage[m], CanUpdate(v, m, i)
    PROVE  GoodRows(UpdateRows(v, m, i, levels)) /\ Changes(v, UpdateRows(v, m, i, levels))
<1> DEFINE stamped == InheritedStamps(m) \cup (UpdatedAt \cap levels)
           w == UpdateRows(v, m, i, levels)
<1>1. ASSUME NEW s \in DOMAIN w
      PROVE  s \in Present(v) /\ GoodRow(s, w[s]) /\ w[s].fk = v[s].fk
  <2>1. s \in Slots /\ s = <<s[1], s[2]>> /\ s[2] = i /\ s[1] \in Lineage[m]
    BY DEF UpdateRows, SlotsOf, Slots, InheritedStamps
  <2>2. s \in Present(v)
    BY <2>1 DEF CanUpdate
  <2>3. GoodRow(s, v[s])
    BY <2>2 DEF Present, GoodRows
  <2>4. w[s] = [v[s] EXCEPT !.val = IF s[1] \in levels THEN 1 - @ ELSE @,
                            !.at = IF s[1] \in stamped THEN 1 - @ ELSE @]
    BY DEF UpdateRows
  <2> HIDE DEF w, stamped
  <2> DEFINE new == [v[s] EXCEPT !.val = IF s[1] \in levels THEN 1 - @ ELSE @,
                                 !.at = IF s[1] \in stamped THEN 1 - @ ELSE @]
  <2>5. GoodRow(s, new) /\ new.fk = v[s].fk
    BY <2>3, GoodChange
  <2> HIDE DEF new
  <2> QED
    BY <2>2, <2>4, <2>5 DEF new
<1> HIDE DEF w
<1>2. GoodRows(w) /\ Changes(v, w)
  BY <1>1 DEF GoodRows, Changes, Present
<1> QED
  BY <1>2 DEF w

LEMMA GoodNativeUpdate ==
    ASSUME NEW v, DOMAIN v = Slots, GoodRows(v), NEW m, NEW S, NEW levels
    PROVE  GoodRows(NativeUpdateRows(v, m, S, levels)) /\ Changes(v, NativeUpdateRows(v, m, S, levels))
<1> DEFINE w == NativeUpdateRows(v, m, S, levels)
<1>1. ASSUME NEW s \in DOMAIN w
      PROVE  s \in Present(v) /\ GoodRow(s, w[s]) /\ w[s].fk = v[s].fk
  <2>1. s \in Present(v) /\ GoodRow(s, v[s])
    BY DEF NativeUpdateRows, Present, GoodRows
  <2>2. w[s] = [v[s] EXCEPT !.val = IF m \in levels THEN 1 - @ ELSE @,
                            !.at = IF m \in UpdatedAt THEN 1 - @ ELSE @]
    BY DEF NativeUpdateRows
  <2> HIDE DEF w
  <2> DEFINE new == [v[s] EXCEPT !.val = IF m \in levels THEN 1 - @ ELSE @,
                                 !.at = IF m \in UpdatedAt THEN 1 - @ ELSE @]
  <2>3. GoodRow(s, new) /\ new.fk = v[s].fk
    BY <2>1, GoodChange
  <2> HIDE DEF new
  <2> QED
    BY <2>1, <2>2, <2>3 DEF new
<1> HIDE DEF w
<1>2. GoodRows(w) /\ Changes(v, w)
  BY <1>1 DEF GoodRows, Changes, Present
<1> QED
  BY <1>2 DEF w

LEMMA GoodCreate ==
    ASSUME NEW X \in SUBSET Item, \A x \in X : x.model = Kind[x.id]
    PROVE  /\ GoodRows(CreateRows(X))
           /\ DOMAIN CreateRows(X) = UNION {SlotsOf(x.id) : x \in X}
           /\ \A s \in DOMAIN CreateRows(X) : GoodRow(s, CreateRows(X)[s])
<1>1. ASSUME NEW x \in X
      PROVE  /\ DOMAIN RowsOf(x) = {s \in SlotsOf(x.id) : s[1] \in Lineage[x.model]}
             /\ \A s \in DOMAIN RowsOf(x) : s \in Slots /\ GoodRow(s, RowsOf(x)[s])
  <2>1. x \in Item /\ x.model = Kind[x.id] /\ x.id \in Ids /\ x.owner \in Ids \cup {NoId}
    BY <1>1 DEF Item
  <2>2. DOMAIN RowsOf(x) = {s \in SlotsOf(x.id) : s[1] \in Lineage[x.model]}
    BY DEF RowsOf
  <2>3. ASSUME NEW s \in DOMAIN RowsOf(x)
        PROVE  s \in Slots /\ GoodRow(s, RowsOf(x)[s])
    <3>1. s \in Slots /\ s[2] = x.id /\ s[1] \in Lineage[x.model] /\ s[1] \in Models
      BY <2>2 DEF SlotsOf, Slots
    <3>2. RowsOf(x)[s] = [sub |-> Discriminator(x.model, s[1]),
                          fk |-> IF Owner[s[1]] = NoModel THEN NoId ELSE x.owner,
                          val |-> 0, at |-> 0]
      BY <2>2 DEF RowsOf
    <3>3. Discriminator(x.model, s[1]) \in {k \in Models : Base[k] = s[1]} \cup {NoModel}
      BY <2>1, <3>1, DiscriminatorNamesLevelBelow, ConstantsAssumption
    <3> QED
      BY <2>1, <3>1, <3>2, <3>3 DEF GoodRow, Row
  <2> QED
    BY <2>2, <2>3
<1>2. ASSUME NEW s \in DOMAIN CreateRows(X)
      PROVE  s \in Slots /\ GoodRow(s, CreateRows(X)[s])
  <2>1. PICK y \in X : s \in DOMAIN RowsOf(y)
    BY DEF CreateRows
  <2>2. y.id = s[2]
    BY <1>1, <2>1 DEF SlotsOf
  <2> DEFINE x == CHOOSE z \in X : z.id = s[2]
  <2>3. x \in X /\ x.id = y.id /\ x.model = y.model
    BY <2>2
  <2>4. CreateRows(X)[s] = RowsOf(x)[s]
    BY DEF CreateRows
  <2> HIDE DEF x
  <2>5. s \in DOMAIN RowsOf(x)
    BY <1>1, <2>1, <2>3
  <2> QED
    BY <1>1, <2>3, <2>4, <2>5
<1>3. ASSUME NEW x \in X
      PROVE  DOMAIN RowsOf(x) = SlotsOf(x.id)
  BY <1>1, <1>3 DEF SlotsOf, Slots
<1>4. DOMAIN CreateRows(X) = UNION {SlotsOf(x.id) : x \in X}
  BY <1>3 DEF CreateRows
<1> QED
  BY <1>2, <1>4 DEF GoodRows

-----------------------------------------------------------------------------
(* Every step keeps the invariant. *)

\* Committing rows that are right, or writing them, or giving up.
LEMMA ApplyGood ==
    ASSUME IInv, NEW c \in Clients, NEW w, GoodRows(w), Apply(c, w)
    PROVE  DOMAIN db' = Slots /\ GoodRows(db') /\ late' \in [Clients -> SUBSET Ids]
<1>1. DOMAIN db' = Slots /\ GoodRows(db')
  BY GoodCommit DEF Apply, IInv
<1>2. Created(w) \subseteq Ids
  BY DEF GoodRows, Created, Slots
<1>3. late' \in [Clients -> SUBSET Ids]
  BY <1>2 DEF Apply, IInv
<1> QED
  BY <1>1, <1>3

LEMMA CloseGood ==
    ASSUME IInv, NEW c \in Clients, Close(c),
           DOMAIN db' = Slots, GoodRows(db'), late' \in [Clients -> SUBSET Ids]
    PROVE  IInv'
<1>1. isolation' \in Isolations
  BY DEF IInv, Close
<1>2. /\ pc' \in [Clients -> {"idle", "find", "tasks", "write", "commit"}]
      /\ pc'[c] = "idle" /\ \A d \in Clients \ {c} : pc'[d] = pc[d]
      /\ req' \in [Clients -> RequestType \cup {NoReq}]
      /\ req'[c] = NoReq /\ \A d \in Clients \ {c} : req'[d] = req[d]
  BY DEF IInv, Close
<1>3. \A d \in Clients : IF pc'[d] = "idle" THEN req'[d] = NoReq ELSE CallFits(d)'
  BY <1>2 DEF IInv, CallFits
<1>4. DOMAIN wr' = Clients /\ \A d \in Clients : GoodWrites(wr'[d])
  BY DEF IInv, Close, GoodWrites
<1>5. /\ tasks' \in [Clients -> SUBSET TaskType]
      /\ tasks'[c] = {} /\ \A d \in Clients \ {c} : tasks'[d] = tasks[d]
  BY DEF IInv, Close
<1>6. \A d \in Clients : \A t \in tasks'[d] : pc'[d] = "tasks" /\ TaskFits(t, req'[d])
  BY <1>2, <1>5 DEF IInv
<1> QED
  BY <1>1, <1>2, <1>3, <1>4, <1>5, <1>6 DEF IInv

LEMMA AbortGood ==
    ASSUME IInv, NEW c \in Clients, Abort(c)
    PROVE  IInv'
<1>1. Close(c) /\ db' = db
  BY DEF Abort
<1>2. late' \in [Clients -> SUBSET Ids]
  BY DEF IInv, Abort
<1>3. DOMAIN db' = Slots /\ GoodRows(db')
  BY <1>1 DEF IInv
<1> QED
  BY <1>1, <1>2, <1>3, CloseGood

\* The tasks of one caller change, and what its transaction wrote.
LEMMA TasksGood ==
    ASSUME IInv, NEW c \in Clients, pc[c] = "tasks",
           UNCHANGED <<db, isolation, pc, req, late>>,
           DOMAIN wr' = Clients, \A d \in Clients : GoodWrites(wr'[d]),
           NEW rest, tasks' = [tasks EXCEPT ![c] = rest],
           \A t \in rest : TaskFits(t, req[c])
    PROVE  IInv'
<1>1. DOMAIN db' = Slots /\ GoodRows(db')
  BY DEF IInv
<1>2. \A d \in Clients : IF pc'[d] = "idle" THEN req'[d] = NoReq ELSE CallFits(d)'
  BY DEF IInv, CallFits
<1>3. /\ tasks' \in [Clients -> SUBSET TaskType]
      /\ \A d \in Clients : \A t \in tasks'[d] : pc'[d] = "tasks" /\ TaskFits(t, req'[d])
  BY DEF IInv, TaskFits
<1> QED
  BY <1>1, <1>2, <1>3 DEF IInv

LEMMA RunGood ==
    ASSUME IInv, NEW c \in Clients, pc[c] = "tasks", NEW possible \in BOOLEAN, NEW w,
           possible => GoodRows(w),
           NEW rest, \A t \in rest : TaskFits(t, req[c]), Run(c, possible, w, rest)
    PROVE  IInv'
<1>1. CASE Abort(c)
  BY <1>1, AbortGood
<1>2. CASE /\ possible
           /\ wr' = [wr EXCEPT ![c] = Over(@, w)]
           /\ tasks' = [tasks EXCEPT ![c] = rest]
           /\ UNCHANGED <<db, isolation, pc, req, late>>
  <2>1. GoodWrites(Over(wr[c], w))
    BY <1>2, GoodOver DEF IInv
  <2>2. DOMAIN wr' = Clients /\ \A d \in Clients : GoodWrites(wr'[d])
    BY <1>2, <2>1 DEF IInv
  <2> QED
    BY <1>2, <2>2, TasksGood
<1> QED
  BY <1>1, <1>2 DEF Run

LEMMA MenuFits ==
    ASSUME NEW c \in Clients, NEW r \in Menu[c]
    PROVE  r \in RequestType /\ Fits(r)
BY ConstantsAssumption

LEMMA RequestFields ==
    ASSUME NEW r \in RequestType
    PROVE  /\ r.op \in {"create", "createMany"} => r.items \in SUBSET Item
           /\ r.op = "upsert" => r.item \in Item /\ r.levels \in SUBSET Models
           /\ r.op = "update" => /\ r.model \in Models /\ r.id \in Ids
                                 /\ r.levels \in SUBSET Models
                                 /\ r.nested \in Models \cup {NoModel}
           /\ r.op = "updateMany" => /\ r.model \in Models /\ r.ids \in SUBSET Ids
                                     /\ r.levels \in SUBSET Models
           /\ r.op = "delete" => r.model \in Models /\ r.id \in Ids
           /\ r.op = "deleteMany" => r.model \in Models /\ r.ids \in SUBSET Ids
           /\ r.op \in {"create", "createMany", "upsert", "update", "updateMany",
                        "delete", "deleteMany"}
BY DEF RequestType

LEMMA InitGood == Init => IInv
<1> SUFFICES ASSUME Init PROVE IInv
  OBVIOUS
<1>1. DOMAIN db = Slots /\ GoodRows(db)
  BY DEF Init, GoodRows
<1>2. DOMAIN wr = Clients /\ \A c \in Clients : GoodWrites(wr[c])
  BY DEF Init, GoodWrites
<1> QED
  BY <1>1, <1>2 DEF Init, IInv

\* A call of one statement changes the rows and nothing else of the callers.
LEMMA StatementGood ==
    ASSUME IInv, NEW c \in Clients, NEW w, GoodRows(w), Apply(c, w),
           UNCHANGED <<isolation, pc, req, wr, tasks>>
    PROVE  IInv'
<1>1. DOMAIN db' = Slots /\ GoodRows(db') /\ late' \in [Clients -> SUBSET Ids]
  BY ApplyGood
<1>2. \A d \in Clients : IF pc'[d] = "idle" THEN req'[d] = NoReq ELSE CallFits(d)'
  BY DEF IInv, CallFits
<1>3. \A d \in Clients : \A t \in tasks'[d] : pc'[d] = "tasks" /\ TaskFits(t, req'[d])
  BY DEF IInv
<1>4. \A d \in Clients : GoodWrites(wr'[d])
  BY DEF IInv
<1> QED
  BY <1>1, <1>2, <1>3, <1>4 DEF IInv

LEMMA CreateKeeps ==
    ASSUME IInv, NEW c \in Clients, NEW r \in Menu[c], Create(c, r)
    PROVE  IInv'
<1>1. r.op = "create" /\ r.items \in SUBSET Item /\ \A x \in r.items : x.model = Kind[x.id]
  BY MenuFits, RequestFields DEF Create, Fits
<1>2. GoodRows(CreateRows(r.items))
  BY <1>1, GoodCreate
<1> QED
  BY <1>2, StatementGood DEF Create

LEMMA UpsertKeeps ==
    ASSUME IInv, NEW c \in Clients, NEW r \in Menu[c], Upsert(c, r)
    PROVE  IInv'
<1> DEFINE x == r.item
           exists == <<x.model, x.id>> \in Present(db)
           w == IF exists THEN UpdateRows(db, x.model, x.id, r.levels) ELSE CreateRows({x})
<1>1. /\ x \in Item /\ x.model = Kind[x.id]
      /\ x.model \in Models /\ x.id \in Ids /\ r.levels \in SUBSET Lineage[x.model]
  BY MenuFits, RequestFields DEF Upsert, Fits, Item
<1>2. /\ Apply(c, w) /\ UNCHANGED <<isolation, pc, req, wr, tasks>>
      /\ exists => CanUpdate(db, x.model, x.id)
  BY DEF Upsert
<1>3. GoodRows(w)
  <2>1. CASE exists
    <3>1. GoodRows(UpdateRows(db, x.model, x.id, r.levels))
      BY <1>1, <1>2, <2>1, GoodUpdate DEF IInv
    <3> QED
      BY <2>1, <3>1
  <2>2. CASE ~exists
    <3>1. {x} \in SUBSET Item /\ \A y \in {x} : y.model = Kind[y.id]
      BY <1>1
    <3>2. GoodRows(CreateRows({x}))
      BY <3>1, GoodCreate
    <3> QED
      BY <2>2, <3>2
  <2> QED
    BY <2>1, <2>2
<1> HIDE DEF w
<1> QED
  BY <1>2, <1>3, StatementGood

LEMMA NewTask ==
    ASSUME NEW kind \in {"delete", "update", "create"}, NEW m \in Models,
           NEW path \in Seq(Ids), path # <<>>
    PROVE  /\ Task(kind, m, path) \in TaskType
           /\ Task(kind, m, path).kind = kind /\ Task(kind, m, path).model = m
           /\ Task(kind, m, path).path = path
BY DEF Task, TaskType, CascadeFields

LEMMA FirstTask ==
    ASSUME NEW kind \in {"delete", "update", "create"}, NEW m \in Models, NEW i \in Ids
    PROVE  /\ Task(kind, m, <<i>>) \in TaskType
           /\ Task(kind, m, <<i>>).kind = kind /\ Task(kind, m, <<i>>).model = m
           /\ Task(kind, m, <<i>>).path = <<i>>
<1> DEFINE path == <<i>>
<1>1. path \in Seq(Ids) /\ path # <<>>
  OBVIOUS
<1> HIDE DEF path
<1>2. /\ Task(kind, m, path) \in TaskType
      /\ Task(kind, m, path).kind = kind /\ Task(kind, m, path).model = m
      /\ Task(kind, m, path).path = path
  BY <1>1, NewTask
<1> QED
  BY <1>2 DEF path

LEMMA BeginKeeps ==
    ASSUME IInv, NEW c \in Clients, NEW r \in Menu[c], Begin(c, r)
    PROVE  IInv'
<1> DEFINE place == CASE r.op \in {"createMany", "delete"} -> "tasks"
                      [] r.op = "update" /\ r.nested = NoModel -> "write"
                      [] r.op = "updateMany" /\ IsSimple(r) -> "write"
                      [] OTHER -> "find"
           created(x) == [Task("create", x.model, <<x.id>>) EXCEPT !.owner = x.owner]
           new == CASE r.op = "createMany" -> {created(x) : x \in r.items}
                    [] r.op = "delete" -> {Task("delete", r.model, <<r.id>>)}
                    [] OTHER -> {}
<1>1. /\ pc[c] = "idle" /\ req' = [req EXCEPT ![c] = r] /\ pc' = [pc EXCEPT ![c] = place]
      /\ tasks' = [tasks EXCEPT ![c] = new] /\ UNCHANGED <<db, isolation, wr, late>>
  BY DEF Begin
<1>2. /\ r.op \in {"createMany", "update", "updateMany", "delete", "deleteMany"}
      /\ place \in {"find", "tasks", "write"}
      /\ place = "find" => \/ r.op = "update" /\ r.nested # NoModel
                           \/ r.op \in {"updateMany", "deleteMany"}
      /\ place = "write" => r.op \in {"update", "updateMany"}
      /\ r.op \in {"createMany", "delete"} => place = "tasks"
  BY MenuFits, RequestFields DEF Begin
<1>3. \A t \in new : place = "tasks" /\ TaskFits(t, r)
  <2>1. CASE r.op = "createMany"
    <3>1. ASSUME NEW x \in r.items
          PROVE  TaskFits(created(x), r)
      <4>1. /\ x.model \in Models /\ x.id \in Ids /\ x.owner \in Ids \cup {NoId}
            /\ x.model = Kind[x.id]
        BY <2>1, MenuFits, RequestFields DEF Fits, Item
      <4>2. <<x.id>> \in Seq(Ids) /\ <<x.id>> # <<>>
        BY <4>1
      <4> DEFINE t == Task("create", x.model, <<x.id>>)
      <4>3. /\ t \in TaskType /\ t.kind = "create" /\ t.model = x.model
            /\ t.path = <<x.id>>
        BY <4>1, FirstTask
      <4> HIDE DEF t
      <4>4. /\ created(x) \in TaskType /\ created(x).path = <<x.id>>
            /\ created(x).kind = "create" /\ created(x).model = x.model
        BY <4>1, <4>3 DEF TaskType, t
      <4> HIDE DEF created
      <4> QED
        BY <4>1, <4>4 DEF TaskFits, Id
    <3> QED
      BY <1>2, <2>1, <3>1
  <2>2. CASE r.op = "delete"
    <3>1. r.model \in Models /\ r.id \in Ids
      BY <2>2, MenuFits, RequestFields
    <3>2. <<r.id>> \in Seq(Ids) /\ <<r.id>> # <<>>
      BY <3>1
    <3> DEFINE t == Task("delete", r.model, <<r.id>>)
    <3>3. t \in TaskType /\ t.kind = "delete" /\ t.path = <<r.id>>
      BY <3>1, FirstTask
    <3>4. new = {t}
      BY <2>2
    <3> HIDE DEF t, new
    <3> QED
      BY <1>2, <2>2, <3>2, <3>3, <3>4 DEF TaskFits
  <2>3. CASE r.op \notin {"createMany", "delete"}
    BY <2>3
  <2> QED
    BY <2>1, <2>2, <2>3
<1> HIDE DEF place, new
<1>4. /\ pc' \in [Clients -> {"idle", "find", "tasks", "write", "commit"}]
      /\ req' \in [Clients -> RequestType \cup {NoReq}] /\ tasks' \in [Clients -> SUBSET TaskType]
      /\ pc'[c] = place /\ req'[c] = r /\ tasks'[c] = new
      /\ \A d \in Clients \ {c} : pc'[d] = pc[d] /\ req'[d] = req[d] /\ tasks'[d] = tasks[d]
  BY <1>1, <1>2, <1>3, MenuFits DEF IInv, TaskFits
<1>5. \A d \in Clients : IF pc'[d] = "idle" THEN req'[d] = NoReq ELSE CallFits(d)'
  BY <1>2, <1>4 DEF IInv, CallFits
<1>6. \A d \in Clients : \A t \in tasks'[d] : pc'[d] = "tasks" /\ TaskFits(t, req'[d])
  BY <1>3, <1>4 DEF IInv
<1> QED
  BY <1>1, <1>4, <1>5, <1>6 DEF IInv

LEMMA FindKeeps ==
    ASSUME IInv, NEW c \in Clients, Find(c)
    PROVE  IInv'
<1> DEFINE r == req[c]
           v == View(c)
           candidates == IF r.op = "update" THEN {s[2] : s \in Referring(v, r.nested, r.id)}
                         ELSE {i \in r.ids : <<r.model, i>> \in Present(v)}
           model == IF r.op = "update" THEN r.nested ELSE r.model
           kind == IF r.op = "updateMany" THEN "update" ELSE "delete"
           new == {Task(kind, model, <<i>>) : i \in candidates}
<1>1. /\ pc[c] = "find" /\ tasks' = [tasks EXCEPT ![c] = new]
      /\ pc' = [pc EXCEPT ![c] = "tasks"] /\ UNCHANGED <<db, isolation, req, wr, late>>
  BY DEF Find
<1>2. /\ CallFits(c) /\ r \in Menu[c]
      /\ \/ r.op = "update" /\ r.nested # NoModel
         \/ r.op \in {"updateMany", "deleteMany"}
  BY <1>1 DEF IInv, CallFits
<1>3. model \in Models /\ candidates \subseteq Ids /\ kind \in {"delete", "update"}
      /\ (kind = "update" => r.op = "updateMany" /\ model = r.model)
  BY <1>2, MenuFits, RequestFields DEF Referring, Present, Slots
<1> HIDE DEF candidates, kind, model
<1>4. ASSUME NEW t \in new
      PROVE  TaskFits(t, r)
  <2>1. PICK i \in candidates : t = Task(kind, model, <<i>>)
    OBVIOUS
  <2>2. <<i>> \in Seq(Ids) /\ <<i>> # <<>>
    BY <1>3
  <2>3. t \in TaskType /\ t.kind = kind /\ t.model = model /\ t.path = <<i>>
    BY <1>3, <2>1, FirstTask
  <2> QED
    BY <1>3, <2>2, <2>3 DEF TaskFits
<1> HIDE DEF new
<1>5. /\ pc' \in [Clients -> {"idle", "find", "tasks", "write", "commit"}]
      /\ tasks' \in [Clients -> SUBSET TaskType] /\ pc'[c] = "tasks" /\ tasks'[c] = new
      /\ \A d \in Clients \ {c} : pc'[d] = pc[d] /\ tasks'[d] = tasks[d]
  BY <1>1, <1>4 DEF IInv, TaskFits
<1>6. \A d \in Clients : IF pc'[d] = "idle" THEN req'[d] = NoReq ELSE CallFits(d)'
  BY <1>1, <1>2, <1>5 DEF IInv, CallFits
<1>7. \A d \in Clients : \A t \in tasks'[d] : pc'[d] = "tasks" /\ TaskFits(t, req'[d])
  BY <1>1, <1>4, <1>5 DEF IInv
<1> QED
  BY <1>1, <1>5, <1>6, <1>7 DEF IInv

LEMMA LookUpKeeps ==
    ASSUME IInv, NEW c \in Clients, pc[c] = "tasks", NEW t \in tasks[c], LookUp(c, t)
    PROVE  IInv'
<1>1. PICK k \in t.todo :
        LET found == t.found \cup Referring(View(c), k, Id(t))
            rest == [t EXCEPT !.todo = @ \ {k}, !.found = found]
            cascaded == {Task("delete", s[1], Append(t.path, s[2])) : s \in found}
        IN  tasks' = [tasks EXCEPT ![c] = (@ \ {t}) \cup
                IF rest.todo # {} THEN {rest}
                ELSE {[rest EXCEPT !.found = {}]} \cup cascaded]
  BY DEF LookUp
<1> DEFINE found == t.found \cup Referring(View(c), k, Id(t))
           rest == [t EXCEPT !.todo = @ \ {k}, !.found = found]
           cascaded == {Task("delete", s[1], Append(t.path, s[2])) : s \in found}
           next == (tasks[c] \ {t}) \cup
                       IF rest.todo # {} THEN {rest}
                       ELSE {[rest EXCEPT !.found = {}]} \cup cascaded
<1>2. tasks' = [tasks EXCEPT ![c] = next]
  BY <1>1 DEF IInv
<1>3. t \in TaskType /\ t.path # <<>> /\ t.kind = "delete" /\ t.path \in Seq(Ids)
  BY DEF LookUp, IInv, TaskFits, TaskType
<1>4. found \subseteq Models \X Ids
  BY <1>3 DEF TaskType, Referring, Present, Slots
<1> HIDE DEF found
<1>5. TaskFits(rest, req[c]) /\ TaskFits([rest EXCEPT !.found = {}], req[c])
  BY <1>3, <1>4 DEF TaskFits, TaskType
<1>6. ASSUME NEW u \in cascaded
      PROVE  TaskFits(u, req[c])
  <2>1. PICK s \in found : u = Task("delete", s[1], Append(t.path, s[2]))
    OBVIOUS
  <2>2. s[1] \in Models /\ s[2] \in Ids
    BY <1>4
  <2> DEFINE path == Append(t.path, s[2])
  <2>3. path \in Seq(Ids) /\ path # <<>>
    BY <1>3, <2>2
  <2>4. u = Task("delete", s[1], path)
    BY <2>1
  <2> HIDE DEF path
  <2>5. u \in TaskType /\ u.kind = "delete" /\ u.path # <<>>
    BY <2>2, <2>3, <2>4, NewTask
  <2> QED
    BY <2>5 DEF TaskFits
<1> HIDE DEF rest, cascaded
<1>7. \A u \in next : TaskFits(u, req[c])
  BY <1>5, <1>6 DEF IInv
<1> HIDE DEF next
<1>8. /\ UNCHANGED <<db, isolation, pc, req, wr, late>>
      /\ DOMAIN wr' = Clients /\ \A d \in Clients : GoodWrites(wr'[d])
  BY DEF LookUp, IInv
<1> QED
  BY <1>2, <1>7, <1>8, TasksGood

LEMMA DeleteLevelKeeps ==
    ASSUME IInv, NEW c \in Clients, pc[c] = "tasks", NEW t \in tasks[c], DeleteLevel(c, t)
    PROVE  IInv'
<1> DEFINE v == View(c)
           level == IF t.base = NoModel THEN t.model ELSE t.base
           s == <<level, Id(t)>>
           exists == s \in Present(v)
           w == IF exists THEN DeleteRow(v, s) ELSE <<>>
           rest == (tasks[c] \ {t}) \cup
                       IF Base[level] = NoModel THEN {} ELSE {[t EXCEPT !.base = Base[level]]}
<1>1. Run(c, exists, w, rest)
  BY DEF DeleteLevel
<1>2. exists => GoodRows(w)
  BY GoodView, GoodDelete
<1>3. t \in TaskType /\ t.path # <<>> /\ t.kind = "delete" /\ level \in Models
  BY DEF DeleteLevel, IInv, TaskFits, TaskType
<1>4. Base[level] # NoModel => TaskFits([t EXCEPT !.base = Base[level]], req[c])
  BY <1>3, ConstantsAssumption DEF TaskFits, TaskType
<1>5. \A u \in rest : TaskFits(u, req[c])
  BY <1>4 DEF IInv
<1>6. exists \in BOOLEAN
  OBVIOUS
<1> HIDE DEF exists, w, rest
<1> QED
  BY <1>1, <1>2, <1>5, <1>6, RunGood

LEMMA UpdateOneKeeps ==
    ASSUME IInv, NEW c \in Clients, pc[c] = "tasks", NEW t \in tasks[c], UpdateOne(c, t)
    PROVE  IInv'
<1> DEFINE v == View(c)
           ok == CanUpdate(v, t.model, Id(t))
           w == IF ok THEN UpdateRows(v, t.model, Id(t), req[c].levels) ELSE <<>>
           rest == tasks[c] \ {t}
<1>1. Run(c, ok, w, rest) /\ t.kind = "update"
  BY DEF UpdateOne
<1>2. /\ t \in TaskType /\ t.path # <<>>
      /\ req[c] \in Menu[c] /\ req[c].op = "updateMany" /\ t.model = req[c].model
  BY <1>1 DEF IInv, TaskFits, CallFits
<1>3. t.model \in Models /\ Id(t) \in Ids /\ req[c].levels \in SUBSET Lineage[t.model]
  <2>1. t.path \in Seq(Ids) /\ Id(t) \in Ids
    BY <1>2 DEF TaskType, Id
  <2> QED
    BY <1>2, <2>1, MenuFits, RequestFields DEF Fits
<1>4. ok => GoodRows(w)
  BY <1>3, GoodView, GoodUpdate
<1>5. \A u \in rest : TaskFits(u, req[c])
  BY DEF IInv
<1>6. ok \in BOOLEAN
  BY DEF CanUpdate
<1> HIDE DEF ok, w, rest
<1> QED
  BY <1>1, <1>4, <1>5, <1>6, RunGood

LEMMA CreateOneKeeps ==
    ASSUME IInv, NEW c \in Clients, pc[c] = "tasks", NEW t \in tasks[c], CreateOne(c, t)
    PROVE  IInv'
<1> DEFINE X == {[model |-> t.model, id |-> Id(t), owner |-> t.owner]}
           possible == CanCreate(View(c), X)
           w == CreateRows(X)
           rest == tasks[c] \ {t}
<1>1. Run(c, possible, w, rest) /\ t.kind = "create"
  BY DEF CreateOne
<1>2. t \in TaskType /\ t.path # <<>> /\ t.model = Kind[Id(t)]
  BY <1>1 DEF IInv, TaskFits
<1>3. Id(t) \in Ids /\ t.model \in Models /\ t.owner \in Ids \cup {NoId}
  BY <1>2 DEF TaskType, Id
<1>4. X \in SUBSET Item /\ \A x \in X : x.model = Kind[x.id]
  BY <1>2, <1>3 DEF Item
<1>5. GoodRows(w)
  BY <1>4, GoodCreate
<1>6. \A u \in rest : TaskFits(u, req[c])
  BY DEF IInv
<1>7. possible \in BOOLEAN
  BY DEF CanCreate
<1> HIDE DEF possible, w, rest
<1> QED
  BY <1>1, <1>5, <1>6, <1>7, RunGood

LEMMA StepKeeps ==
    ASSUME IInv, NEW c \in Clients, Step(c)
    PROVE  IInv'
BY LookUpKeeps, DeleteLevelKeeps, UpdateOneKeeps, CreateOneKeeps DEF Step

LEMMA WriteKeeps ==
    ASSUME IInv, NEW c \in Clients, Write(c)
    PROVE  IInv'
<1> DEFINE r == req[c]
           v == View(c)
           ok == r.op = "update" => CanUpdate(v, r.model, r.id)
           w == CASE ~ok -> <<>>
                  [] r.op = "update" -> UpdateRows(v, r.model, r.id, r.levels)
                  [] OTHER -> NativeUpdateRows(v, r.model, r.ids, r.levels)
<1>1. /\ pc[c] = "write" \/ (pc[c] = "tasks" /\ r.op = "update")
      /\ tasks[c] = {}
  BY DEF Write, AllSettled, IInv
<1>2. \/ /\ ok
         /\ wr' = [wr EXCEPT ![c] = Over(@, w)]
         /\ pc' = [pc EXCEPT ![c] = "commit"]
         /\ UNCHANGED <<db, isolation, req, tasks, late>>
      \/ Abort(c)
  BY DEF Write
<1>3. CASE Abort(c)
  BY <1>3, AbortGood
<1>4. CASE /\ ok
           /\ wr' = [wr EXCEPT ![c] = Over(@, w)]
           /\ pc' = [pc EXCEPT ![c] = "commit"]
           /\ UNCHANGED <<db, isolation, req, tasks, late>>
  <2>1. CallFits(c) /\ r \in Menu[c] /\ r.op \in {"update", "updateMany"}
    BY <1>1 DEF IInv, CallFits
  <2>2. GoodRows(w)
    <3>1. CASE r.op = "update"
      <4>1. /\ r.model \in Models /\ r.id \in Ids /\ r.levels \in SUBSET Lineage[r.model]
            /\ CanUpdate(v, r.model, r.id)
        BY <1>4, <2>1, <3>1, MenuFits, RequestFields DEF Fits
      <4>2. GoodRows(UpdateRows(v, r.model, r.id, r.levels))
        BY <4>1, GoodView, GoodUpdate
      <4> QED
        BY <1>4, <3>1, <4>2
    <3>2. CASE r.op # "update"
      <4>1. GoodRows(NativeUpdateRows(v, r.model, r.ids, r.levels))
        BY GoodView, GoodNativeUpdate
      <4> QED
        BY <1>4, <3>2, <4>1
    <3> QED
      BY <3>1, <3>2
  <2> HIDE DEF ok, w
  <2>3. GoodWrites(Over(wr[c], w))
    BY <2>2, GoodOver DEF IInv
  <2>4. DOMAIN wr' = Clients /\ \A d \in Clients : GoodWrites(wr'[d])
    BY <1>4, <2>3 DEF IInv
  <2>5. /\ pc' \in [Clients -> {"idle", "find", "tasks", "write", "commit"}]
        /\ pc'[c] = "commit" /\ \A d \in Clients \ {c} : pc'[d] = pc[d]
    BY <1>4 DEF IInv
  <2>6. \A d \in Clients : IF pc'[d] = "idle" THEN req'[d] = NoReq ELSE CallFits(d)'
    BY <1>4, <2>1, <2>5 DEF IInv, CallFits
  <2>7. \A d \in Clients : \A t \in tasks'[d] : pc'[d] = "tasks" /\ TaskFits(t, req'[d])
    BY <1>1, <1>4, <2>5 DEF IInv
  <2> QED
    BY <1>4, <2>4, <2>5, <2>6, <2>7 DEF IInv
<1> QED
  BY <1>2, <1>3, <1>4

LEMMA CommitKeeps ==
    ASSUME IInv, NEW c \in Clients, Commit(c)
    PROVE  IInv'
<1> DEFINE w == [s \in {t \in Slots : wr[c][t] # Clean} |-> wr[c][s]]
<1>1. Apply(c, w) /\ Close(c)
  BY DEF Commit
<1>2. GoodRows(w)
  BY DEF IInv, GoodWrites, GoodRows
<1> HIDE DEF w
<1> QED
  BY <1>1, <1>2, ApplyGood, CloseGood

LEMMA StutterKeeps ==
    ASSUME IInv, UNCHANGED vars
    PROVE  IInv'
<1>1. \A c \in Clients : IF pc'[c] = "idle" THEN req'[c] = NoReq ELSE CallFits(c)'
  BY DEF IInv, CallFits, vars
<1> QED
  BY <1>1 DEF IInv, vars

LEMMA NextKeeps ==
    ASSUME IInv, [Next]_vars
    PROVE  IInv'
<1>1. CASE UNCHANGED vars
  BY <1>1, StutterKeeps
<1>2. CASE Next
  <2>1. PICK c \in Clients :
          \/ \E r \in Menu[c] : Create(c, r) \/ Upsert(c, r) \/ Begin(c, r)
          \/ Find(c) \/ Step(c) \/ Write(c) \/ Commit(c) \/ Interrupted(c)
    BY <1>2 DEF Next
  <2>2. CASE \E r \in Menu[c] : Create(c, r) \/ Upsert(c, r) \/ Begin(c, r)
    BY <2>2, CreateKeeps, UpsertKeeps, BeginKeeps
  <2>3. CASE Find(c) \/ Step(c) \/ Write(c) \/ Commit(c)
    BY <2>3, FindKeeps, StepKeeps, WriteKeeps, CommitKeeps
  <2>4. CASE Interrupted(c)
    BY <2>4, AbortGood DEF Interrupted
  <2> QED
    BY <2>1, <2>2, <2>3, <2>4
<1> QED
  BY <1>1, <1>2

LEMMA IInvAlways == Spec => []IInv
<1>1. Init => IInv
  BY InitGood
<1>2. IInv /\ [Next]_vars => IInv'
  BY NextKeeps
<1> QED
  BY <1>1, <1>2, PTL DEF Spec

\* Every variable keeps its type: in particular a discriminator is a model that
\* extends the row's, or none, and a level without a foreign key has no owner.
THEOREM DelegatesTypeCorrect == Spec => []TypeOK
<1>1. IInv => TypeOK
  <2> SUFFICES ASSUME IInv PROVE TypeOK
    OBVIOUS
  <2>1. \A s \in Slots : db[s] \in Row(s[1]) \cup {NoRow}
    BY DEF IInv, GoodRows, GoodRow
  <2>2. \A c \in Clients : DOMAIN wr[c] = Slots
                           /\ \A s \in Slots : wr[c][s] \in Row(s[1]) \cup {NoRow, Clean}
    BY DEF IInv, GoodWrites, GoodRow
  <2>3. \A c \in Clients : req[c] \in RequestType \cup {NoReq}
    BY ConstantsAssumption DEF IInv, CallFits
  <2>4. \A c \in Clients : tasks[c] \in SUBSET TaskType
    BY DEF IInv, TaskFits
  <2> QED
    BY <2>1, <2>2, <2>3, <2>4 DEF IInv, TypeOK
<1> QED
  BY <1>1, IInvAlways, PTL

-----------------------------------------------------------------------------
(* Reading. *)

\* Of an entity whose rows are all there, with discriminators that name the
\* level below, the levels that are read are those of its lineage.
LEMMA WholeEntitiesReadAlike ==
    ASSUME DOMAIN db = Slots, GoodRows(db), NEW i \in Ids, Whole(db, i), NEW m \in Lineage[Kind[i]]
    PROVE  Assembled(db, m, i) = Lineage[Kind[i]]
<1> DEFINE K == Kind[i]
           L == Lineage[K]
           included == Included(db, m, i)
           next == [l \in included |-> {db[<<l, i>>].sub} \cap included]
           R == Reachable(included, m, next)
<1>1. K \in Models /\ m \in Models /\ L \subseteq Models
  BY ConstantsAssumption, LineageIsLeast
<1>2. \A l \in Models : <<l, i>> \in Present(db) <=> l \in L
  BY <1>1 DEF Whole, SlotsOf, Present, Slots
<1>3. included = L
  <2>1. ASSUME NEW l \in L PROVE l \in included
    BY <1>1, <1>2, <2>1, LineageIsChain DEF Included
  <2>2. ASSUME NEW l \in included PROVE l \in L
    BY <1>1, <1>2, <2>2, LineageIsLeast DEF Included
  <2> QED
    BY <2>1, <2>2
<1>4. Above(db, m, i) = Lineage[m]
  BY <1>1, <1>3, LineagesNest DEF Above
<1>5. Below(db, m, i) = R
  BY DEF Below
<1>6. \A l \in L : db[<<l, i>>].sub = Discriminator(K, l)
  <2>1. ASSUME NEW l \in L
        PROVE  db[<<l, i>>].sub = Discriminator(K, l)
    <3>1. <<l, i>> \in Slots /\ db[<<l, i>>] # NoRow
      BY <1>1, <1>2 DEF Present
    <3> QED
      BY <3>1 DEF GoodRows, GoodRow, Present
  <2> QED
    BY <2>1
<1>7. next \in [included -> SUBSET included] /\ m \in included
  BY <1>3
<1>8. \A l \in L : next[l] = {Discriminator(K, l)} \cap L
  BY <1>3, <1>6
<1> HIDE DEF included, next
<1>9. R \subseteq L /\ m \in R /\ \A l \in R : next[l] \subseteq R
  BY <1>3, <1>7, ReachableIsLeast
<1> HIDE DEF R
<1> DEFINE T == L \ (Lineage[m] \cup R)
<1>10. ASSUME NEW n \in T
       PROVE  Base[n] \in T
  <2>1. n \in Models /\ n # m /\ m \in Lineage[n]
    BY <1>1, <1>9, LineageIsChain
  <2>2. Base[n] # NoModel /\ Base[n] \in L
    BY <1>1, <2>1, LineageUnfolds, LineageIsLeast
  <2> DEFINE p == Base[n]
  <2>3. p \in Models /\ m \in Lineage[p] /\ n \notin Lineage[p]
    BY <2>1, <2>2, LineageUnfolds, NoCycles
  <2>4. p \notin R
    <3>1. Discriminator(K, p) = n
      BY <1>1, <2>2, DiscriminatorNamesLevelBelow
    <3>2. p \in R => n \in R
      BY <1>8, <1>9, <2>2, <3>1
    <3> QED
      BY <3>2
  <2>5. p \notin Lineage[m]
    <3>1. SUFFICES ASSUME p \in Lineage[m] PROVE FALSE
      OBVIOUS
    <3>2. p # m
      BY <1>9, <2>4
    <3>3. Base[m] # NoModel /\ Base[m] \in Models /\ p \in Lineage[Base[m]]
      BY <1>1, <3>1, <3>2, LineageUnfolds
    <3>4. m \in Lineage[Base[m]]
      BY <2>3, <3>3, LineagesNest
    <3> QED
      BY <1>1, <3>3, <3>4, NoCycles
  <2> QED
    BY <2>2, <2>4, <2>5
<1>11. T \in SUBSET Models
  BY <1>1
<1> HIDE DEF T
<1>12. T = {}
  BY <1>10, <1>11, ConstantsAssumption
<1>13. Lineage[m] \subseteq L
  BY <1>1, LineagesNest
<1> QED
  BY <1>4, <1>5, <1>9, <1>12, <1>13 DEF Assembled, T

\* An entity whose rows are all there reads the same through every model of its
\* lineage, whatever was created, changed and deleted before, by any number of
\* callers, committed or interrupted, under either isolation level.
THEOREM EntitiesReadAlike == Spec => []ReadsAgree
<1>1. IInv => ReadsAgree
  BY WholeEntitiesReadAlike DEF IInv, ReadsAgree
<1> QED
  BY <1>1, IInvAlways, PTL

-----------------------------------------------------------------------------
(* What a delete sweeps away. *)

\* The induction on numbers, for the set of those it holds of.
LEMMA UpTo ==
    ASSUME NEW m \in Nat, NEW S, 0 \in S, \A n \in 1 .. m : n - 1 \in S => n \in S
    PROVE  m \in S
<1> DEFINE Failing == {n \in 0 .. m : n \notin S}
<1> SUFFICES ASSUME Failing # {} PROVE FALSE
  OBVIOUS
<1>1. PICK n \in Failing : \A i \in Failing : <<i, n>> \notin OpToRel(<, Nat)
  <2>1. Failing \subseteq Nat
    OBVIOUS
  <2> QED
    BY <2>1, NatLessThanWellFounded, WFMin
<1>2. \A i, k \in Nat : i < k => <<i, k>> \in OpToRel(<, Nat)
  BY DEF OpToRel
<1>3. n # 0 /\ n - 1 \in 0 .. m /\ n - 1 < n
  OBVIOUS
<1>4. n - 1 \notin Failing
  <2> HIDE DEF Failing
  <2>1. n \in Nat /\ n - 1 \in Nat
    BY <1>3 DEF Failing
  <2> QED
    BY <1>1, <1>2, <1>3, <2>1
<1> QED
  BY <1>3, <1>4

\* A set of rows and those directly below one of them.
Wider(v, S) == S \cup UNION {DirectlyBelow(v, t) : t \in S}

\* f is the stages, up to the m-th, of going down from s.
Stages(f, v, s, m) == f = [n \in 0 .. m |-> IF n = 0 THEN {s} ELSE Wider(v, f[n - 1])]

LEMMA StagesExist ==
    ASSUME NEW v, NEW s, NEW m \in Nat
    PROVE  \E f : Stages(f, v, s, m)
<1> DEFINE Good == {n \in Nat : \E f : Stages(f, v, s, n)}
<1>1. 0 \in Good
  <2> DEFINE g == [n \in 0 .. 0 |-> {s}]
  <2>1. g = [n \in 0 .. 0 |-> IF n = 0 THEN {s} ELSE Wider(v, g[n - 1])]
    OBVIOUS
  <2> HIDE DEF g
  <2> QED
    BY <2>1 DEF Stages
<1>2. ASSUME NEW n \in 1 .. m, n - 1 \in Good
      PROVE  n \in Good
  <2>1. PICK f : Stages(f, v, s, n - 1)
    BY <1>2
  <2> DEFINE g == [i \in 0 .. n |-> IF i < n THEN f[i] ELSE Wider(v, f[n - 1])]
  <2>2. ASSUME NEW i \in 0 .. n
        PROVE  g[i] = IF i = 0 THEN {s} ELSE Wider(v, g[i - 1])
    <3>1. CASE i = 0
      BY <2>1, <3>1 DEF Stages
    <3>2. CASE i # 0 /\ i < n
      <4>1. i \in 0 .. n - 1 /\ i - 1 \in 0 .. n /\ i - 1 < n
        BY <3>2
      <4>2. f[i] = Wider(v, f[i - 1])
        BY <2>1, <3>2, <4>1 DEF Stages
      <4> QED
        BY <3>2, <4>1, <4>2
    <3>3. CASE i = n
      BY <3>3
    <3> QED
      BY <3>1, <3>2, <3>3
  <2>3. g = [i \in 0 .. n |-> IF i = 0 THEN {s} ELSE Wider(v, g[i - 1])]
    BY <2>2
  <2> HIDE DEF g
  <2> QED
    BY <2>3 DEF Stages
<1> HIDE DEF Good
<1>3. m \in Good
  BY <1>1, <1>2, UpTo
<1> QED
  BY <1>3 DEF Good

LEMMA SlotsAreFinite == IsFiniteSet(Slots) /\ Cardinality(Slots) \in Nat
<1>1. IsFiniteSet(Models \X Ids)
  BY FiniteAssumption, FS_Product
<1>2. Slots \in SUBSET (Models \X Ids)
  BY DEF Slots
<1> QED
  BY <1>1, <1>2, FS_Subset, FS_CardinalityType

LEMMA SweptIsLastStage ==
    ASSUME NEW v, NEW s
    PROVE  \E f : /\ Stages(f, v, s, Cardinality(Slots))
                  /\ Swept(v, s) = f[Cardinality(Slots)]
<1> DEFINE f == CHOOSE g : Stages(g, v, s, Cardinality(Slots))
<1>1. Stages(f, v, s, Cardinality(Slots))
  BY StagesExist, SlotsAreFinite
<1>2. Swept(v, s) = f[Cardinality(Slots)]
  BY DEF Swept, Stages, Wider
<1> HIDE DEF f
<1> QED
  BY <1>1, <1>2

Closed(v, S) == \A t \in S : DirectlyBelow(v, t) \subseteq S

\* What is swept away is closed under going down, and the least such set: there
\* are no more stages than slots, so the last one adds nothing.
LEMMA SweptIsLeast ==
    ASSUME NEW v, NEW s \in Slots
    PROVE  /\ s \in Swept(v, s)
           /\ Swept(v, s) \subseteq Slots
           /\ Closed(v, Swept(v, s))
           /\ \A S : s \in S /\ Closed(v, S) => Swept(v, s) \subseteq S
<1> DEFINE N == Cardinality(Slots)
<1>1. N \in Nat /\ IsFiniteSet(Slots)
  BY SlotsAreFinite
<1>2. PICK f : Stages(f, v, s, N) /\ Swept(v, s) = f[N]
  BY SweptIsLastStage
<1> HIDE DEF N
<1>3. f[0] = {s} /\ \A n \in 1 .. N : f[n] = Wider(v, f[n - 1])
  <2>1. \A n \in 0 .. N : f[n] = IF n = 0 THEN {s} ELSE Wider(v, f[n - 1])
    BY <1>2 DEF Stages
  <2> QED
    BY <1>1, <2>1
<1> DEFINE Sound == {n \in Nat : s \in f[n] /\ f[n] \subseteq Slots}
<1>4. \A n \in 0 .. N : n \in Sound
  <2>1. 0 \in Sound
    BY <1>3
  <2>2. ASSUME NEW n \in 1 .. N, n - 1 \in Sound
        PROVE  n \in Sound
    BY <1>3, <2>2 DEF Wider, DirectlyBelow, Present
  <2>3. ASSUME NEW n \in 0 .. N
        PROVE  n \in Sound
    <3> HIDE DEF Sound
    <3>1. n \in Nat /\ \A i \in 1 .. n : i \in 1 .. N
      BY <1>1
    <3> QED
      BY <2>1, <2>2, <3>1, UpTo
  <2> QED
    BY <2>3
<1> DEFINE Grown == {n \in Nat : Closed(v, f[n]) \/ Cardinality(f[n]) > n}
<1>5. N \in Grown
  <2>1. 0 \in Grown
    <3>1. Cardinality(f[0]) = 1
      BY <1>3, FS_Singleton
    <3> QED
      BY <3>1
  <2>2. ASSUME NEW n \in 1 .. N, n - 1 \in Grown
        PROVE  n \in Grown
    <3>1. n - 1 \in 0 .. N /\ n \in 0 .. N /\ n \in Nat
      BY <1>1
    <3>2. f[n] = Wider(v, f[n - 1])
      BY <1>3
    <3>3. CASE Closed(v, f[n - 1])
      <4>1. f[n] = f[n - 1]
        BY <3>2, <3>3 DEF Wider, Closed
      <4> QED
        BY <3>1, <3>3, <4>1
    <3>4. CASE ~Closed(v, f[n - 1]) /\ Cardinality(f[n - 1]) > n - 1
      <4>1. f[n - 1] \subseteq f[n] /\ f[n] \subseteq Slots
        BY <1>4, <3>1, <3>2 DEF Wider
      <4>2. f[n - 1] # f[n]
        BY <3>2, <3>4 DEF Wider, Closed
      <4>3. IsFiniteSet(f[n]) /\ IsFiniteSet(f[n - 1])
        BY <1>1, <4>1, FS_Subset
      <4>4. /\ Cardinality(f[n - 1]) <= Cardinality(f[n])
            /\ Cardinality(f[n]) = Cardinality(f[n - 1]) => f[n] = f[n - 1]
        BY <4>1, <4>3, FS_Subset
      <4>5. Cardinality(f[n]) \in Nat /\ Cardinality(f[n - 1]) \in Nat
        BY <4>3, FS_CardinalityType
      <4> QED
        BY <3>1, <3>4, <4>2, <4>4, <4>5
    <3> QED
      BY <2>2, <3>3, <3>4
  <2> HIDE DEF Grown
  <2> QED
    BY <1>1, <2>1, <2>2, UpTo
<1>6. s \in f[N] /\ f[N] \subseteq Slots
  BY <1>1, <1>4
<1>7. Closed(v, f[N])
  <2>1. Cardinality(f[N]) <= N
    BY <1>1, <1>6, FS_Subset DEF N
  <2>2. Cardinality(f[N]) \in Nat
    BY <1>1, <1>6, FS_Subset, FS_CardinalityType
  <2> QED
    BY <1>1, <1>5, <2>1, <2>2
<1>8. ASSUME NEW S, s \in S, Closed(v, S)
      PROVE  f[N] \subseteq S
  <2> DEFINE Inside == {n \in Nat : f[n] \subseteq S}
  <2>1. 0 \in Inside
    BY <1>3, <1>8
  <2>2. ASSUME NEW n \in 1 .. N, n - 1 \in Inside
        PROVE  n \in Inside
    BY <1>3, <1>8, <2>2 DEF Wider, Closed
  <2>3. N \in Inside
    <3> HIDE DEF Inside
    <3> QED
      BY <1>1, <2>1, <2>2, UpTo
  <2> QED
    BY <2>3
<1> QED
  BY <1>2, <1>6, <1>7, <1>8

\* A row that is swept away is there and directly below another that is.
LEMMA SweptFromAbove ==
    ASSUME NEW v, NEW s \in Slots, NEW u \in Swept(v, s), u # s
    PROVE  \E t \in Swept(v, s) : u \in DirectlyBelow(v, t)
<1> DEFINE S == {x \in Swept(v, s) : x = s \/ \E t \in Swept(v, s) : x \in DirectlyBelow(v, t)}
<1>1. s \in S
  BY SweptIsLeast
<1>2. Closed(v, S)
  BY SweptIsLeast DEF Closed
<1> HIDE DEF S
<1>3. Swept(v, s) \subseteq S
  BY <1>1, <1>2, SweptIsLeast
<1> QED
  BY <1>3 DEF S

-----------------------------------------------------------------------------
(* A serializable transaction of call r: d is the committed rows, v what it *)
(* sees of them, and T its promises that are not settled.                   *)

IsView(v) == DOMAIN v = Slots /\ GoodRows(v)

\* A delete leaves a row as it is or without its owner, and nothing is added.
Reduces(v, d) == \A s \in Present(v) : s \in Present(d) /\ v[s].fk \in {d[s].fk, NoId}

\* Nothing is deleted, and what is new is whole.
Grows(v, d) == /\ Present(d) \subseteq Present(v)
               /\ \A s \in Present(v) \ Present(d) : Whole(v, s[2])

\* Every row has that of its base.
Attached(v) == \A s \in Present(v) : Base[s[1]] # NoModel => <<Base[s[1]], s[2]>> \in Present(v)

Victim(t) == <<t.model, Id(t)>>

\* What cascades by relations t has looked up is found, and when all are looked
\* up there is a task for it as long as it is there.
Covers(v, T, t) ==
    \A s \in Present(v) :
        s[1] \in CascadeFields(t.model) \ t.todo /\ v[s].fk = Id(t)
        => IF t.todo # {} THEN s \in t.found
           ELSE \E k \in T : /\ k.kind = "delete" /\ k.model = s[1]
                             /\ k.path = Append(t.path, s[2])

DeleteFits(d, r, v, T, t) ==
    /\ Victim(t) \in Sought(d, r, {})
    /\ t.todo \subseteq CascadeFields(t.model)
    /\ t.found \subseteq FoundFrom(d, Victim(t))
    /\ Covers(v, T, t)
    /\ t.base # NoModel =>
         /\ t.base \in Lineage[t.model] /\ t.model \notin Lineage[t.base]
         /\ Victim(t) \in Slots
         /\ \A l \in Lineage[t.model] \ Lineage[t.base] : <<l, Id(t)>> \notin Present(v)

\* What the database may take without the code having looked for it.
Taken(d, r) == UNION {Swept(d, s) : s \in Overlooked(d, r, {})}

\* A deleted row's base is gone too, or the task that is to delete it is there.
BasesFollow(d, r, v, T) ==
    \A s \in Present(d) \ Present(v) :
        Base[s[1]] # NoModel =>
            \/ <<Base[s[1]], s[2]>> \notin Present(v)
            \/ \E t \in T : t.kind = "delete" /\ t.base = Base[s[1]] /\ Id(t) = s[2]
            \/ s \in Taken(d, r)

\* What the call is to delete is deleted, or there is a task for it.
RootsGo(d, r, v, T) ==
    \A y \in Roots(d, r) :
        \/ \E t \in T : t.kind = "delete" /\ t.model = y[1] /\ t.path = <<y[2]>>
        \/ y \in Slots /\ \A l \in Lineage[y[1]] : <<l, y[2]>> \notin Present(v)

Going(d, r, v, T) ==
    /\ IF r.op = "createMany" THEN Grows(v, d) ELSE Reduces(v, d)
    /\ Attached(v)
    /\ \A t \in T : (t.kind = "create") <=> (r.op = "createMany")
    /\ \A t \in T : t.kind = "delete" => DeleteFits(d, r, v, T, t)
    /\ BasesFollow(d, r, v, T)
    /\ RootsGo(d, r, v, T)

LEMMA SlotParts ==
    /\ \A s \in Slots : /\ s = <<s[1], s[2]>> /\ s[1] \in Models /\ s[2] \in Ids
                        /\ s[1] \in Lineage[Kind[s[2]]]
    /\ \A m \in Models, i \in Ids : <<m, i>> \in Slots <=> m \in Lineage[Kind[i]]
BY DEF Slots

LEMMA PresentRows ==
    ASSUME NEW v, IsView(v), NEW s \in Present(v)
    PROVE  /\ s \in Slots /\ GoodRow(s, v[s]) /\ v[s] # NoRow
           /\ v[s].fk \in Ids \cup {NoId}
BY DEF IsView, GoodRows, GoodRow, Row, Present

LEMMA TaskParts ==
    ASSUME NEW t, NEW r, TaskFits(t, r)
    PROVE  /\ t.model \in Models /\ t.path \in Seq(Ids) /\ t.path # <<>> /\ Id(t) \in Ids
           /\ t.kind \in {"delete", "update", "create"} /\ t.base \in Models \cup {NoModel}
           /\ t.found \in SUBSET (Models \X Ids) /\ t.todo \in SUBSET Models
BY DEF TaskFits, TaskType, Id

LEMMA AppendedPath ==
    ASSUME NEW p \in Seq(Ids), NEW i \in Ids, NEW t, t.path = Append(p, i)
    PROVE  Id(t) = i /\ Len(t.path) = Len(p) + 1 /\ SubSeq(t.path, 1, Len(p)) = p
BY DEF Id

LEMMA RootIsSought ==
    ASSUME NEW d, NEW r, NEW y \in Roots(d, r)
    PROVE  y \in Sought(d, r, {})
<1> DEFINE U == {s \in Present(d) : s[2] \notin {}} \cup Roots(d, r)
           next == [z \in U |-> FoundFrom(d, z) \cap U]
<1>1. y \in U /\ next \in [U -> SUBSET U]
  OBVIOUS
<1>2. Sought(d, r, {}) = {x \in U : \E z \in Roots(d, r) : x \in Reachable(U, z, next)}
  BY DEF Sought
<1> HIDE DEF U, next
<1>3. y \in Reachable(U, y, next)
  BY <1>1, ReachableIsLeast
<1> QED
  BY <1>1, <1>2, <1>3

LEMMA FoundIsSought ==
    ASSUME NEW d, NEW r, NEW x \in Sought(d, r, {}), NEW y \in FoundFrom(d, x)
    PROVE  y \in Sought(d, r, {})
<1> DEFINE U == {s \in Present(d) : s[2] \notin {}} \cup Roots(d, r)
           next == [z \in U |-> FoundFrom(d, z) \cap U]
<1>1. y \in U /\ next \in [U -> SUBSET U] /\ Roots(d, r) \subseteq U
  BY DEF FoundFrom
<1>2. Sought(d, r, {}) = {z \in U : \E s \in Roots(d, r) : z \in Reachable(U, s, next)}
  BY DEF Sought
<1>3. \A z \in U : next[z] = FoundFrom(d, z) \cap U
  OBVIOUS
<1> HIDE DEF U, next
<1>4. PICK s \in Roots(d, r) : x \in U /\ x \in Reachable(U, s, next)
  BY <1>2
<1>5. next[x] \subseteq Reachable(U, s, next)
  BY <1>1, <1>4, ReachableIsLeast
<1> QED
  BY <1>1, <1>2, <1>3, <1>4, <1>5

\* Every delete goes on, if not in the same place.
Continues(T, next) ==
    \A t \in T : t.kind = "delete" =>
        \E k \in next : /\ k.kind = "delete" /\ k.model = t.model
                        /\ k.path = t.path /\ k.base = t.base

LEMMA WhatContinues ==
    ASSUME NEW d, NEW r, NEW v, NEW T, NEW next, Continues(T, next)
    PROVE  /\ BasesFollow(d, r, v, T) => BasesFollow(d, r, v, next)
           /\ RootsGo(d, r, v, T) => RootsGo(d, r, v, next)
           /\ \A t : Covers(v, T, t) => Covers(v, next, t)
<1>1. ASSUME BasesFollow(d, r, v, T)
      PROVE  BasesFollow(d, r, v, next)
  BY <1>1 DEF BasesFollow, Continues, Id
<1>2. ASSUME RootsGo(d, r, v, T)
      PROVE  RootsGo(d, r, v, next)
  BY <1>2 DEF RootsGo, Continues
<1>3. ASSUME NEW t, Covers(v, T, t)
      PROVE  Covers(v, next, t)
  BY <1>3 DEF Covers, Continues
<1> QED
  BY <1>1, <1>2, <1>3

\* The tasks T when t has looked up relation k.
LookedUp(v, T, t, k) ==
    LET found == t.found \cup Referring(v, k, Id(t))
        rest == [t EXCEPT !.todo = @ \ {k}, !.found = found]
        cascaded == {Task("delete", s[1], Append(t.path, s[2])) : s \in found}
    IN  (T \ {t}) \cup IF rest.todo # {} THEN {rest}
                       ELSE {[rest EXCEPT !.found = {}]} \cup cascaded

LEMMA LookUpGoes ==
    ASSUME NEW d, NEW r, NEW v, NEW T, IsView(v), Going(d, r, v, T),
           \A t \in T : TaskFits(t, r),
           NEW t \in T, t.kind = "delete", NEW k \in t.todo
    PROVE  Going(d, r, v, LookedUp(v, T, t, k))
<1> DEFINE next == LookedUp(v, T, t, k)
           found == t.found \cup Referring(v, k, Id(t))
           todo == t.todo \ {k}
           rest == [t EXCEPT !.todo = todo, !.found = IF todo # {} THEN found ELSE {}]
           cascaded == {Task("delete", s[1], Append(t.path, s[2])) : s \in found}
<1>1. /\ t \in TaskType /\ t.model \in Models /\ t.path \in Seq(Ids) /\ Id(t) \in Ids
      /\ DeleteFits(d, r, v, T, t) /\ r.op # "createMany" /\ Reduces(v, d)
  BY TaskParts DEF Going, TaskFits
<1>2. /\ rest.kind = "delete" /\ rest.model = t.model /\ rest.path = t.path
      /\ rest.base = t.base /\ rest.todo = todo /\ Id(rest) = Id(t)
      /\ rest.found = IF todo # {} THEN found ELSE {}
  BY <1>1 DEF TaskType, Id
<1>3. next = (T \ {t}) \cup {rest} \cup IF todo # {} THEN {} ELSE cascaded
  BY <1>1 DEF TaskType, LookedUp
<1> HIDE DEF next
<1>4. found \subseteq FoundFrom(d, Victim(t))
  <2>1. ASSUME NEW s \in Referring(v, k, Id(t))
        PROVE  s \in FoundFrom(d, Victim(t))
    <3>1. s \in Present(v) /\ s[1] = k /\ v[s].fk = Id(t) /\ k \in CascadeFields(t.model)
      BY <1>1 DEF Referring, DeleteFits
    <3>2. s \in Present(d) /\ d[s].fk = Id(t)
      BY <1>1, <3>1, ValuesAssumption DEF Reduces
    <3> QED
      BY <3>1, <3>2 DEF FoundFrom, CascadeFields, Victim
  <2> QED
    BY <1>1, <2>1 DEF DeleteFits
<1>5. Continues(T, next)
  BY <1>2, <1>3 DEF Continues
<1>6. Covers(v, next, rest)
  <2>1. SUFFICES ASSUME NEW s \in Present(v), s[1] \in CascadeFields(t.model) \ todo,
                        v[s].fk = Id(t)
                 PROVE  IF todo # {} THEN s \in found
                        ELSE \E x \in next : /\ x.kind = "delete" /\ x.model = s[1]
                                             /\ x.path = Append(t.path, s[2])
    BY <1>2 DEF Covers
  <2>2. s \in found
    BY <1>1, <2>1 DEF Referring, DeleteFits, Covers
  <2>3. CASE todo = {}
    <3>1. Task("delete", s[1], Append(t.path, s[2])) \in next
      BY <1>3, <2>2, <2>3
    <3> QED
      BY <2>3, <3>1 DEF Task
  <2> QED
    BY <2>2, <2>3
<1>7. DeleteFits(d, r, v, next, rest)
  <2>1. Victim(rest) = Victim(t) /\ rest.todo \subseteq CascadeFields(rest.model)
    BY <1>1, <1>2 DEF Victim, DeleteFits
  <2>2. rest.found \subseteq FoundFrom(d, Victim(rest))
    BY <1>2, <1>4, <2>1
  <2> HIDE DEF rest
  <2> QED
    BY <1>1, <1>2, <1>6, <2>1, <2>2 DEF DeleteFits
<1>8. ASSUME NEW s \in found
      PROVE  LET u == Task("delete", s[1], Append(t.path, s[2]))
             IN  u.kind = "delete" /\ DeleteFits(d, r, v, next, u)
  <2> DEFINE u == Task("delete", s[1], Append(t.path, s[2]))
  <2>1. s \in FoundFrom(d, Victim(t)) /\ s \in Slots /\ s = <<s[1], s[2]>> /\ s[2] \in Ids
    BY <1>4, SlotParts DEF FoundFrom, Present
  <2>2. /\ u.kind = "delete" /\ u.model = s[1] /\ u.path = Append(t.path, s[2])
        /\ u.todo = CascadeFields(s[1]) /\ u.found = {} /\ u.base = NoModel
    BY DEF Task
  <2> HIDE DEF u
  <2>3. Victim(u) = s
    BY <1>1, <2>1, <2>2, AppendedPath DEF Victim
  <2>4. Victim(u) \in Sought(d, r, {})
    BY <1>1, <2>1, <2>3, FoundIsSought DEF DeleteFits
  <2>5. Covers(v, next, u)
    BY <2>2 DEF Covers
  <2> QED
    BY <2>2, <2>4, <2>5 DEF DeleteFits, u
<1>9. ASSUME NEW x \in T, x.kind = "delete"
      PROVE  DeleteFits(d, r, v, next, x)
  BY <1>5, <1>9, WhatContinues DEF Going, DeleteFits
<1>10. \A x \in next : x.kind = "delete" \/ x \in T
  BY <1>2, <1>3, <1>8
<1>11. \A x \in next : x.kind = "delete" => DeleteFits(d, r, v, next, x)
  <2> HIDE DEF rest
  <2> QED
    BY <1>3, <1>7, <1>8, <1>9
<1>12. BasesFollow(d, r, v, next) /\ RootsGo(d, r, v, next)
  BY <1>5, WhatContinues DEF Going
<1>13. \A x \in next : (x.kind = "create") <=> (r.op = "createMany")
  BY <1>1, <1>10 DEF Going
<1> QED
  BY <1>1, <1>11, <1>12, <1>13 DEF Going, next

-----------------------------------------------------------------------------
(* Deleting a level. *)

\* What is seen after a row was deleted.
LEMMA AfterDelete ==
    ASSUME NEW v, IsView(v), NEW s \in Slots,
           NEW after, after = Over(v, DeleteRow(v, s))
    PROVE  /\ IsView(after)
           /\ Present(after) = Present(v) \ Swept(v, s)
           /\ \A x \in Present(after) : after[x].fk \in {v[x].fk, NoId}
<1> DEFINE gone == Swept(v, s)
           freed == {t \in Present(v) : <<Owner[t[1]], v[t].fk>> \in gone}
           w == DeleteRow(v, s)
<1>1. IsView(after)
  BY GoodDelete, GoodCommit DEF IsView
<1>2. /\ DOMAIN w = {u \in Present(v) : u \in gone \cup freed}
      /\ \A t \in DOMAIN w : w[t] = IF t \in gone THEN NoRow ELSE [v[t] EXCEPT !.fk = NoId]
  BY DEF DeleteRow
<1> HIDE DEF gone, freed, w
<1>3. \A x \in Slots : after[x] = IF x \in DOMAIN w THEN w[x] ELSE v[x]
  BY DEF Over, IsView, w
<1>4. ASSUME NEW x \in Present(v), x \notin gone
      PROVE  after[x] # NoRow /\ after[x].fk \in {v[x].fk, NoId}
  <2>1. x \in Slots /\ GoodRow(x, v[x]) /\ v[x] # NoRow /\ x[1] \in Models
    BY PresentRows, SlotParts
  <2>2. [v[x] EXCEPT !.fk = NoId] \in Row(x[1]) /\ [v[x] EXCEPT !.fk = NoId].fk = NoId
    BY <2>1 DEF GoodRow, Row
  <2>3. [v[x] EXCEPT !.fk = NoId] # NoRow
    BY <2>1, <2>2, ValuesAssumption
  <2> QED
    BY <1>2, <1>3, <1>4, <2>1, <2>2, <2>3
<1>5. ASSUME NEW x \in Slots, x \notin Present(v) \/ x \in gone
      PROVE  after[x] = NoRow
  BY <1>2, <1>3, <1>5 DEF Present
<1>6. Present(after) = Present(v) \ gone
  BY <1>4, <1>5 DEF Present
<1> QED
  BY <1>1, <1>4, <1>6 DEF gone

\* Of a transaction that only deletes, what is directly below a row was so from
\* the beginning.
LEMMA ReducedBelow ==
    ASSUME NEW v, NEW d, Reduces(v, d), NEW s \in Slots
    PROVE  DirectlyBelow(v, s) \subseteq DirectlyBelow(d, s)
BY SlotParts, ValuesAssumption DEF DirectlyBelow, Reduces

\* What is directly below one of the rows taken is taken.
LEMMA TakenIsClosed ==
    ASSUME NEW v, NEW d, NEW r, Reduces(v, d), NEW s \in Taken(d, r), NEW u \in DirectlyBelow(v, s)
    PROVE  u \in Taken(d, r)
<1>1. PICK o \in Overlooked(d, r, {}) : s \in Swept(d, o)
  BY DEF Taken
<1>2. o \in Slots
  BY DEF Overlooked, Present
<1>3. s \in Slots /\ DirectlyBelow(d, s) \subseteq Swept(d, o)
  BY <1>1, <1>2, SweptIsLeast DEF Closed
<1> QED
  BY <1>1, <1>3, ReducedBelow DEF Taken

LEMMA OverlookedIsTaken ==
    ASSUME NEW d, NEW r, NEW s \in Overlooked(d, r, {})
    PROVE  s \in Taken(d, r)
BY SweptIsLeast DEF Taken, Overlooked, Present

\* When the deletes that t waits for are done, no row that t should have found
\* refers to its entity: one that does was overlooked.
LEMMA NoneIsMissed ==
    ASSUME NEW d, NEW r, NEW v, NEW T, IsView(v), Going(d, r, v, T),
           \A t \in T : TaskFits(t, r),
           NEW t \in T, t.kind = "delete", t.todo = {},
           \A k \in T : ~(Len(k.path) = Len(t.path) + 1 /\ SubSeq(k.path, 1, Len(t.path)) = t.path),
           NEW u \in Present(v), OnDelete[u[1]] = "Cascade", v[u].fk = Id(t)
    PROVE  u \in Taken(d, r)
<1>1. /\ DeleteFits(d, r, v, T, t) /\ Reduces(v, d)
      /\ t.path \in Seq(Ids) /\ t.model \in Models /\ Id(t) \in Ids
  BY TaskParts DEF Going
<1>2. u \in Present(d) /\ d[u].fk = Id(t) /\ u[2] \in Ids
  BY <1>1, SlotParts, ValuesAssumption DEF Reduces, Present
<1>3. u \notin FoundFrom(d, Victim(t))
  <2>1. SUFFICES ASSUME u \in FoundFrom(d, Victim(t)) PROVE FALSE
    OBVIOUS
  <2>2. u[1] \in CascadeFields(t.model)
    BY <2>1, SlotParts DEF FoundFrom, CascadeFields, Victim, Present
  <2>3. PICK k \in T : k.path = Append(t.path, u[2])
    BY <1>1, <2>2 DEF DeleteFits, Covers
  <2> QED
    BY <1>1, <1>2, <2>3, AppendedPath
<1>4. u \in Overlooked(d, r, {})
  BY <1>1, <1>2, <1>3 DEF Overlooked, DeleteFits, Victim
<1> QED
  BY <1>4, OverlookedIsTaken

LEMMA DeleteGoes ==
    ASSUME NEW d, NEW r, NEW v, NEW T, IsView(v), Going(d, r, v, T),
           \A t \in T : TaskFits(t, r),
           NEW t \in T, t.kind = "delete", t.todo = {},
           \A k \in T : ~(Len(k.path) = Len(t.path) + 1 /\ SubSeq(k.path, 1, Len(t.path)) = t.path),
           NEW level, level = IF t.base = NoModel THEN t.model ELSE t.base,
           <<level, Id(t)>> \in Present(v),
           NEW after, after = Over(v, DeleteRow(v, <<level, Id(t)>>)),
           NEW next, next = (T \ {t}) \cup IF Base[level] = NoModel THEN {}
                                           ELSE {[t EXCEPT !.base = Base[level]]}
    PROVE  Going(d, r, after, next)
<1> DEFINE s == <<level, Id(t)>>
           gone == Swept(v, s)
           rest == [t EXCEPT !.base = Base[level]]
           last == Base[level] = NoModel
<1>1. /\ t \in TaskType /\ t.model \in Models /\ t.path \in Seq(Ids) /\ Id(t) \in Ids
      /\ DeleteFits(d, r, v, T, t) /\ r.op # "createMany" /\ Reduces(v, d) /\ Attached(v)
  BY TaskParts DEF Going, TaskFits
<1>2. /\ rest.kind = "delete" /\ rest.model = t.model /\ rest.path = t.path
      /\ rest.base = Base[level] /\ rest.todo = {} /\ rest.found = t.found /\ Id(rest) = Id(t)
  BY <1>1 DEF TaskType, Id
<1>3. s \in Slots /\ level \in Models /\ s \in Present(v)
  BY SlotParts DEF Present
<1>4. /\ IsView(after)
      /\ Present(after) = Present(v) \ gone
      /\ \A x \in Present(after) : after[x].fk \in {v[x].fk, NoId}
  BY <1>3, AfterDelete
<1>5. /\ s \in gone /\ gone \subseteq Slots
      /\ \A x \in gone : DirectlyBelow(v, x) \subseteq gone
      /\ \A S : s \in S /\ Closed(v, S) => gone \subseteq S
      /\ \A u \in gone : u # s => \E x \in gone : u \in DirectlyBelow(v, x)
  BY <1>3, SweptIsLeast, SweptFromAbove DEF Closed
<1> HIDE DEF gone, rest
<1> DEFINE mine == {x \in Slots : x[2] = Id(t)}
<1>6. ASSUME NEW x \in mine \cup Taken(d, r), NEW u \in DirectlyBelow(v, x)
      PROVE  u \in Taken(d, r) \/ (u \in mine /\ u[2] = x[2] /\ Base[u[1]] = x[1])
  <2>1. CASE x \in Taken(d, r)
    BY <1>1, <2>1, TakenIsClosed
  <2>2. CASE x \in mine /\ u \in Present(v) /\ u[2] = x[2] /\ Base[u[1]] = x[1]
    BY <2>2 DEF Present
  <2>3. CASE x \in mine /\ u \in Present(v) /\ OnDelete[u[1]] = "Cascade" /\ v[u].fk = x[2]
    BY <2>3, NoneIsMissed
  <2> QED
    BY <2>1, <2>2, <2>3 DEF DirectlyBelow
<1>7. gone \subseteq mine \cup Taken(d, r)
  <2>1. s \in mine \cup Taken(d, r)
    BY <1>3
  <2>2. Closed(v, mine \cup Taken(d, r))
    <3>1. ASSUME NEW x \in mine \cup Taken(d, r), NEW u \in DirectlyBelow(v, x)
          PROVE  u \in mine \cup Taken(d, r)
      BY <1>6, <3>1
    <3> QED
      BY <3>1 DEF Closed
  <2> QED
    BY <1>5, <2>1, <2>2
<1>8. Reduces(after, d)
  BY <1>1, <1>4 DEF Reduces
<1>9. Attached(after)
  <2>1. ASSUME NEW x \in Present(after), Base[x[1]] # NoModel
        PROVE  <<Base[x[1]], x[2]>> \in Present(after)
    <3> DEFINE b == <<Base[x[1]], x[2]>>
    <3>1. x \in Present(v) /\ x \notin gone /\ b \in Present(v)
      BY <1>1, <1>4, <2>1 DEF Attached
    <3>2. x \in DirectlyBelow(v, b)
      BY <3>1 DEF DirectlyBelow
    <3> QED
      BY <1>4, <1>5, <3>1, <3>2
  <2> QED
    BY <2>1 DEF Attached
<1>10. \A x \in T \ {t} : x \in next
  OBVIOUS
<1>11. ~last => rest \in next
  BY DEF rest
<1>12. \A x \in next : (x = rest /\ ~last) \/ x \in T \ {t}
  BY DEF rest
\* the levels that are gone when the task's base is not followed any more
<1>13. \A l \in Lineage[t.model] \ Lineage[level] : <<l, Id(t)>> \notin Present(v)
  BY <1>1 DEF DeleteFits
<1>14. /\ level \in Lineage[t.model] /\ level \in Lineage[level]
       /\ last => Lineage[level] = {level}
       /\ ~last => /\ Base[level] \in Lineage[t.model]
                   /\ Lineage[level] = {level} \cup Lineage[Base[level]]
                   /\ t.model \notin Lineage[Base[level]]
  <2>1. level \in Lineage[t.model] /\ level \in Lineage[level]
    BY <1>1, <1>3, LineageIsLeast DEF DeleteFits
  <2>2. last => Lineage[level] = {level}
    BY <1>3, LineageUnfolds
  <2>3. ASSUME ~last
        PROVE  /\ Base[level] \in Lineage[t.model]
               /\ Lineage[level] = {level} \cup Lineage[Base[level]]
               /\ t.model \notin Lineage[Base[level]]
    <3>1. Lineage[level] = {level} \cup Lineage[Base[level]] /\ Base[level] \in Lineage[t.model]
      BY <1>1, <1>3, <2>1, <2>3, LineageUnfolds, LineageIsLeast
    <3>2. level \notin Lineage[Base[level]]
      BY <1>3, <2>3, NoCycles
    <3> QED
      BY <1>1, <3>1, <3>2 DEF DeleteFits
  <2> QED
    BY <2>1, <2>2, <2>3
<1>15. ASSUME NEW l \in Lineage[t.model], l \in Lineage[Base[level]] => last
       PROVE  <<l, Id(t)>> \notin Present(after)
  BY <1>4, <1>5, <1>13, <1>14, <1>15
<1>16. Victim(t) \in Slots
  BY <1>1, <1>3 DEF DeleteFits, Victim
<1>17. ASSUME NEW x \in Present(after), NEW k \in T, k.kind = "delete",
              k.model = x[1], Id(k) = x[2]
       PROVE  \E y \in next : y.kind = "delete" /\ y.model = k.model /\ y.path = k.path
  <2>1. CASE k # t
    BY <1>10, <1>17, <2>1
  <2>2. CASE k = t /\ ~last
    BY <1>2, <1>11, <2>2
  <2>3. CASE k = t /\ last
    <3>1. x = <<t.model, Id(t)>>
      BY <1>17, <2>3, SlotParts DEF Present
    <3> QED
      BY <1>1, <1>15, <2>3, <3>1, LineageIsLeast
  <2> QED
    BY <2>1, <2>2, <2>3
<1>18. ASSUME NEW x \in T, x.kind = "delete"
       PROVE  Covers(after, next, x)
  <2>1. DeleteFits(d, r, v, T, x) /\ Id(x) \in Ids /\ x.path \in Seq(Ids)
    BY <1>18, TaskParts DEF Going
  <2>2. SUFFICES ASSUME NEW u \in Present(after), u[1] \in CascadeFields(x.model) \ x.todo,
                        after[u].fk = Id(x)
                 PROVE  IF x.todo # {} THEN u \in x.found
                        ELSE \E y \in next : /\ y.kind = "delete" /\ y.model = u[1]
                                             /\ y.path = Append(x.path, u[2])
    BY DEF Covers
  <2>3. u \in Present(v) /\ v[u].fk = Id(x) /\ u[2] \in Ids
    BY <1>4, <2>1, <2>2, SlotParts, ValuesAssumption DEF Present
  <2>4. CASE x.todo # {}
    BY <2>1, <2>2, <2>3, <2>4 DEF DeleteFits, Covers
  <2>5. CASE x.todo = {}
    <3>1. PICK k \in T : /\ k.kind = "delete" /\ k.model = u[1]
                         /\ k.path = Append(x.path, u[2])
      BY <2>1, <2>2, <2>3, <2>5 DEF DeleteFits, Covers
    <3>2. Id(k) = u[2]
      BY <2>1, <2>3, <3>1, AppendedPath
    <3> QED
      BY <1>17, <2>5, <3>1, <3>2
  <2> QED
    BY <2>4, <2>5
<1>19. ASSUME NEW x \in T \ {t}, x.kind = "delete"
       PROVE  DeleteFits(d, r, after, next, x)
  <2>1. DeleteFits(d, r, v, T, x) /\ Covers(after, next, x)
    BY <1>18, <1>19 DEF Going
  <2> QED
    BY <1>4, <2>1 DEF DeleteFits
<1>20. ASSUME ~last
       PROVE  DeleteFits(d, r, after, next, rest)
  <2>1. Covers(after, next, rest)
    BY <1>2, <1>18 DEF Covers
  <2>2. /\ Victim(rest) = Victim(t) /\ rest.todo = t.todo /\ rest.found = t.found
        /\ rest.base \in Lineage[rest.model] /\ rest.model \notin Lineage[rest.base]
    BY <1>2, <1>14, <1>20 DEF Victim
  <2>3. \A l \in Lineage[rest.model] \ Lineage[rest.base] : <<l, Id(rest)>> \notin Present(after)
    BY <1>2, <1>15
  <2> QED
    BY <1>1, <1>2, <1>16, <2>1, <2>2, <2>3 DEF DeleteFits
<1>21. BasesFollow(d, r, after, next)
  <2>1. SUFFICES ASSUME NEW x \in Present(d) \ Present(after), Base[x[1]] # NoModel,
                        x \notin Taken(d, r), <<Base[x[1]], x[2]>> \in Present(after)
                 PROVE  \E y \in next : y.kind = "delete" /\ y.base = Base[x[1]] /\ Id(y) = x[2]
    BY DEF BasesFollow
  <2> DEFINE b == <<Base[x[1]], x[2]>>
  <2>2. b \in Present(v) /\ b \notin gone
    BY <1>4, <2>1
  <2>3. CASE x \notin Present(v)
    <3>1. PICK k \in T : k.kind = "delete" /\ k.base = Base[x[1]] /\ Id(k) = x[2]
      BY <2>1, <2>2, <2>3 DEF Going, BasesFollow
    <3>2. k # t
      BY <1>5, <2>1, <2>2, <3>1
    <3> QED
      BY <1>10, <3>1, <3>2
  <2>4. CASE x = s
    BY <1>2, <1>11, <2>1, <2>4
  <2>5. CASE x \in gone /\ x # s
    <3>1. PICK y \in gone : x \in DirectlyBelow(v, y)
      BY <1>5, <2>5
    <3>2. x[2] = y[2] /\ Base[x[1]] = y[1]
      BY <1>6, <1>7, <2>1, <3>1
    <3>3. y = b
      BY <1>5, <3>2, SlotParts
    <3> QED
      BY <2>2, <3>1, <3>3
  <2> QED
    BY <1>4, <2>1, <2>3, <2>4, <2>5
<1>22. RootsGo(d, r, after, next)
  <2>1. SUFFICES ASSUME NEW y \in Roots(d, r),
                        ~ \E x \in next : x.kind = "delete" /\ x.model = y[1] /\ x.path = <<y[2]>>
                 PROVE  y \in Slots /\ \A l \in Lineage[y[1]] : <<l, y[2]>> \notin Present(after)
    BY DEF RootsGo
  <2>2. CASE y \in Slots /\ \A l \in Lineage[y[1]] : <<l, y[2]>> \notin Present(v)
    BY <1>4, <2>2
  <2>3. CASE \E k \in T : k.kind = "delete" /\ k.model = y[1] /\ k.path = <<y[2]>>
    <3>1. last /\ t.model = y[1] /\ t.path = <<y[2]>>
      BY <1>2, <1>10, <1>11, <2>1, <2>3
    <3>2. Id(t) = y[2]
      BY <3>1 DEF Id
    <3>3. \A l \in Lineage[y[1]] : <<l, y[2]>> \notin Present(after)
      BY <1>15, <3>1, <3>2
    <3>4. y \in Slots
      <4>1. y = <<y[1], y[2]>>
        BY SlotParts DEF Roots, Referring, Present
      <4> QED
        BY <1>16, <3>1, <3>2, <4>1 DEF Victim
    <3> QED
      BY <3>3, <3>4
  <2> QED
    BY <2>2, <2>3 DEF Going, RootsGo
<1>23. \A x \in next : (x.kind = "create") <=> (r.op = "createMany")
  BY <1>1, <1>2, <1>12 DEF Going
<1>24. \A x \in next : x.kind = "delete" => DeleteFits(d, r, after, next, x)
  BY <1>12, <1>19, <1>20
<1> QED
  BY <1>1, <1>8, <1>9, <1>21, <1>22, <1>23, <1>24 DEF Going

-----------------------------------------------------------------------------
(* The other statements of a transaction, its first and its last.           *)

LEMMA AfterChange ==
    ASSUME NEW v, IsView(v), NEW w, Changes(v, w), NEW after, after = Over(v, w)
    PROVE  /\ IsView(after) /\ Present(after) = Present(v)
           /\ \A s \in Present(v) : after[s].fk = v[s].fk
<1>1. \A s \in DOMAIN w : s \in Slots /\ GoodRow(s, w[s])
  BY DEF Changes, Present
<1>2. IsView(after)
  BY <1>1, GoodCommit DEF IsView, GoodRows
<1>3. \A s \in Slots : after[s] = IF s \in DOMAIN w THEN w[s] ELSE v[s]
  BY DEF Over, IsView
<1>4. \A s \in DOMAIN w : w[s] # NoRow
  BY <1>1, SlotParts, ValuesAssumption DEF GoodRow
<1> QED
  BY <1>2, <1>3, <1>4 DEF Present, Changes

LEMMA AfterCreate ==
    ASSUME NEW v, IsView(v), NEW X \in SUBSET Item, \A x \in X : x.model = Kind[x.id],
           CanCreate(v, X), NEW after, after = Over(v, CreateRows(X))
    PROVE  IsView(after) /\ Grows(after, v) /\ (Attached(v) => Attached(after))
<1> DEFINE w == CreateRows(X)
<1>1. /\ GoodRows(w) /\ DOMAIN w = UNION {SlotsOf(x.id) : x \in X}
      /\ \A s \in DOMAIN w : GoodRow(s, w[s])
  BY GoodCreate
<1>2. DOMAIN w \cap Present(v) = {}
  BY DEF CanCreate
<1> HIDE DEF w
<1>3. IsView(after)
  BY <1>1, GoodCommit DEF IsView, w
<1>4. \A s \in Slots : after[s] = IF s \in DOMAIN w THEN w[s] ELSE v[s]
  BY DEF Over, IsView, w
<1>5. \A s \in DOMAIN w : s \in Slots /\ w[s] # NoRow
  BY <1>1, SlotParts, ValuesAssumption DEF GoodRow, SlotsOf
<1>6. Present(after) = Present(v) \cup DOMAIN w
  BY <1>4, <1>5 DEF Present
<1>7. ASSUME NEW s \in DOMAIN w
      PROVE  SlotsOf(s[2]) \subseteq DOMAIN w
  BY <1>1 DEF SlotsOf
<1>8. Grows(after, v)
  BY <1>6, <1>7 DEF Grows, Whole
<1>9. ASSUME Attached(v), NEW s \in Present(after), Base[s[1]] # NoModel
      PROVE  <<Base[s[1]], s[2]>> \in Present(after)
  <2>1. CASE s \in Present(v)
    BY <1>6, <1>9, <2>1 DEF Attached
  <2>2. CASE s \in DOMAIN w
    <3>1. s \in Slots /\ s[1] \in Models /\ s[2] \in Ids /\ s[1] \in Lineage[Kind[s[2]]]
      BY <1>5, <2>2, SlotParts
    <3>2. Base[s[1]] \in Models /\ Base[s[1]] \in Lineage[Kind[s[2]]]
      BY <1>9, <3>1, LineageIsLeast, ConstantsAssumption
    <3>3. <<Base[s[1]], s[2]>> \in SlotsOf(s[2])
      BY <3>1, <3>2, SlotParts DEF SlotsOf
    <3> QED
      BY <1>6, <1>7, <2>2, <3>3
  <2> QED
    BY <1>6, <2>1, <2>2
<1> QED
  BY <1>3, <1>8, <1>9 DEF Attached

LEMMA StartGoes ==
    ASSUME NEW d, Attached(d), NEW r, NEW T,
           \A t \in T : (t.kind = "create") <=> (r.op = "createMany"),
           \A t \in T : t.kind = "delete" =>
               /\ Victim(t) \in Roots(d, r) /\ t.found = {}
               /\ t.todo = CascadeFields(t.model) /\ t.base = NoModel,
           RootsGo(d, r, d, T)
    PROVE  Going(d, r, d, T)
<1>1. IF r.op = "createMany" THEN Grows(d, d) ELSE Reduces(d, d)
  BY DEF Grows, Reduces
<1>2. ASSUME NEW t \in T, t.kind = "delete"
      PROVE  DeleteFits(d, r, d, T, t)
  BY <1>2, RootIsSought DEF DeleteFits, Covers
<1>3. BasesFollow(d, r, d, T)
  BY DEF BasesFollow
<1> QED
  BY <1>1, <1>2, <1>3 DEF Going

LEMMA ChangeGoes ==
    ASSUME NEW d, NEW r, NEW v, NEW T, Going(d, r, v, T),
           NEW after, Present(after) = Present(v), \A s \in Present(v) : after[s].fk = v[s].fk,
           NEW next \in SUBSET T, \A t \in T : t.kind = "delete" => t \in next
    PROVE  Going(d, r, after, next)
<1>1. Continues(T, next)
  BY DEF Continues
<1>2. IF r.op = "createMany" THEN Grows(after, d) ELSE Reduces(after, d)
  BY DEF Going, Grows, Reduces, Whole
<1>3. Attached(after)
  BY DEF Going, Attached
<1>4. BasesFollow(d, r, v, next) /\ RootsGo(d, r, v, next) /\ \A t : Covers(v, T, t) => Covers(v, next, t)
  BY <1>1, WhatContinues DEF Going
<1>5. BasesFollow(d, r, after, next)
  BY <1>4 DEF BasesFollow
<1>6. RootsGo(d, r, after, next)
  BY <1>4 DEF RootsGo
<1>7. ASSUME NEW t \in next, t.kind = "delete"
      PROVE  DeleteFits(d, r, after, next, t)
  <2>1. DeleteFits(d, r, v, T, t)
    BY <1>7 DEF Going
  <2>2. Covers(v, next, t)
    BY <1>4, <2>1 DEF DeleteFits
  <2>3. Covers(after, next, t)
    BY <2>2 DEF Covers
  <2> QED
    BY <2>1, <2>3 DEF DeleteFits
<1>8. \A t \in next : (t.kind = "create") <=> (r.op = "createMany")
  BY DEF Going
<1> QED
  BY <1>2, <1>3, <1>5, <1>6, <1>7, <1>8 DEF Going

LEMMA CreateGoes ==
    ASSUME NEW d, NEW r, NEW v, NEW T, Going(d, r, v, T), r.op = "createMany",
           NEW after, Grows(after, v), Attached(after), NEW next \in SUBSET T
    PROVE  Going(d, r, after, next)
<1>1. Grows(v, d)
  BY DEF Going
<1>2. Grows(after, d)
  BY <1>1 DEF Grows, Whole
<1>3. \A t \in next : (t.kind = "create") <=> (r.op = "createMany")
  BY DEF Going
<1>4. BasesFollow(d, r, after, next)
  BY <1>2 DEF Grows, BasesFollow
<1>5. RootsGo(d, r, after, next)
  BY DEF RootsGo, Roots
<1> QED
  BY <1>2, <1>3, <1>4, <1>5 DEF Going

\* What the discriminator of an orphan names.
LEMMA OrphanIs ==
    ASSUME NEW v, IsView(v), NEW i \in Ids, Orphan(v, i)
    PROVE  \E s \in SlotsOf(i) \cap Present(v) :
              LET k == Discriminator(Kind[i], s[1])
              IN  <<k, i>> \in Slots \ Present(v) /\ Base[k] = s[1] /\ k # NoModel
<1>1. PICK s \in SlotsOf(i) \cap Present(v) : v[s].sub # NoModel /\ v[<<v[s].sub, i>>] = NoRow
  BY DEF Orphan
<1>2. /\ s \in Slots /\ s[2] = i /\ s[1] \in Models /\ s[1] \in Lineage[Kind[i]]
      /\ GoodRow(s, v[s])
  BY <1>1, PresentRows, SlotParts DEF SlotsOf
<1> DEFINE k == Discriminator(Kind[i], s[1])
<1>3. v[s].sub = k /\ k # NoModel
  BY <1>1, <1>2 DEF GoodRow
<1>4. Kind[i] \in Models
  BY ConstantsAssumption
<1>5. k \in {x \in Lineage[Kind[i]] : Base[x] = s[1]} \cup {NoModel}
  BY <1>2, <1>4, DiscriminatorNamesLevelBelow
<1>6. k \in Lineage[Kind[i]] /\ Base[k] = s[1] /\ k \in Models
  BY <1>3, <1>4, <1>5, LineageIsLeast
<1>7. <<k, i>> \in Slots /\ <<k, i>> \notin Present(v)
  BY <1>1, <1>3, <1>6, SlotParts DEF Present
<1> QED
  BY <1>1, <1>3, <1>6, <1>7

LEMMA IsOrphan ==
    ASSUME NEW v, IsView(v), NEW i \in Ids, NEW s \in SlotsOf(i) \cap Present(v),
           Discriminator(Kind[i], s[1]) # NoModel,
           <<Discriminator(Kind[i], s[1]), i>> \in Slots \ Present(v)
    PROVE  Orphan(v, i)
BY PresentRows DEF Orphan, GoodRow, SlotsOf, Present

\* Creates and updates make no orphan.
LEMMA GrowingKeepsWhole ==
    ASSUME NEW d, IsView(d), NEW v, IsView(v), Grows(v, d), NEW i \in Ids, Orphan(v, i)
    PROVE  Orphan(d, i)
<1>1. PICK s \in SlotsOf(i) \cap Present(v) :
         LET k == Discriminator(Kind[i], s[1])
         IN  <<k, i>> \in Slots \ Present(v) /\ Base[k] = s[1] /\ k # NoModel
  BY OrphanIs
<1> DEFINE k == Discriminator(Kind[i], s[1])
<1>2. s[2] = i /\ <<k, i>> \in SlotsOf(i)
  BY <1>1 DEF SlotsOf
<1>3. s \in Present(d) /\ <<k, i>> \notin Present(d)
  BY <1>1, <1>2 DEF Grows, Whole
<1> QED
  BY <1>1, <1>3, IsOrphan

\* When nothing is left to do: the orphans left behind are entities of which the
\* database took a row that the code overlooked, and no row is left of those the
\* call was to delete.
LEMMA EndIsComplete ==
    ASSUME NEW d, IsView(d), NEW v, IsView(v), NEW r, Going(d, r, v, {})
    PROVE  /\ \A i \in Ids : Orphan(v, i) /\ ~Orphan(d, i) =>
                \E s \in Overlooked(d, r, {}) : SlotsOf(i) \cap Swept(d, s) # {}
           /\ \A y \in Roots(d, r) : SlotsOf(y[2]) \cap Present(v) = {}
<1>1. ASSUME NEW i \in Ids, Orphan(v, i), ~Orphan(d, i)
      PROVE  \E s \in Overlooked(d, r, {}) : SlotsOf(i) \cap Swept(d, s) # {}
  <2>1. r.op # "createMany" /\ Reduces(v, d)
    BY <1>1, GrowingKeepsWhole DEF Going
  <2>2. PICK s \in SlotsOf(i) \cap Present(v) :
           LET k == Discriminator(Kind[i], s[1])
           IN  <<k, i>> \in Slots \ Present(v) /\ Base[k] = s[1] /\ k # NoModel
    BY <1>1, OrphanIs
  <2> DEFINE k == Discriminator(Kind[i], s[1])
  <2>3. s = <<Base[k], i>> /\ s \in Present(d) /\ Base[k] # NoModel
    BY <2>1, <2>2, SlotParts, ConstantsAssumption DEF Reduces, SlotsOf
  <2>4. <<k, i>> \in Present(d)
    BY <1>1, <2>2, <2>3, IsOrphan
  <2>5. <<k, i>> \in Taken(d, r)
    BY <2>2, <2>3, <2>4 DEF Going, BasesFollow
  <2>6. <<k, i>> \in SlotsOf(i)
    BY <2>2 DEF SlotsOf
  <2> QED
    BY <2>5, <2>6 DEF Taken
<1>2. ASSUME NEW y \in Roots(d, r), NEW x \in SlotsOf(y[2]), x \in Present(v)
      PROVE  FALSE
  <2>1. y \in Slots /\ \A l \in Lineage[y[1]] : <<l, y[2]>> \notin Present(v)
    BY DEF Going, RootsGo
  <2>2. /\ x = <<x[1], y[2]>> /\ x[1] \in Models /\ y[1] \in Models /\ Kind[y[2]] \in Models
        /\ x[1] \in Lineage[Kind[y[2]]] /\ y[1] \in Lineage[Kind[y[2]]]
    BY <1>2, <2>1, SlotParts, ConstantsAssumption DEF SlotsOf
  <2>3. y[1] \in Lineage[x[1]]
    BY <1>2, <2>1, <2>2, LineageIsChain
  <2> DEFINE S == {l \in Lineage[x[1]] : <<l, y[2]>> \in Present(v)}
  <2>4. S \in SUBSET Models /\ x[1] \in S
    BY <1>2, <2>2, LineageIsLeast
  <2>5. ASSUME NEW l \in S, Base[l] # NoModel
        PROVE  Base[l] \in S
    BY <2>2, <2>5, LineageIsLeast DEF Going, Attached
  <2> HIDE DEF S
  <2>6. Lineage[x[1]] \subseteq S
    BY <2>2, <2>4, <2>5, LineageIsLeast
  <2> QED
    BY <2>1, <2>2, <2>3, <2>6, LineageIsLeast DEF S
<1> QED
  BY <1>1, <1>2

-----------------------------------------------------------------------------
(* Serializable transactions one after the other. *)

Untouched(c) == \A s \in Slots : wr[c][s] = Clean

SerialInv ==
    /\ isolation = "Serializable"
    /\ Attached(db)
    /\ \A c \in Clients : late[c] = {}
    /\ \A c, e \in Clients : pc[c] # "idle" /\ pc[e] # "idle" => c = e
    /\ \A c \in Clients : IF pc[c] \in {"idle", "find"} THEN Untouched(c)
                          ELSE Going(db, req[c], View(c), tasks[c])

LEMMA ViewIsView ==
    ASSUME IInv, NEW c \in Clients
    PROVE  /\ IsView(db) /\ IsView(View(c))
           /\ Untouched(c) => /\ Present(View(c)) = Present(db)
                              /\ \A s \in Present(db) : View(c)[s].fk = db[s].fk
<1>1. IsView(db) /\ IsView(View(c))
  BY GoodView DEF IsView, IInv
<1>2. ASSUME Untouched(c)
      PROVE  /\ Present(View(c)) = Present(db)
             /\ \A s \in Present(db) : View(c)[s].fk = db[s].fk
  BY <1>2 DEF Untouched, View, Present
<1> QED
  BY <1>1, <1>2

LEMMA ViewAfter ==
    ASSUME IInv, NEW c \in Clients, NEW w, GoodRows(w),
           wr' = [wr EXCEPT ![c] = Over(@, w)], db' = db
    PROVE  View(c)' = Over(View(c), w)
<1>1. wr'[c] = Over(wr[c], w) /\ DOMAIN wr[c] = Slots
  BY DEF IInv, GoodWrites
<1>2. \A s \in DOMAIN w : s \in Slots /\ w[s] # Clean
  BY SlotParts, ValuesAssumption DEF GoodRows, GoodRow
<1>3. ASSUME NEW s \in Slots
      PROVE  (IF wr'[c][s] = Clean THEN db'[s] ELSE wr'[c][s])
                = IF s \in DOMAIN w THEN w[s] ELSE View(c)[s]
  BY <1>1, <1>2 DEF Over, View
<1> QED
  BY <1>3 DEF View, Over

\* A step of the caller whose transaction is open.
LEMMA SerialStep ==
    ASSUME IInv, SerialInv, NEW c \in Clients, pc[c] # "idle",
           UNCHANGED <<db, isolation, req, late>>,
           \A e \in Clients \ {c} : pc'[e] = pc[e] /\ wr'[e] = wr[e],
           pc'[c] \notin {"idle", "find"},
           Going(db, req[c], View(c)', tasks'[c])
    PROVE  SerialInv'
<1>1. \A e \in Clients \ {c} : pc'[e] = "idle" /\ Untouched(e)'
  BY DEF SerialInv, Untouched
<1> QED
  BY <1>1 DEF SerialInv

LEMMA SerialClose ==
    ASSUME IInv, SerialInv, NEW c \in Clients, pc[c] # "idle", Close(c),
           Attached(db'), \A e \in Clients : late'[e] = {}
    PROVE  SerialInv'
<1>1. \A e \in Clients : pc'[e] = "idle" /\ Untouched(e)'
  <2>1. ASSUME NEW e \in Clients
        PROVE  pc'[e] = "idle" /\ Untouched(e)'
    <3>1. CASE e = c
      BY <3>1 DEF Close, IInv, Untouched
    <3>2. CASE e # c
      BY <3>2 DEF Close, IInv, SerialInv, Untouched
    <3> QED
      BY <3>1, <3>2
  <2> QED
    BY <2>1
<1> QED
  BY <1>1 DEF SerialInv, Close

LEMMA SerialAbort ==
    ASSUME IInv, SerialInv, NEW c \in Clients, pc[c] # "idle", Abort(c)
    PROVE  SerialInv'
BY SerialClose DEF Abort, SerialInv, IInv

LEMMA SerialRun ==
    ASSUME IInv, SerialInv, NEW c \in Clients, pc[c] = "tasks",
           NEW possible \in BOOLEAN, NEW w, NEW rest, Run(c, possible, w, rest),
           possible => GoodRows(w) /\ Going(db, req[c], Over(View(c), w), rest)
    PROVE  SerialInv'
<1>1. CASE Abort(c)
  BY <1>1, SerialAbort
<1>2. CASE /\ possible
           /\ wr' = [wr EXCEPT ![c] = Over(@, w)]
           /\ tasks' = [tasks EXCEPT ![c] = rest]
           /\ UNCHANGED <<db, isolation, pc, req, late>>
  <2>1. View(c)' = Over(View(c), w)
    BY <1>2, ViewAfter
  <2>2. tasks'[c] = rest /\ \A e \in Clients \ {c} : pc'[e] = pc[e] /\ wr'[e] = wr[e]
    BY <1>2 DEF IInv
  <2> QED
    BY <1>2, <2>1, <2>2, SerialStep
<1> QED
  BY <1>1, <1>2 DEF Run

\* A call of one statement that neither deletes rows nor makes orphans.
LEMMA SerialStatement ==
    ASSUME IInv, SerialInv, NEW c \in Clients, NEW w, MayRun(c), Apply(c, w),
           UNCHANGED <<isolation, pc, req, wr, tasks>>,
           IsView(Over(db, w)), Attached(Over(db, w)), Grows(Over(db, w), db)
    PROVE  SerialInv' /\ \A i \in Ids : Orphan(db', i) => Orphan(db, i)
<1>1. \A e \in Clients : pc[e] = "idle"
  BY DEF MayRun, SerialInv
<1>2. db' = Over(db, w) /\ \A e \in Clients : late'[e] = {}
  BY <1>1 DEF Apply
<1>3. \A e \in Clients : pc'[e] = "idle" /\ Untouched(e)'
  BY <1>1 DEF SerialInv, Untouched
<1>4. SerialInv'
  BY <1>2, <1>3 DEF SerialInv
<1>5. IsView(db)
  BY DEF IInv, IsView
<1> QED
  BY <1>2, <1>4, <1>5, GrowingKeepsWhole

LEMMA SerialCreate ==
    ASSUME IInv, SerialInv, NEW c \in Clients, NEW r \in Menu[c], Create(c, r)
    PROVE  SerialInv' /\ \A i \in Ids : Orphan(db', i) => Orphan(db, i)
<1>1. /\ r.items \in SUBSET Item /\ \A x \in r.items : x.model = Kind[x.id]
      /\ IsView(db) /\ Attached(db) /\ CanCreate(db, r.items)
  BY MenuFits, RequestFields DEF Create, Fits, IInv, IsView, SerialInv
<1>2. LET after == Over(db, CreateRows(r.items))
      IN  IsView(after) /\ Grows(after, db) /\ Attached(after)
  BY <1>1, AfterCreate
<1> QED
  BY <1>2, SerialStatement DEF Create

LEMMA SerialUpsert ==
    ASSUME IInv, SerialInv, NEW c \in Clients, NEW r \in Menu[c], Upsert(c, r)
    PROVE  SerialInv' /\ \A i \in Ids : Orphan(db', i) => Orphan(db, i)
<1> DEFINE x == r.item
           exists == <<x.model, x.id>> \in Present(db)
           w == IF exists THEN UpdateRows(db, x.model, x.id, r.levels) ELSE CreateRows({x})
<1>1. /\ x \in Item /\ x.model = Kind[x.id]
      /\ x.model \in Models /\ x.id \in Ids /\ r.levels \in SUBSET Lineage[x.model]
      /\ IsView(db) /\ Attached(db)
  BY MenuFits, RequestFields DEF Upsert, Fits, Item, IInv, IsView, SerialInv
<1>2. /\ Apply(c, w) /\ MayRun(c) /\ UNCHANGED <<isolation, pc, req, wr, tasks>>
      /\ IF exists THEN CanUpdate(db, x.model, x.id) ELSE CanCreate(db, {x})
  BY DEF Upsert
<1>3. IsView(Over(db, w)) /\ Grows(Over(db, w), db) /\ Attached(Over(db, w))
  <2>1. CASE exists
    <3> DEFINE u == UpdateRows(db, x.model, x.id, r.levels)
    <3>1. Changes(db, u)
      BY <1>1, <1>2, <2>1, GoodUpdate DEF IsView
    <3> HIDE DEF u
    <3>2. IsView(Over(db, u)) /\ Present(Over(db, u)) = Present(db)
      BY <1>1, <3>1, AfterChange
    <3>3. Grows(Over(db, u), db) /\ Attached(Over(db, u))
      BY <1>1, <3>2 DEF Grows, Attached
    <3>4. w = u
      BY <2>1 DEF u
    <3> HIDE DEF w
    <3> QED
      BY <3>2, <3>3, <3>4
  <2>2. CASE ~exists
    <3>1. {x} \in SUBSET Item /\ (\A y \in {x} : y.model = Kind[y.id]) /\ CanCreate(db, {x})
      BY <1>1, <1>2, <2>2
    <3> DEFINE u == CreateRows({x})
    <3>2. IsView(Over(db, u)) /\ Grows(Over(db, u), db) /\ Attached(Over(db, u))
      BY <1>1, <3>1, AfterCreate
    <3>3. w = u
      BY <2>2
    <3> HIDE DEF w, u
    <3> QED
      BY <3>2, <3>3
  <2> QED
    BY <2>1, <2>2
<1> HIDE DEF w
<1> QED
  BY <1>2, <1>3, SerialStatement

LEMMA SerialBegin ==
    ASSUME IInv, SerialInv, NEW c \in Clients, NEW r \in Menu[c], Begin(c, r)
    PROVE  SerialInv'
<1> DEFINE place == CASE r.op \in {"createMany", "delete"} -> "tasks"
                      [] r.op = "update" /\ r.nested = NoModel -> "write"
                      [] r.op = "updateMany" /\ IsSimple(r) -> "write"
                      [] OTHER -> "find"
           created(x) == [Task("create", x.model, <<x.id>>) EXCEPT !.owner = x.owner]
           new == CASE r.op = "createMany" -> {created(x) : x \in r.items}
                    [] r.op = "delete" -> {Task("delete", r.model, <<r.id>>)}
                    [] OTHER -> {}
<1>1. /\ pc[c] = "idle" /\ req' = [req EXCEPT ![c] = r] /\ pc' = [pc EXCEPT ![c] = place]
      /\ tasks' = [tasks EXCEPT ![c] = new] /\ UNCHANGED <<db, isolation, wr, late>>
      /\ \A e \in Clients : pc[e] = "idle"
  BY DEF Begin, MayRun, SerialInv
<1>2. r \in RequestType /\ r.op \in {"createMany", "update", "updateMany", "delete", "deleteMany"}
  BY MenuFits, RequestFields DEF Begin
<1>3. /\ Attached(db) /\ \A e \in Clients : Untouched(e)
      /\ Present(View(c)) = Present(db)
      /\ \A s \in Present(db) : View(c)[s].fk = db[s].fk
  BY <1>1, ViewIsView DEF SerialInv
<1>4. ASSUME place # "find"
      PROVE  Going(db, r, db, new)
  <2>1. CASE r.op = "createMany"
    <3>1. \A t \in new : t.kind = "create"
      BY <2>1 DEF Task
    <3>2. RootsGo(db, r, db, new)
      BY <2>1 DEF RootsGo, Roots
    <3> HIDE DEF new
    <3> QED
      BY <1>3, <2>1, <3>1, <3>2, StartGoes
  <2>2. CASE r.op = "delete"
    <3> DEFINE t == Task("delete", r.model, <<r.id>>)
    <3>1. new = {t} /\ Roots(db, r) = {<<r.model, r.id>>}
      BY <2>2 DEF Roots
    <3>2. /\ t.kind = "delete" /\ t.model = r.model /\ t.path = <<r.id>> /\ t.found = {}
          /\ t.todo = CascadeFields(t.model) /\ t.base = NoModel
      BY DEF Task
    <3> HIDE DEF t, new
    <3>3. Victim(t) = <<r.model, r.id>>
      BY <3>2 DEF Victim, Id
    <3>4. RootsGo(db, r, db, new)
      BY <3>1, <3>2 DEF RootsGo
    <3> QED
      BY <1>3, <2>2, <3>1, <3>2, <3>3, <3>4, StartGoes
  <2>3. CASE r.op = "updateMany" \/ (r.op = "update" /\ r.nested = NoModel)
    <3>1. Roots(db, r) = {} /\ new = {}
      BY <2>3, SlotParts, ConstantsAssumption DEF Roots, Referring, Present
    <3>2. RootsGo(db, r, db, {})
      BY <3>1 DEF RootsGo
    <3> HIDE DEF new
    <3> QED
      BY <1>3, <3>1, <3>2, StartGoes
  <2> QED
    BY <1>2, <1>4, <2>1, <2>2, <2>3
<1> HIDE DEF place, new
<1>5. /\ pc'[c] = place /\ req'[c] = r /\ tasks'[c] = new
      /\ \A e \in Clients \ {c} : pc'[e] = "idle"
      /\ \A e \in Clients : Untouched(e)'
  BY <1>1, <1>3 DEF IInv, Untouched
<1>6. View(c)' = View(c) /\ (place # "find" => Going(db, r, View(c), new))
  BY <1>1, <1>3, <1>4, ChangeGoes DEF View
<1>7. ASSUME NEW e \in Clients
      PROVE  IF pc'[e] \in {"idle", "find"} THEN Untouched(e)'
             ELSE Going(db', req'[e], View(e)', tasks'[e])
  <2>1. CASE e = c
    BY <1>1, <1>5, <1>6, <2>1
  <2>2. CASE e # c
    BY <1>5, <2>2
  <2> QED
    BY <2>1, <2>2
<1> QED
  BY <1>1, <1>5, <1>7 DEF SerialInv

LEMMA SerialFind ==
    ASSUME IInv, SerialInv, NEW c \in Clients, Find(c)
    PROVE  SerialInv'
<1> DEFINE r == req[c]
           v == View(c)
           candidates == IF r.op = "update" THEN {s[2] : s \in Referring(v, r.nested, r.id)}
                         ELSE {i \in r.ids : <<r.model, i>> \in Present(v)}
           model == IF r.op = "update" THEN r.nested ELSE r.model
           kind == IF r.op = "updateMany" THEN "update" ELSE "delete"
           new == {Task(kind, model, <<i>>) : i \in candidates}
<1>1. /\ pc[c] = "find" /\ tasks' = [tasks EXCEPT ![c] = new]
      /\ pc' = [pc EXCEPT ![c] = "tasks"] /\ UNCHANGED <<db, isolation, req, wr, late>>
  BY DEF Find
<1>2. r.op \in {"update", "updateMany", "deleteMany"}
  BY <1>1 DEF IInv, CallFits
<1>3. /\ Present(v) = Present(db) /\ Attached(db)
      /\ \A s \in Present(db) : v[s].fk = db[s].fk
  BY <1>1, ViewIsView DEF SerialInv
<1>4. ASSUME NEW t \in new
      PROVE  \E i \in candidates : /\ t.kind = kind /\ t.model = model /\ t.path = <<i>>
                                   /\ t.found = {} /\ t.base = NoModel
                                   /\ t.todo = IF kind = "delete" THEN CascadeFields(model) ELSE {}
  <2>1. PICK i \in candidates : t = Task(kind, model, <<i>>)
    OBVIOUS
  <2> HIDE DEF candidates, kind, model
  <2> QED
    BY <2>1 DEF Task
<1>5. \A i \in candidates : Task(kind, model, <<i>>) \in new
  OBVIOUS
<1>6. ASSUME kind = "delete"
      PROVE  /\ \A i \in candidates : <<model, i>> \in Roots(db, r)
             /\ \A y \in Roots(db, r) : y = <<model, y[2]>> /\ y[2] \in candidates
  <2>1. CASE r.op = "update"
    BY <1>3, <2>1, SlotParts DEF Roots, Referring, Present
  <2>2. CASE r.op = "deleteMany"
    BY <1>3, <2>2, SlotParts DEF Roots, Present
  <2> QED
    BY <1>2, <1>6, <2>1, <2>2
<1>7. ASSUME kind = "update"
      PROVE  Roots(db, r) = {}
  BY <1>7 DEF Roots
<1>8. kind \in {"delete", "update"} /\ r.op # "createMany"
  BY <1>2
<1> HIDE DEF new, candidates, model, kind
<1>9. ASSUME NEW t \in new, t.kind = "delete"
      PROVE  /\ Victim(t) \in Roots(db, r) /\ t.found = {}
             /\ t.todo = CascadeFields(t.model) /\ t.base = NoModel
  BY <1>4, <1>6, <1>9 DEF Victim, Id
<1>10. RootsGo(db, r, db, new)
  <2>1. ASSUME NEW y \in Roots(db, r)
        PROVE  \E t \in new : t.kind = "delete" /\ t.model = y[1] /\ t.path = <<y[2]>>
    <3>1. kind = "delete" /\ y = <<model, y[2]>> /\ y[2] \in candidates
      BY <1>6, <1>7, <1>8
    <3> DEFINE t == Task(kind, model, <<y[2]>>)
    <3>2. t \in new /\ t.kind = "delete" /\ t.model = model /\ t.path = <<y[2]>>
      BY <1>5, <3>1 DEF Task
    <3> QED
      BY <3>1, <3>2
  <2> QED
    BY <2>1 DEF RootsGo
<1>11. \A t \in new : t.kind # "create"
  BY <1>4, <1>8
<1>12. Going(db, r, v, new)
  <2>1. Going(db, r, db, new)
    BY <1>3, <1>8, <1>9, <1>10, <1>11, StartGoes
  <2> QED
    BY <1>3, <2>1, ChangeGoes
<1>13. /\ View(c)' = v /\ tasks'[c] = new /\ pc'[c] = "tasks"
       /\ \A e \in Clients \ {c} : pc'[e] = pc[e] /\ wr'[e] = wr[e]
  BY <1>1 DEF View, IInv
<1> QED
  BY <1>1, <1>12, <1>13, SerialStep

LEMMA SerialLookUp ==
    ASSUME IInv, SerialInv, NEW c \in Clients, pc[c] = "tasks", NEW t \in tasks[c], LookUp(c, t)
    PROVE  SerialInv'
<1>1. PICK k \in t.todo :
        LET found == t.found \cup Referring(View(c), k, Id(t))
            rest == [t EXCEPT !.todo = @ \ {k}, !.found = found]
            cascaded == {Task("delete", s[1], Append(t.path, s[2])) : s \in found}
        IN  tasks' = [tasks EXCEPT ![c] = (@ \ {t}) \cup
                IF rest.todo # {} THEN {rest}
                ELSE {[rest EXCEPT !.found = {}]} \cup cascaded]
  BY DEF LookUp
<1>2. t.kind = "delete" /\ UNCHANGED <<db, isolation, pc, req, wr, late>>
  BY DEF LookUp
<1>3. IsView(View(c)) /\ Going(db, req[c], View(c), tasks[c]) /\ \A x \in tasks[c] : TaskFits(x, req[c])
  BY ViewIsView DEF SerialInv, IInv
<1>4. tasks'[c] = LookedUp(View(c), tasks[c], t, k)
  BY <1>1 DEF IInv, LookedUp
<1>5. Going(db, req[c], View(c), tasks'[c])
  BY <1>2, <1>3, <1>4, LookUpGoes
<1>6. View(c)' = View(c)
  BY <1>2 DEF View
<1> QED
  BY <1>2, <1>5, <1>6, SerialStep

LEMMA SerialDelete ==
    ASSUME IInv, SerialInv, NEW c \in Clients, pc[c] = "tasks", NEW t \in tasks[c], DeleteLevel(c, t)
    PROVE  SerialInv'
<1> DEFINE v == View(c)
           level == IF t.base = NoModel THEN t.model ELSE t.base
           s == <<level, Id(t)>>
           exists == s \in Present(v)
           w == IF exists THEN DeleteRow(v, s) ELSE <<>>
           rest == (tasks[c] \ {t}) \cup
                       IF Base[level] = NoModel THEN {} ELSE {[t EXCEPT !.base = Base[level]]}
<1>1. Run(c, exists, w, rest) /\ t.kind = "delete" /\ t.todo = {} /\ Awaited(c, t) = {}
  BY DEF DeleteLevel
<1>2. IsView(v) /\ Going(db, req[c], v, tasks[c]) /\ \A x \in tasks[c] : TaskFits(x, req[c])
  BY ViewIsView DEF SerialInv, IInv
<1>3. \A k \in tasks[c] : ~(Len(k.path) = Len(t.path) + 1 /\ SubSeq(k.path, 1, Len(t.path)) = t.path)
  BY <1>1 DEF Awaited
<1>4. ASSUME exists
      PROVE  GoodRows(w) /\ Going(db, req[c], Over(v, w), rest)
  <2>1. GoodRows(DeleteRow(v, s))
    BY <1>2, GoodDelete DEF IsView
  <2>2. Going(db, req[c], Over(v, DeleteRow(v, s)), rest)
    BY <1>1, <1>2, <1>3, <1>4, DeleteGoes
  <2>3. w = DeleteRow(v, s)
    BY <1>4
  <2> HIDE DEF w, rest
  <2> QED
    BY <2>1, <2>2, <2>3
<1>5. exists \in BOOLEAN
  OBVIOUS
<1> HIDE DEF exists, w, rest
<1> QED
  BY <1>1, <1>4, <1>5, SerialRun

LEMMA SerialUpdate ==
    ASSUME IInv, SerialInv, NEW c \in Clients, pc[c] = "tasks", NEW t \in tasks[c], UpdateOne(c, t)
    PROVE  SerialInv'
<1> DEFINE v == View(c)
           ok == CanUpdate(v, t.model, Id(t))
           w == IF ok THEN UpdateRows(v, t.model, Id(t), req[c].levels) ELSE <<>>
           rest == tasks[c] \ {t}
<1>1. Run(c, ok, w, rest) /\ t.kind = "update"
  BY DEF UpdateOne
<1>2. /\ TaskFits(t, req[c]) /\ req[c] \in Menu[c]
      /\ IsView(v) /\ Going(db, req[c], v, tasks[c])
  BY ViewIsView DEF IInv, CallFits, SerialInv
<1>3. t.model \in Models /\ Id(t) \in Ids /\ req[c].levels \in SUBSET Lineage[t.model]
  BY <1>1, <1>2, TaskParts, MenuFits, RequestFields DEF Fits, TaskFits
<1>4. ASSUME ok
      PROVE  GoodRows(w) /\ Going(db, req[c], Over(v, w), rest)
  <2> DEFINE u == UpdateRows(v, t.model, Id(t), req[c].levels)
  <2>1. GoodRows(u) /\ Changes(v, u)
    BY <1>2, <1>3, <1>4, GoodUpdate DEF IsView
  <2> HIDE DEF u
  <2>2. /\ Present(Over(v, u)) = Present(v)
        /\ \A s \in Present(v) : Over(v, u)[s].fk = v[s].fk
    BY <1>2, <2>1, AfterChange
  <2>3. rest \in SUBSET tasks[c] /\ \A x \in tasks[c] : x.kind = "delete" => x \in rest
    BY <1>1
  <2>4. w = u
    BY <1>4 DEF u
  <2> HIDE DEF w, rest
  <2> QED
    BY <1>2, <2>1, <2>2, <2>3, <2>4, ChangeGoes
<1>5. ok \in BOOLEAN
  BY DEF CanUpdate
<1> HIDE DEF ok, w, rest
<1> QED
  BY <1>1, <1>4, <1>5, SerialRun

LEMMA SerialCreateOne ==
    ASSUME IInv, SerialInv, NEW c \in Clients, pc[c] = "tasks", NEW t \in tasks[c], CreateOne(c, t)
    PROVE  SerialInv'
<1> DEFINE v == View(c)
           X == {[model |-> t.model, id |-> Id(t), owner |-> t.owner]}
           possible == CanCreate(v, X)
           w == CreateRows(X)
           rest == tasks[c] \ {t}
<1>1. Run(c, possible, w, rest) /\ t.kind = "create"
  BY DEF CreateOne
<1>2. /\ TaskFits(t, req[c]) /\ t.model = Kind[Id(t)]
      /\ IsView(v) /\ Going(db, req[c], v, tasks[c])
  BY <1>1, ViewIsView DEF IInv, TaskFits, SerialInv
<1>3. Id(t) \in Ids /\ t.model \in Models /\ t.owner \in Ids \cup {NoId}
  BY <1>2, TaskParts DEF TaskFits, TaskType
<1>4. X \in SUBSET Item /\ \A x \in X : x.model = Kind[x.id]
  BY <1>2, <1>3 DEF Item
<1>5. req[c].op = "createMany" /\ Attached(v)
  BY <1>1, <1>2 DEF Going
<1> HIDE DEF X
<1>6. ASSUME possible
      PROVE  GoodRows(w) /\ Going(db, req[c], Over(v, w), rest)
  <2>1. GoodRows(w)
    BY <1>4, GoodCreate
  <2>2. Grows(Over(v, w), v) /\ Attached(Over(v, w))
    BY <1>2, <1>4, <1>5, <1>6, AfterCreate
  <2> HIDE DEF w
  <2> QED
    BY <1>2, <1>5, <2>1, <2>2, CreateGoes
<1>7. possible \in BOOLEAN
  BY DEF CanCreate
<1> HIDE DEF possible, w, rest
<1> QED
  BY <1>1, <1>6, <1>7, SerialRun

LEMMA SerialWrite ==
    ASSUME IInv, SerialInv, NEW c \in Clients, Write(c)
    PROVE  SerialInv'
<1> DEFINE r == req[c]
           v == View(c)
           ok == r.op = "update" => CanUpdate(v, r.model, r.id)
           w == CASE ~ok -> <<>>
                  [] r.op = "update" -> UpdateRows(v, r.model, r.id, r.levels)
                  [] OTHER -> NativeUpdateRows(v, r.model, r.ids, r.levels)
<1>1. /\ pc[c] = "write" \/ (pc[c] = "tasks" /\ r.op = "update")
      /\ \/ /\ ok
            /\ wr' = [wr EXCEPT ![c] = Over(@, w)]
            /\ pc' = [pc EXCEPT ![c] = "commit"]
            /\ UNCHANGED <<db, isolation, req, tasks, late>>
         \/ Abort(c)
  BY DEF Write, AllSettled
<1>2. CASE Abort(c)
  BY <1>1, <1>2, SerialAbort
<1>3. CASE /\ ok
           /\ wr' = [wr EXCEPT ![c] = Over(@, w)]
           /\ pc' = [pc EXCEPT ![c] = "commit"]
           /\ UNCHANGED <<db, isolation, req, tasks, late>>
  <2>1. /\ r \in Menu[c] /\ r.op \in {"update", "updateMany"}
        /\ IsView(v) /\ Going(db, r, v, tasks[c])
    BY <1>1, ViewIsView DEF IInv, CallFits, SerialInv
  <2>2. GoodRows(w) /\ Changes(v, w)
    <3>1. CASE r.op = "update"
      <4> DEFINE u == UpdateRows(v, r.model, r.id, r.levels)
      <4>1. /\ r.model \in Models /\ r.id \in Ids /\ r.levels \in SUBSET Lineage[r.model]
            /\ CanUpdate(v, r.model, r.id)
        BY <1>3, <2>1, <3>1, MenuFits, RequestFields DEF Fits
      <4>2. GoodRows(u) /\ Changes(v, u)
        BY <2>1, <4>1, GoodUpdate DEF IsView
      <4>3. w = u
        BY <1>3, <3>1
      <4> HIDE DEF w, u
      <4> QED
        BY <4>2, <4>3
    <3>2. CASE r.op # "update"
      <4> DEFINE u == NativeUpdateRows(v, r.model, r.ids, r.levels)
      <4>1. GoodRows(u) /\ Changes(v, u)
        BY <2>1, GoodNativeUpdate DEF IsView
      <4>2. w = u
        BY <1>3, <3>2
      <4> HIDE DEF w, u
      <4> QED
        BY <4>1, <4>2
    <3> QED
      BY <3>1, <3>2
  <2> HIDE DEF ok, w
  <2>3. /\ Present(Over(v, w)) = Present(v)
        /\ \A s \in Present(v) : Over(v, w)[s].fk = v[s].fk
    BY <2>1, <2>2, AfterChange
  <2>4. Going(db, r, Over(v, w), tasks[c])
    BY <2>1, <2>3, ChangeGoes
  <2>5. View(c)' = Over(v, w)
    BY <1>3, <2>2, ViewAfter
  <2>6. /\ pc[c] # "idle" /\ pc'[c] = "commit" /\ tasks'[c] = tasks[c]
        /\ \A e \in Clients \ {c} : pc'[e] = pc[e] /\ wr'[e] = wr[e]
    BY <1>1, <1>3 DEF IInv
  <2> QED
    BY <1>3, <2>4, <2>5, <2>6, SerialStep
<1> QED
  BY <1>1, <1>2, <1>3

\* What is committed is what the transaction saw.
LEMMA SerialCommit ==
    ASSUME IInv, SerialInv, NEW c \in Clients, Commit(c)
    PROVE  /\ SerialInv'
           /\ \A i \in Ids : Orphan(db', i) /\ ~Orphan(db, i) =>
                \E s \in Overlooked(db, req[c], {}) : SlotsOf(i) \cap Swept(db, s) # {}
           /\ \A y \in Roots(db, req[c]) : SlotsOf(y[2]) \cap Present(db') = {}
<1> DEFINE w == [s \in {t \in Slots : wr[c][t] # Clean} |-> wr[c][s]]
<1>1. /\ Apply(c, w) /\ Close(c)
      /\ pc[c] = "commit" \/ (pc[c] = "tasks" /\ tasks[c] = {})
  BY DEF Commit, AllSettled
<1>2. IsView(db) /\ IsView(View(c)) /\ Going(db, req[c], View(c), {})
  <2>1. tasks[c] = {}
    BY <1>1 DEF IInv
  <2>2. Going(db, req[c], View(c), tasks[c])
    BY <1>1 DEF SerialInv
  <2> QED
    BY <2>1, <2>2, ViewIsView
<1>3. db' = View(c)
  BY <1>1, <1>2 DEF Apply, Over, View, IsView
<1>4. \A e \in Clients : late'[e] = {}
  BY <1>1 DEF Apply, SerialInv
<1>5. SerialInv'
  BY <1>1, <1>2, <1>3, <1>4, SerialClose DEF Going
<1> QED
  BY <1>2, <1>3, <1>5, EndIsComplete

\* What DeletesAreComplete says of a step.
CompleteStep ==
    /\ \A i \in Ids : Orphan(db', i) /\ ~Orphan(db, i) =>
         \E c \in Clients :
             /\ req[c] # NoReq /\ req'[c] = NoReq
             /\ \/ i \in late[c]
                \/ \E s \in Overlooked(db, req[c], late[c]) : SlotsOf(i) \cap Swept(db, s) # {}
    /\ \A c \in Clients :
         req[c] # NoReq /\ req'[c] = NoReq /\ db' # db
         => \A y \in Roots(db, req[c]) :
               y[2] \notin late[c] => SlotsOf(y[2]) \cap Present(db') = {}

LEMMA SerialNext ==
    ASSUME IInv, SerialInv, [Next]_vars
    PROVE  SerialInv' /\ CompleteStep
<1>1. ASSUME db' = db
      PROVE  CompleteStep
  BY <1>1 DEF CompleteStep
<1>2. ASSUME req' = req, \A i \in Ids : Orphan(db', i) => Orphan(db, i)
      PROVE  CompleteStep
  BY <1>2 DEF CompleteStep
<1>3. CASE UNCHANGED vars
  <2>1. SerialInv'
    BY <1>3 DEF SerialInv, Untouched, View, vars
  <2> QED
    BY <1>1, <1>3, <2>1 DEF vars
<1>4. CASE Next
  <2>1. PICK c \in Clients :
          \/ \E r \in Menu[c] : Create(c, r) \/ Upsert(c, r) \/ Begin(c, r)
          \/ Find(c) \/ Step(c) \/ Write(c) \/ Commit(c) \/ Interrupted(c)
    BY <1>4 DEF Next
  <2>2. CASE \E r \in Menu[c] : Create(c, r) \/ Upsert(c, r)
    BY <1>2, <2>2, SerialCreate, SerialUpsert DEF Create, Upsert
  <2>3. CASE \E r \in Menu[c] : Begin(c, r)
    BY <1>1, <2>3, SerialBegin DEF Begin
  <2>4. CASE Find(c)
    BY <1>1, <2>4, SerialFind DEF Find
  <2>5. CASE Step(c)
    <3>1. pc[c] = "tasks"
      BY <2>5 DEF Step
    <3>2. PICK t \in tasks[c] : LookUp(c, t) \/ DeleteLevel(c, t) \/ UpdateOne(c, t) \/ CreateOne(c, t)
      BY <2>5 DEF Step
    <3>3. SerialInv'
      BY <3>1, <3>2, SerialLookUp, SerialDelete, SerialUpdate, SerialCreateOne
    <3>4. db' = db
      BY <3>2 DEF LookUp, DeleteLevel, UpdateOne, CreateOne, Run, Abort
    <3> QED
      BY <1>1, <3>3, <3>4
  <2>6. CASE Write(c)
    <3>1. db' = db
      BY <2>6 DEF Write, Abort
    <3> QED
      BY <1>1, <2>6, <3>1, SerialWrite
  <2>7. CASE Commit(c)
    <3>1. /\ SerialInv'
          /\ \A i \in Ids : Orphan(db', i) /\ ~Orphan(db, i) =>
               \E s \in Overlooked(db, req[c], {}) : SlotsOf(i) \cap Swept(db, s) # {}
          /\ \A y \in Roots(db, req[c]) : SlotsOf(y[2]) \cap Present(db') = {}
      BY <2>7, SerialCommit
    <3>2. pc[c] # "idle" /\ Close(c)
      BY <2>7 DEF Commit, AllSettled
    <3>3. /\ req[c] # NoReq /\ req'[c] = NoReq /\ late[c] = {}
          /\ \A e \in Clients \ {c} : req'[e] = req[e]
      <4>1. req[c] \in RequestType
        BY <3>2, MenuFits DEF IInv, CallFits
      <4> QED
        BY <3>2, <4>1, ValuesAssumption DEF Close, IInv, SerialInv
    <3>4. CompleteStep
      BY <3>1, <3>3 DEF CompleteStep
    <3> QED
      BY <3>1, <3>4
  <2>8. CASE Interrupted(c)
    BY <1>1, <2>8, SerialAbort DEF Interrupted, Abort
  <2> QED
    BY <2>1, <2>2, <2>3, <2>4, <2>5, <2>6, <2>7, <2>8
<1> QED
  BY <1>3, <1>4

\* Whatever the hierarchy, the entities and the calls: a serializable delete
\* leaves a base row behind only of an entity the code did not look for, and
\* deletes every level of what it was asked to delete, in whatever order the
\* promises of its cascade are carried out.
THEOREM SerializableDeletesAreComplete ==
    Spec /\ isolation = "Serializable" => DeletesAreComplete
<1>1. Init /\ isolation = "Serializable" => SerialInv
  <2> SUFFICES ASSUME Init, isolation = "Serializable" PROVE SerialInv
    OBVIOUS
  <2>1. Attached(db)
    BY DEF Init, Attached, Present
  <2> QED
    BY <2>1 DEF Init, SerialInv, Untouched
<1>2. IInv /\ SerialInv /\ [Next]_vars => SerialInv' /\ CompleteStep
  BY SerialNext
<1>3. Spec => []IInv
  BY IInvAlways
<1>4. Spec /\ isolation = "Serializable" => [][CompleteStep]_vars
  BY <1>1, <1>2, <1>3, PTL DEF Spec
<1> QED
  BY <1>4, PTL DEF DeletesAreComplete, CompleteStep
=============================================================================
