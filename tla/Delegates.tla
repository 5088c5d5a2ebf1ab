------------------------------ MODULE Delegates ------------------------------
(***************************************************************************)
(* The delegate enhancement (delegate.ts): an entity of a concrete model   *)
(* is stored as one row per model of its lineage, all with the same id,    *)
(* linked by auxiliary foreign keys.  A call is one nested statement, or   *)
(* an interactive transaction whose statements the code issues from        *)
(* concurrent promises, one action per statement.  Callers may run side by *)
(* side; the database isolates them as `isolation` says.                   *)
(***************************************************************************)
EXTENDS Integers, Sequences, FiniteSets

CONSTANTS
    Models, Base,       \* the schema: each model's delegate base, or NoModel,
    Owner, OnDelete,    \* the model its own foreign key refers to, and the
                        \* referential action of that relation,
    UpdatedAt,          \* and the models with an @updatedAt field
    Ids, Kind,          \* entities and the concrete model of each
    Clients, Menu,      \* callers and the calls each may make
    Isolations,         \* \subseteq {"Serializable", "ReadCommitted"}
    NoModel, NoId, NoRow, Clean, NoReq

VARIABLES
    db,         \* the committed rows
    isolation,
    pc, req,    \* each caller's place in its call, and the call
    wr,         \* the rows its transaction wrote
    tasks,      \* the promises of its transaction that are not settled
    late        \* entities others created since its transaction began

vars == <<db, isolation, pc, req, wr, tasks, late>>

-----------------------------------------------------------------------------
(* The schema. *)

\* What there is in U from m on, going by `next` from one to others.
Reachable(U, m, next) ==
    LET closed == {S \in SUBSET U : m \in S /\ \A n \in S : next[n] \subseteq S}
    IN  {k \in U : \A S \in closed : k \in S}

\* a model and the delegate bases it inherits from, directly or not
Lineage == [m \in Models |-> Reachable(Models, m, [n \in Models |-> {Base[n]} \ {NoModel}])]

IsDelegate(m) == \E k \in Models : Base[k] = m

Slots == {s \in Models \X Ids : s[1] \in Lineage[Kind[s[2]]]}
SlotsOf(i) == {s \in Slots : s[2] = i}

\* a row's discriminator, foreign key, own data and @updatedAt, the latter
\* two as whether they changed an odd number of times
Row(m) == [sub : {k \in Models : Base[k] = m} \cup {NoModel},
           fk : {NoId} \cup (IF Owner[m] = NoModel THEN {} ELSE Ids),
           val : {0, 1}, at : {0, 1}]

\* Faulty: only the relations the model declares itself.
OwnCascadeFields(m) ==
    {k \in Models : Base[k] # NoModel /\ OnDelete[k] = "Cascade" /\ Owner[k] = m}

\* Relations of the model, declared or inherited, whose other side owns the
\* foreign key, cascades, and is stored over several rows.
CascadeFields(m) ==
    {k \in Models : Base[k] # NoModel /\ OnDelete[k] = "Cascade"
                    /\ Owner[k] \in Lineage[m]}

\* Faulty: an update that leaves the bases' own fields alone renews nothing.
NoStamps(m) == {}

\* @updatedAt fields the model inherits
InheritedStamps(m) == UpdatedAt \cap (Lineage[m] \ {m})

-----------------------------------------------------------------------------
(* The database: views, foreign keys and referential actions. *)

View(c) == [s \in Slots |-> IF wr[c][s] = Clean THEN db[s] ELSE wr[c][s]]

Present(v) == {s \in Slots : v[s] # NoRow}

\* rows of model k that refer to entity i
Referring(v, k, i) == {s \in Present(v) : s[1] = k /\ v[s].fk = i}

\* rows the database deletes with s: the concrete part of the entity (the
\* generated auxiliary relation cascades) and the rows that cascade from it
DirectlyBelow(v, s) ==
    {t \in Present(v) : t[2] = s[2] /\ Base[t[1]] = s[1]}
    \cup {t \in Present(v) : Owner[t[1]] = s[1] /\ OnDelete[t[1]] = "Cascade"
                             /\ v[t].fk = s[2]}

Swept(v, s) ==
    LET sweep[n \in 0 .. Cardinality(Slots)] ==
            IF n = 0 THEN {s}
            ELSE LET last == sweep[n - 1]
                 IN  last \cup UNION {DirectlyBelow(v, t) : t \in last}
    IN  sweep[Cardinality(Slots)]

\* the effect of deleting row s, as the rows that change
DeleteRow(v, s) ==
    LET gone == Swept(v, s)
        freed == {t \in Present(v) : <<Owner[t[1]], v[t].fk>> \in gone}
    IN  [t \in {u \in Present(v) : u \in gone \cup freed} |->
            IF t \in gone THEN NoRow ELSE [v[t] EXCEPT !.fk = NoId]]

\* Faulty: every discriminator names the model the create was called on.
DiscriminatorOfLeaf(m, l) == IF l = m THEN NoModel ELSE m

\* The discriminator of level l of an entity of model m names the level below.
Discriminator(m, l) == IF l = m THEN NoModel ELSE CHOOSE k \in Lineage[m] : Base[k] = l

\* The create payload of an item: a nested create of every base.
RowsOf(x) ==
    [s \in {t \in SlotsOf(x.id) : t[1] \in Lineage[x.model]} |->
        [sub |-> Discriminator(x.model, s[1]),
         fk |-> IF Owner[s[1]] = NoModel THEN NoId ELSE x.owner,
         val |-> 0, at |-> 0]]

\* one statement that creates the items, some owned by others of them
CreateRows(X) ==
    [s \in UNION {DOMAIN RowsOf(x) : x \in X} |->
        RowsOf(CHOOSE x \in X : x.id = s[2])[s]]

CanCreate(v, X) ==
    LET w == CreateRows(X)
    IN  /\ DOMAIN w \cap Present(v) = {}
        /\ \A s \in DOMAIN w : w[s].fk # NoId =>
                <<Owner[s[1]], w[s].fk>> \in Present(v) \cup DOMAIN w

\* An update through model m of fields of the given levels; base fields go
\* into nested updates, and inherited @updatedAt fields are set along.
UpdateRows(v, m, i, levels) ==
    LET stamped == InheritedStamps(m) \cup (UpdatedAt \cap levels)
    IN  [s \in {t \in SlotsOf(i) : t[1] \in levels \cup stamped} |->
            [v[s] EXCEPT !.val = IF s[1] \in levels THEN 1 - @ ELSE @,
                         !.at = IF s[1] \in stamped THEN 1 - @ ELSE @]]

CanUpdate(v, m, i) == \A l \in Lineage[m] : <<l, i>> \in Present(v)

\* the same without the inherited fields: a native updateMany of one table
NativeUpdateRows(v, m, S, levels) ==
    [s \in {t \in Present(v) : t[1] = m /\ t[2] \in S} |->
        [v[s] EXCEPT !.val = IF m \in levels THEN 1 - @ ELSE @,
                     !.at = IF m \in UpdatedAt THEN 1 - @ ELSE @]]

\* A write waits for the transactions that wrote the row, and a foreign key
\* for those that are deleting or adding what it refers to.
Writable(c, w) ==
    \A d \in Clients \ {c} :
        /\ \A s \in DOMAIN w : wr[d][s] = Clean
        /\ \A s \in DOMAIN w, t \in Slots : wr[d][t] # Clean =>
            /\ ~(w[s] = NoRow /\ wr[d][t] # NoRow /\ Owner[t[1]] = s[1]
                 /\ wr[d][t].fk = s[2])
            /\ ~(wr[d][t] = NoRow /\ w[s] # NoRow /\ Owner[s[1]] = t[1]
                 /\ w[s].fk = t[2])

Over(f, w) == [s \in DOMAIN f |-> IF s \in DOMAIN w THEN w[s] ELSE f[s]]

Created(w) == {s[2] : s \in {t \in DOMAIN w : w[t] # NoRow /\ db[t] = NoRow}}

\* Committing w: the transactions still open learn nothing of it.
Apply(c, w) ==
    /\ db' = Over(db, w)
    /\ late' = [d \in Clients |->
                   IF d = c \/ pc[d] = "idle" THEN {} ELSE late[d] \cup Created(w)]

-----------------------------------------------------------------------------
(* Calls.  create and upsert are one statement.  The others run in a       *)
(* transaction; `tasks` are its deletes, updates and creates in flight.    *)

Item == [model : Models, id : Ids, owner : Ids \cup {NoId}]
RequestType ==
    [op : {"create", "createMany"}, items : SUBSET Item]
    \cup [op : {"upsert"}, item : Item, levels : SUBSET Models]
    \cup [op : {"update"}, model : Models, id : Ids, levels : SUBSET Models,
          nested : Models \cup {NoModel}]
    \cup [op : {"updateMany"}, model : Models, ids : SUBSET Ids, levels : SUBSET Models]
    \cup [op : {"delete"}, model : Models, id : Ids]
    \cup [op : {"deleteMany"}, model : Models, ids : SUBSET Ids]

\* An entity is created as what it is, and an update changes fields that the
\* model has.
Fits(r) ==
    /\ r.op \in {"create", "createMany"} => \A x \in r.items : x.model = Kind[x.id]
    /\ r.op = "upsert" => r.item.model = Kind[r.item.id] /\ r.levels \subseteq Lineage[r.item.model]
    /\ r.op \in {"update", "updateMany"} => r.levels \subseteq Lineage[r.model]

\* No model is its own base, at any distance: see Bases of SchemaValidation.
ASSUME ConstantsAssumption ==
    /\ NoModel \notin Models
    /\ \A S \in SUBSET Models : S # {} => \E m \in S : Base[m] \notin S
    /\ Base \in [Models -> Models \cup {NoModel}]
    /\ Owner \in [Models -> Models \cup {NoModel}]
    /\ OnDelete \in [Models -> {"Cascade", "SetNull"}]
    /\ UpdatedAt \subseteq Models
    /\ Kind \in [Ids -> Models]
    /\ \A c \in Clients : Menu[c] \subseteq {r \in RequestType : Fits(r)}
    /\ Isolations \subseteq {"Serializable", "ReadCommitted"}

ASSUME FiniteAssumption == IsFiniteSet(Models) /\ IsFiniteSet(Ids)

ASSUME ValuesAssumption ==
    /\ NoId \notin Ids /\ NoReq \notin RequestType /\ NoRow # Clean
    /\ \A m \in Models : NoRow \notin Row(m) /\ Clean \notin Row(m)

\* The discriminated model itself cannot be created or upserted.
RefusedUpFront(r) ==
    \/ r.op = "create" /\ \E x \in r.items : IsDelegate(x.model)
    \/ r.op = "upsert" /\ IsDelegate(r.item.model)

\* only own fields change, and no base has an @updatedAt field to renew
IsSimple(r) == r.levels \subseteq {r.model} /\ InheritedStamps(r.model) = {}

Task(kind, m, path) ==
    [kind |-> kind, model |-> m, path |-> path, owner |-> NoId, found |-> {},
     todo |-> IF kind = "delete" THEN CascadeFields(m) ELSE {}, base |-> NoModel]

TaskType ==
    [kind : {"delete", "update", "create"}, model : Models, path : Seq(Ids),
     owner : Ids \cup {NoId}, found : SUBSET (Models \X Ids),
     todo : SUBSET Models, base : Models \cup {NoModel}]

TypeOK ==
    /\ DOMAIN db = Slots
    /\ \A s \in Slots : db[s] \in Row(s[1]) \cup {NoRow}
    /\ isolation \in Isolations
    /\ pc \in [Clients -> {"idle", "find", "tasks", "write", "commit"}]
    /\ req \in [Clients -> RequestType \cup {NoReq}]
    /\ DOMAIN wr = Clients
    /\ \A c \in Clients : /\ DOMAIN wr[c] = Slots
                           /\ \A s \in Slots :
                                wr[c][s] \in Row(s[1]) \cup {NoRow, Clean}
    /\ tasks \in [Clients -> SUBSET TaskType]
    /\ late \in [Clients -> SUBSET Ids]

Init ==
    /\ db = [s \in Slots |-> NoRow]
    /\ isolation \in Isolations
    /\ pc = [c \in Clients |-> "idle"]
    /\ req = [c \in Clients |-> NoReq]
    /\ wr = [c \in Clients |-> [s \in Slots |-> Clean]]
    /\ tasks = [c \in Clients |-> {}]
    /\ late = [c \in Clients |-> {}]

\* Serializable transactions might have run one after the other; here they do.
MayRun(c) == isolation = "Serializable" => \A d \in Clients : pc[d] = "idle"

\* The transaction is over, committed or not.
Close(c) ==
    /\ pc' = [pc EXCEPT ![c] = "idle"]
    /\ req' = [req EXCEPT ![c] = NoReq]
    /\ wr' = [wr EXCEPT ![c] = [s \in Slots |-> Clean]]
    /\ tasks' = [tasks EXCEPT ![c] = {}]
    /\ UNCHANGED isolation

Abort(c) == Close(c) /\ UNCHANGED db /\ late' = [late EXCEPT ![c] = {}]

-----------------------------------------------------------------------------
(* One-statement calls. *)

Create(c, r) ==
    /\ pc[c] = "idle" /\ r.op = "create" /\ ~RefusedUpFront(r)
    /\ MayRun(c) /\ CanCreate(db, r.items)
    /\ Writable(c, CreateRows(r.items))
    /\ Apply(c, CreateRows(r.items))
    /\ UNCHANGED <<isolation, pc, req, wr, tasks>>

Upsert(c, r) ==
    /\ pc[c] = "idle" /\ r.op = "upsert" /\ ~RefusedUpFront(r)
    /\ MayRun(c)
    /\ LET x == r.item
           exists == <<x.model, x.id>> \in Present(db)
           w == IF exists THEN UpdateRows(db, x.model, x.id, r.levels)
                ELSE CreateRows({x})
       IN  /\ IF exists THEN CanUpdate(db, x.model, x.id) ELSE CanCreate(db, {x})
           /\ Writable(c, w) /\ Apply(c, w)
    /\ UNCHANGED <<isolation, pc, req, wr, tasks>>

-----------------------------------------------------------------------------
(* Transactions. *)

Begin(c, r) ==
    /\ pc[c] = "idle" /\ r.op \notin {"create", "upsert"}
    /\ MayRun(c)
    /\ req' = [req EXCEPT ![c] = r]
    /\ pc' = [pc EXCEPT ![c] =
           CASE r.op \in {"createMany", "delete"} -> "tasks"
             [] r.op = "update" /\ r.nested = NoModel -> "write"
             [] r.op = "updateMany" /\ IsSimple(r) -> "write"
             [] OTHER -> "find"]
    /\ tasks' = [tasks EXCEPT ![c] =
           CASE r.op = "createMany" ->
                  {[Task("create", x.model, <<x.id>>) EXCEPT !.owner = x.owner] :
                      x \in r.items}
             [] r.op = "delete" -> {Task("delete", r.model, <<r.id>>)}
             [] OTHER -> {}]
    /\ UNCHANGED <<db, isolation, wr, late>>

\* The candidates of deleteMany, of an updateMany that touches a base, and of
\* a deleteMany nested in an update, which runs ahead of the update.
Find(c) ==
    /\ pc[c] = "find"
    /\ LET r == req[c]
           v == View(c)
           candidates ==
               IF r.op = "update" THEN {s[2] : s \in Referring(v, r.nested, r.id)}
               ELSE {i \in r.ids : <<r.model, i>> \in Present(v)}
           model == IF r.op = "update" THEN r.nested ELSE r.model
           kind == IF r.op = "updateMany" THEN "update" ELSE "delete"
       IN  tasks' = [tasks EXCEPT ![c] =
                        {Task(kind, model, <<i>>) : i \in candidates}]
    /\ pc' = [pc EXCEPT ![c] = "tasks"]
    /\ UNCHANGED <<db, isolation, req, wr, late>>

Id(t) == t.path[Len(t.path)]

\* Faulty: the deletes it caused are not awaited.
AwaitsNothing(c, t) == {}

\* the cascaded deletes a delete waits for
Awaited(c, t) ==
    {k \in tasks[c] : Len(k.path) = Len(t.path) + 1
                       /\ SubSeq(k.path, 1, Len(t.path)) = t.path}

\* One relation of the deleted entity is looked up; after the last one all
\* the entities found are deleted first.
LookUp(c, t) ==
    /\ t.kind = "delete" /\ t.todo # {}
    /\ \E k \in t.todo :
        LET found == t.found \cup Referring(View(c), k, Id(t))
            rest == [t EXCEPT !.todo = @ \ {k}, !.found = found]
            cascaded == {Task("delete", s[1], Append(t.path, s[2])) : s \in found}
        IN  tasks' = [tasks EXCEPT ![c] = (@ \ {t}) \cup
                IF rest.todo # {} THEN {rest}
                ELSE {[rest EXCEPT !.found = {}]} \cup cascaded]
    /\ UNCHANGED <<db, isolation, pc, req, wr, late>>

\* A statement of task t writes w, or fails and rolls everything back.
Run(c, possible, w, rest) ==
    \/ /\ possible /\ Writable(c, w)
       /\ wr' = [wr EXCEPT ![c] = Over(@, w)]
       /\ tasks' = [tasks EXCEPT ![c] = rest]
       /\ UNCHANGED <<db, isolation, pc, req, late>>
    \/ ~possible /\ Abort(c)

\* The entity's own row goes first, then its bases one by one.
DeleteLevel(c, t) ==
    /\ t.kind = "delete" /\ t.todo = {} /\ Awaited(c, t) = {}
    /\ LET v == View(c)
           level == IF t.base = NoModel THEN t.model ELSE t.base
           s == <<level, Id(t)>>
           exists == s \in Present(v)
       IN  Run(c, exists, IF exists THEN DeleteRow(v, s) ELSE <<>>,
               (tasks[c] \ {t}) \cup
                   IF Base[level] = NoModel THEN {}
                   ELSE {[t EXCEPT !.base = Base[level]]})

UpdateOne(c, t) ==
    /\ t.kind = "update"
    /\ LET ok == CanUpdate(View(c), t.model, Id(t))
       IN  Run(c, ok, IF ok THEN UpdateRows(View(c), t.model, Id(t), req[c].levels)
                      ELSE <<>>, tasks[c] \ {t})

CreateOne(c, t) ==
    /\ t.kind = "create"
    /\ LET X == {[model |-> t.model, id |-> Id(t), owner |-> t.owner]}
       IN  Run(c, CanCreate(View(c), X), CreateRows(X), tasks[c] \ {t})

Step(c) ==
    /\ pc[c] = "tasks"
    /\ \E t \in tasks[c] :
        LookUp(c, t) \/ DeleteLevel(c, t) \/ UpdateOne(c, t) \/ CreateOne(c, t)

AllSettled(c) == pc[c] = "tasks" /\ tasks[c] = {}

\* update itself, after what is nested in it, and the simple updateMany
Write(c) ==
    /\ pc[c] = "write" \/ (AllSettled(c) /\ req[c].op = "update")
    /\ LET r == req[c]
           v == View(c)
           ok == r.op = "update" => CanUpdate(v, r.model, r.id)
           w == CASE ~ok -> <<>>
                  [] r.op = "update" -> UpdateRows(v, r.model, r.id, r.levels)
                  [] OTHER -> NativeUpdateRows(v, r.model, r.ids, r.levels)
       IN  \/ /\ ok /\ Writable(c, w)
              /\ wr' = [wr EXCEPT ![c] = Over(@, w)]
              /\ pc' = [pc EXCEPT ![c] = "commit"]
              /\ UNCHANGED <<db, isolation, req, tasks, late>>
           \/ (~ok /\ Abort(c))

Commit(c) ==
    /\ pc[c] = "commit" \/ (AllSettled(c) /\ req[c].op # "update")
    /\ LET w == [s \in {t \in Slots : wr[c][t] # Clean} |-> wr[c][s]]
       IN  Apply(c, w)
    /\ Close(c)

\* A time-out, a deadlock, a lost connection, a crash of the process.
Interrupted(c) == pc[c] # "idle" /\ Abort(c)

Next ==
    \E c \in Clients :
        \/ \E r \in Menu[c] : Create(c, r) \/ Upsert(c, r) \/ Begin(c, r)
        \/ Find(c) \/ Step(c) \/ Write(c) \/ Commit(c) \/ Interrupted(c)

Spec == Init /\ [][Next]_vars

-----------------------------------------------------------------------------
(* Reading: the levels of an entity put together again. *)

\* A query includes the bases upwards and all concrete models downwards.
Included(v, m, i) ==
    {l \in Lineage[m] \cup {k \in Models : m \in Lineage[k]} : <<l, i>> \in Present(v)}

Above(v, m, i) == Included(v, m, i) \cap Lineage[m]

\* going down, the discriminator says which of the included levels to merge
Below(v, m, i) ==
    LET included == Included(v, m, i)
    IN  Reachable(included, m, [l \in included |-> {v[<<l, i>>].sub} \cap included])

Assembled(v, m, i) == Above(v, m, i) \cup Below(v, m, i)

-----------------------------------------------------------------------------
(* Properties. *)

Whole(v, i) == SlotsOf(i) \subseteq Present(v)

\* An entity reads the same through every model of its lineage: asked for
\* through its base, its concrete model or one between them, findX returns
\* the fields of all its levels and of no other model.
ReadsAgree ==
    \A i \in Ids : Whole(db, i) =>
        \A m \in Lineage[Kind[i]] : Assembled(db, m, i) = Lineage[Kind[i]]

Orphan(v, i) ==
    \E s \in SlotsOf(i) \cap Present(v) :
        v[s].sub # NoModel /\ v[<<v[s].sub, i>>] = NoRow

Targets(r) ==
    CASE r.op = "delete" -> {r.id} [] r.op = "deleteMany" -> r.ids [] OTHER -> {}

\* The rows call r is about to delete: of the entities it names, or of those it
\* finds by their owner, through the model it was made on.
Roots(v, r) ==
    CASE r.op = "delete" -> {<<r.model, r.id>>}
      [] r.op = "deleteMany" -> {s \in Present(v) : s[1] = r.model /\ s[2] \in r.ids}
      [] r.op = "update" -> Referring(v, r.nested, r.id)
      [] OTHER -> {}

\* Polymorphic entities that cascade from an entity known as one of model
\* x[1], which sees the relations declared for it or its bases.
FoundFrom(v, x) ==
    {s \in Present(v) : /\ Base[s[1]] # NoModel /\ OnDelete[s[1]] = "Cascade"
                        /\ Owner[s[1]] \in Lineage[x[1]] /\ v[s].fk = x[2]}

\* What the enhancement has to look for and delete itself; the entities of
\* `new` it may not know of.
Sought(v, r, new) ==
    LET U == {s \in Present(v) : s[2] \notin new} \cup Roots(v, r)
        next == [z \in U |-> FoundFrom(v, z) \cap U]
    IN  {x \in U : \E y \in Roots(v, r) : x \in Reachable(U, y, next)}

\* The rows that cascade from these although the code does not look for them:
\* the whole of an entity that has one row there, or that of a polymorphic one by a
\* relation the model through which its owner is deleted does not see.
Overlooked(v, r, new) ==
    {s \in Present(v) :
        /\ OnDelete[s[1]] = "Cascade"
        /\ \E x \in Sought(v, r, new) : x[2] = v[s].fk /\ s \notin FoundFrom(v, x)}

\* A delete that cascades leaves no base row behind whose concrete rows are
\* gone, not even when creates run beside it: getRelationDelegateEntities-
\* ForCascadeDelete finds every polymorphic dependent, except those created
\* while the transaction ran and those the database reaches from a row that the
\* code overlooks.  And the call has removed every level of what it was asked to
\* delete, through whichever model it was made.
DeletesAreComplete ==
    [][/\ \A i \in Ids : Orphan(db', i) /\ ~Orphan(db, i) =>
            \E c \in Clients :
                /\ req[c] # NoReq /\ req'[c] = NoReq
                /\ \/ i \in late[c]
                   \/ \E s \in Overlooked(db, req[c], late[c]) :
                         SlotsOf(i) \cap Swept(db, s) # {}
       /\ \A c \in Clients :
            req[c] # NoReq /\ req'[c] = NoReq /\ db' # db
            => \A y \in Roots(db, req[c]) :
                  y[2] \notin late[c] => SlotsOf(y[2]) \cap Present(db') = {} ]_vars

\* entities that cascade from one of S, at any distance
CascadesFrom(v, S) ==
    LET reach[n \in 0 .. Cardinality(Ids)] ==
            IF n = 0 THEN {}
            ELSE LET last == reach[n - 1]
                 IN  {i \in Ids : \E s \in SlotsOf(i) \cap Present(v) :
                        OnDelete[s[1]] = "Cascade" /\ v[s].fk \in S \cup last}
    IN  reach[Cardinality(Ids)]

\* The concurrent deletes of one deleteMany (Promise.all) get in each other's
\* way only if one candidate cascades from another: otherwise no task finds a
\* row gone that its own transaction deleted.
OwnDeletesDoNotCollide ==
    \A c \in Clients : \A t \in tasks[c] :
        LET level == IF t.base = NoModel THEN t.model ELSE t.base
        IN  /\ t.kind = "delete" /\ wr[c][<<level, Id(t)>>] = NoRow
            => CascadesFrom(db, Targets(req[c])) \cap Targets(req[c]) # {}

-----------------------------------------------------------------------------
(* The rows of an entity as the entity they stand for. *)

Root(i) == CHOOSE l \in Lineage[Kind[i]] : Base[l] = NoModel

Entity(i) ==
    IF db[<<Root(i), i>>] = NoRow THEN NoRow
    ELSE LET levels == {l \in Lineage[Kind[i]] : db[<<l, i>>] # NoRow}
             owners == {db[<<l, i>>].fk : l \in levels} \ {NoId}
         IN  [owner |-> IF owners = {} THEN NoId ELSE CHOOSE p \in owners : TRUE,
              data |-> [l \in levels |-> db[<<l, i>>].val],
              at |-> IF \E l \in levels \cap UpdatedAt : db[<<l, i>>].at = 1
                     THEN 1 ELSE 0]

Contract == INSTANCE DelegateContract WITH
    Levels <- [i \in Ids |-> Lineage[Kind[i]]],
    Cascades <- LAMBDA i : \E l \in Lineage[Kind[i]] :
                    Owner[l] # NoModel /\ OnDelete[l] = "Cascade",
    Stamped <- LAMBDA i : UpdatedAt \cap Lineage[Kind[i]] # {},
    NoEntity <- NoRow,
    entities <- [i \in Ids |-> Entity(i)]

\* With serializable transactions every call acts on whole entities: it
\* creates them, changes them (an inherited @updatedAt with them) or deletes
\* them with all that cascades from them, or it does nothing; but for the deletes
\* that leave base rows behind, which DeletesAreComplete is about.
ImplementsContract ==
    Contract!Init /\
    [][isolation = "Serializable" /\ (\A i \in Ids : ~Orphan(db, i) /\ ~Orphan(db', i))
         => UNCHANGED [i \in Ids |-> Entity(i)] \/ Contract!Next]_vars
=============================================================================
