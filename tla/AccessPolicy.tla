---------------------------- MODULE AccessPolicy ----------------------------
(***************************************************************************)
(* The vocabulary of policy enforcement: rows, database states, the guards *)
(* a generated policy definition holds for one model and one user, and the *)
(* ways policy-utils.ts combines them.                                     *)
(*                                                                         *)
(* A guard is the set of sites (a row identity and a database state) at    *)
(* which the Prisma filter holds, so it may depend on other rows, as       *)
(* policies over relations do.  The constant conditions are its extremes:  *)
(* isFalse(g) is g = {} and isTrue(g) is g = Sites.                        *)
(***************************************************************************)
CONSTANTS
    Ids,        \* identities of the rows of the model
    Fields,     \* its scalar fields other than the identity
    Vals,       \* values of a field
    NoRow,      \* "there is no such row"
    Slots,      \* positions of a createMany payload
    PolicyOf    \* the policy definition each kind of user gets, by name

Rows == [Fields -> Vals]

ASSUME NoRowAssumption == NoRow \notin Rows

States == [Ids -> Rows \cup {NoRow}]
NoRows == [i \in Ids |-> NoRow]
Sites == Ids \X States

\* what a post-update rule relates: the row, its value before, the state after
PostSites == Ids \X (Rows \cup {NoRow}) \X States

\* the literal fields of an update payload
PartialRows == UNION {[F -> Vals] : F \in SUBSET Fields}
Items == [row : Rows, slot : Slots, id : Ids]

\* Faulty: an update replaces the row by its payload.
WrittenOver(row, data) == data

Written(row, data) ==
    [f \in Fields |-> IF f \in DOMAIN data THEN data[f] ELSE row[f]]

(***************************************************************************)
(* The policy of one model as one user sees it.  updateChecker,            *)
(* deleteChecker and fieldChecker are the entity checkers (rules comparing *)
(* fields across models, run in JavaScript on fetched rows); Sites stands  *)
(* for "no checker".  Those of create and postUpdate always run with their *)
(* guard and are part of it; read has none, the validator forbids them.    *)
(* valid is the set of rows the Zod schema accepts, Rows when there is no  *)
(* schema.                                                                 *)
(***************************************************************************)
PolicyType ==
    [read : SUBSET Sites, create : SUBSET Sites,
     update : SUBSET Sites, delete : SUBSET Sites,
     post : SUBSET PostSites,
     postGuarded : BOOLEAN,      \* hasAuthGuard(model, 'postUpdate')
     needsPre : BOOLEAN,         \* preUpdateSelector is not empty
     fieldGuard : [Fields -> SUBSET Sites],
     override : [Fields -> SUBSET Sites],
     fieldChecker : [Fields -> SUBSET Sites],
     updateChecker : SUBSET Sites, deleteChecker : SUBSET Sites,
     inputAllow : SUBSET Rows, inputDeny : SUBSET Rows,
     valid : SUBSET Rows]

Pol(r) == PolicyOf[r.pol]

\* What the generator guarantees of a definition: a static verdict on the
\* create payload agrees with the guard, and no guard means no restriction.
Coherent(p) ==
    /\ \A x \in Sites : x[2][x[1]] \in p.inputAllow => x \in p.create
    /\ \A x \in Sites : x[2][x[1]] \in p.inputDeny => x \notin p.create
    /\ p.inputAllow \cap p.inputDeny = {}
    /\ ~p.postGuarded => p.post = PostSites /\ ~p.needsPre

Ops == {"create", "createMany", "update", "updateMany", "upsert",
        "delete", "deleteMany"}

ASSUME PolicyAssumption ==
    /\ PolicyOf \in [DOMAIN PolicyOf -> PolicyType]
    /\ \A n \in DOMAIN PolicyOf : Coherent(PolicyOf[n])

Isolations == {"ReadCommitted", "Snapshot", "Serializable"}

(***************************************************************************)
(* One call of an enhanced client.  id is the row of a unique "where";     *)
(* where is the filter of a set operation, a set of (row identity, row);   *)
(* items the rows to create; returning marks the ...AndReturn variants;    *)
(* app says who owns the transaction: "plain" calls run their own,         *)
(* "interactive" ones run in the caller's, which a rejection aborts, and   *)
(* "swallow" ones in the transaction of a caller that catches the error    *)
(* and commits.  isolation is the transactionIsolationLevel the client was *)
(* enhanced with.                                                          *)
(***************************************************************************)
RequestType ==
    [op : Ops, pol : DOMAIN PolicyOf, app : {"plain", "interactive", "swallow"},
     isolation : Isolations,
     id : Ids, where : SUBSET (Ids \X Rows), items : SUBSET Items,
     skipDuplicates : BOOLEAN, returning : BOOLEAN, data : PartialRows]

WellFormed(r) ==
    /\ r.op \in {"create", "upsert"} => \E x \in Items : r.items = {x}
    /\ r.returning => r.op \in {"createMany", "updateMany"}

-----------------------------------------------------------------------------
\* tryReject: the guard is constantly false and no field rule overrides it
StaticallyDenied(p, op) ==
    /\ p[op] = {}
    /\ op = "update" => \A f \in Fields : p.override[f] = {}

\* getFieldUpdateGuards and its use: (model and every field) or every override
RejectedByField(p, F) == \E f \in F : p.fieldGuard[f] = {}

UpdateGuard(p, F) ==
    IF RejectedByField(p, F)
    THEN {}
    ELSE {x \in p.update : \A f \in F : x \in p.fieldGuard[f]}
         \cup {x \in Sites : F # {} /\ \A f \in F : x \in p.override[f]}

UpdateChecker(p, F) ==
    {x \in p.updateChecker : \A f \in F : x \in p.fieldChecker[f]}

\* the row is found by a query with the guard merged into its filter
Found(g, i, s) == s[i] # NoRow /\ <<i, s>> \in g

\* checkPolicyForUnique: no query is made when nothing restricts the operation
Passes(g, checker, i, s) ==
    \/ g = Sites /\ checker = Sites
    \/ Found(g \cap checker, i, s)

MayUpdate(p, F, i, s) == Passes(UpdateGuard(p, F), UpdateChecker(p, F), i, s)
MayDelete(p, i, s) == Passes(p.delete, p.deleteChecker, i, s)

\* checkPolicyForUnique as a post-write check: guard and schema of the full row
PassesCreate(p, i, s) ==
    \/ p.create = Sites /\ p.valid = Rows
    \/ Found(p.create, i, s) /\ s[i] \in p.valid

PassesPostUpdate(p, i, pre, s) ==
    \/ p.post = PostSites /\ p.valid = Rows
    \/ s[i] # NoRow /\ <<i, pre, s>> \in p.post /\ s[i] \in p.valid

\* validateUpdateInputSchema: the literal fields pass the partial schema
ValidData(p, data) ==
    \E row \in p.valid : \A f \in DOMAIN data : row[f] = data[f]

NeedsPostUpdate(p) == p.postGuarded \/ p.valid # Rows

\* the rows a set operation's filter selects
Matching(r, s) == {i \in Ids : s[i] # NoRow /\ <<i, s[i]>> \in r.where}

\* rows the native updateMany changes: the combined guard is in its filter
Updatable(r, s) ==
    {i \in Matching(r, s) : <<i, s>> \in UpdateGuard(Pol(r), DOMAIN r.data)}
Deletable(r, s) == {i \in Matching(r, s) : <<i, s>> \in Pol(r).delete}

=============================================================================
