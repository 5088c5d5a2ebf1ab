--------------------------- MODULE QueryAnalyzer ---------------------------
(***************************************************************************)
(* Which cached queries a mutation made through a hook can reach: what     *)
(* nested-write-visitor.ts visits of its payload, which models             *)
(* query-analyzer.ts takes from that, which query results mutator.ts       *)
(* changes, and, to compare, which rows the database really touches.       *)
(*                                                                         *)
(* Of a payload only the models and kinds of its writes are kept, and the  *)
(* models whose referred-to fields it updates; of the arguments of a query *)
(* only the models it selects and those it filters or sorts by.            *)
(***************************************************************************)
CONSTANTS
    Models,         \* the data models
    ForeignKeys,    \* the relations, by the side that holds the fields
    BaseTypes       \* modelMeta.models[m].baseTypes: the delegate bases of a model

\* What a relation does when the row it refers to goes, or gets another key,
\* written or by default; Restrict stands for NoAction too.
ReferentialActions == {"Cascade", "SetNull", "SetDefault", "Restrict"}

\* A relation of owner to a row of another model or its own; other relations refer
\* to the fields it is made of when it is inKey.
Relations == [owner : Models, of : Models, onDelete : ReferentialActions,
              onUpdate : ReferentialActions, inKey : BOOLEAN]

ASSUME ModelMetaAssumption ==
    /\ ForeignKeys \subseteq Relations
    /\ BaseTypes \in [Models -> SUBSET Models]

\* getDeleteCascades: modelMeta.deleteCascade, by model
DeleteCascade ==
    [m \in Models |->
        {k.owner : k \in {f \in ForeignKeys : f.of = m /\ f.onDelete = "Cascade"}} \ {m}]

Operations == {"create", "createMany", "update", "updateMany", "upsert",
               "connect", "delete", "deleteMany"}
Deletes == {"delete", "deleteMany"}

\* One write of a payload, and the arguments of a mutation.
Visits == [model : Models, kind : Operations]
Mutations == [model : Models, operation : Operations,
              args : {"none", "empty", "full"}, nested : SUBSET Visits,
              rekeyed : SUBSET Models]

\* A query key: reads are the models below select and include, filters those
\* that only where, orderBy or `_count: true' mention.
QueryKeys == [model : Models, reads : SUBSET Models, filters : SUBSET Models,
              find : BOOLEAN, optIn : BOOLEAN]

\* The smallest set of models that contains S and is closed under next.
ClosureOf(next, S) ==
    {x \in Models : \A C \in SUBSET Models :
        (S \subseteq C /\ \A y \in C : next[y] \subseteq C) => x \in C}

(***************************************************************************)
(* The visitor                                                             *)
(***************************************************************************)
\* visit takes a create's data and a delete's where: when that is missing
\* ("empty") doVisit returns before it calls back.
Visited(c) ==
    LET top == {[model |-> c.model, kind |-> c.operation]} IN
    IF c.args = "none" \/ (c.args = "empty" /\ c.operation \in Deletes \cup {"create"})
    THEN {}
    ELSE IF c.operation \in Deletes THEN top ELSE top \cup c.nested

(***************************************************************************)
(* The analyzer                                                            *)
(***************************************************************************)
\* Faulty: only the top-level model counts.
TopModelOnly(c) == {c.model}

MutatedModels(c) ==
    LET visited == {v.model : v \in Visited(c)}
        deleted == {v.model : v \in {w \in Visited(c) : w.kind \in Deletes}}
        cascades == UNION {ClosureOf(DeleteCascade, DeleteCascade[x]) : x \in deleted}
    IN ClosureOf(BaseTypes, {c.model} \cup visited \cup cascades)

ReadModels(q) == {q.model} \cup q.reads

\* getInvalidationPredicate: a direct match, or a nested read.
Invalidates(c, q) == MutatedModels(c) \cap ReadModels(q) # {}

(***************************************************************************)
(* The mutator                                                             *)
(***************************************************************************)
Mirrored == {"create", "createMany", "update", "upsert", "delete"}

\* applyMutation may change a find result that holds objects of a model it has
\* a callback for; whether it does depends on the data.
MayApply(c, q) ==
    /\ q.find
    /\ \E v \in Visited(c) : v.kind \in Mirrored /\ v.model \in ReadModels(q)

(***************************************************************************)
(* The database                                                            *)
(***************************************************************************)
\* A row of a model is a row of its delegate bases, and may be one of a model
\* based on it.
Entity ==
    [x \in Models |->
        {y \in Models : y \in ClosureOf(BaseTypes, {x}) \/ x \in ClosureOf(BaseTypes, {y})}]

Writes(c) == c.nested \cup {[model |-> c.model, kind |-> c.operation]}

\* By model, those that hold one of these relations to an entity of it.
OwnersBy(relations) ==
    [x \in Models |-> {k.owner : k \in {f \in relations : f.of \in Entity[x]}}]
Cascading == OwnersBy({f \in ForeignKeys : f.onDelete = "Cascade"})
Emptied == OwnersBy({f \in ForeignKeys : f.onDelete \in {"SetNull", "SetDefault"}})
EmptiedKeys == OwnersBy({f \in ForeignKeys : f.onDelete \in {"SetNull", "SetDefault"} /\ f.inKey})
Following == OwnersBy({f \in ForeignKeys : f.onUpdate # "Restrict"})
FollowingKeys == OwnersBy({f \in ForeignKeys : f.onUpdate # "Restrict" /\ f.inKey})

\* The models that lose rows: deletes cascade along the relations.
Gone(c) == ClosureOf(Cascading, {v.model : v \in {w \in Writes(c) : w.kind \in Deletes}})

\* The models of which rows get another key.
Rekeyed(c) == ClosureOf(FollowingKeys, c.rekeyed \cup UNION {EmptiedKeys[x] : x \in Gone(c)})

\* The models that the database updates by itself: relations to rows that go are
\* emptied, and those to rows with another key follow it.
Adjusted(c) == UNION ({Emptied[x] : x \in Gone(c)} \cup {Following[x] : x \in Rekeyed(c)})

\* What a write of the payload reaches.
TouchedModels(c) ==
    UNION {Entity[x] : x \in {v.model : v \in Writes(c)} \cup Gone(c) \cup Adjusted(c)}

\* The analyzer follows no referential action but the cascade of a delete.
Overlooked(c) == (UNION {Entity[x] : x \in Adjusted(c)}) \ MutatedModels(c)

\* The result of the query may be another after the mutation.
Affects(c, q) == TouchedModels(c) \cap (ReadModels(q) \cup q.filters) # {}
=============================================================================
