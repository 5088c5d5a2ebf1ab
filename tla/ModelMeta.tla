------------------------------- MODULE ModelMeta -------------------------------
(***************************************************************************)
(* The model metadata generated from a merged schema                       *)
(* (sdk/src/model-meta-generator.ts) that the enhancements read at run     *)
(* time, and the paths the delegate enhancement takes by it from a model   *)
(* to the table that has a field (enhancements/node/delegate.ts).          *)
(***************************************************************************)
EXTENDS PrismaSchema

BackLink(s, f) == IF IsRelation(s, f) THEN RelationBackLink(s, f) ELSE <<>>
HasRelationAttribute(f) == f.rel # NoRel

IsRelationOwner(s, f) ==
    LET back == BackLink(s, f)
    IN IsRelation(s, f) /\
         \/ back = <<>>
         \/ ~HasRelationAttribute(f) /\ ~HasRelationAttribute(Head(back))
         \/ HoldsKey(f)

ForeignKeyMapping(f) == {<<f.rel.references[i], f.rel.fields[i]>> : i \in DOMAIN f.rel.fields}

\* @id, then @@id, @unique and @@unique, each name once.
UniqueConstraints(s, m) ==
    LET single(fields) == [i \in DOMAIN fields |-> <<fields[i].name>>]
        lists(attributes) == [i \in DOMAIN attributes |-> attributes[i].fields]
        all == single(SelectSeq(s[m].fields, LAMBDA f : f.id)) \o lists(s[m].ids)
               \o single(SelectSeq(s[m].fields, LAMBDA f : f.unique)) \o lists(s[m].uniques)
        add(known, names) == IF Contains(known, names) THEN known ELSE Append(known, names)
    IN FoldLeft(add, <<>>, all)

\* Where the field is stored when not in the model's own table.
InheritedFromInfo(s, f) == IF IsIdField(s, f) THEN None ELSE InheritedFromDelegate(s, f)

FieldInfo(s, f) ==
    [name |-> f.name, type |-> f.type, isArray |-> f.array, isOptional |-> f.optional,
     isDataModel |-> IsRelation(s, f), isId |-> IsIdField(s, f),
     backLink |-> IF BackLink(s, f) = <<>> THEN None ELSE Head(BackLink(s, f)).name,
     isRelationOwner |-> IsRelationOwner(s, f),
     isForeignKey |-> IsForeignKey(s, f),
     foreignKeyMapping |-> ForeignKeyMapping(f),
     inheritedFrom |-> InheritedFromInfo(s, f)]

Meta(s, short) ==
    [short |-> short,
     models |-> [m \in DOMAIN s |->
        [fields |-> [i \in DOMAIN s[m].fields |-> FieldInfo(s, s[m].fields[i])],
         baseTypes |-> s[m].supers,
         isDelegate |-> IsDelegate(s, m),
         uniqueConstraints |-> UniqueConstraints(s, m)]]]

-----------------------------------------------------------------------------
(* How the delegate enhancement uses it. *)

\* Faulty: the full name, whether the table has it or a short one.
MakeAuxRelationNameFull(meta, m) == Aux(<<m>>)

MakeAuxRelationName(meta, m) ==
    IF Aux(<<m>>) \in DOMAIN meta.short THEN meta.short[Aux(<<m>>)] ELSE Aux(<<m>>)

BaseModel(meta, m) == meta.models[m].baseTypes

\* The links followed from model m to the base that stores a field:
\* <<model, link, next model>>.
RECURSIVE BasePath(_, _, _)
BasePath(meta, m, storedIn) ==
    IF BaseModel(meta, m) = <<>> THEN <<>>
    ELSE LET base == Head(BaseModel(meta, m))
             step == <<m, MakeAuxRelationName(meta, base), base>>
         IN IF base = storedIn THEN <<step>>
            ELSE <<step>> \o BasePath(meta, base, storedIn)

\* The links that bring a delegate model's rows together with those below it.
SubModels(meta, m) == {k \in DOMAIN meta.models : m \in ToSet(BaseModel(meta, k))}
ConcreteLinks(meta, m) == {<<m, MakeAuxRelationName(meta, k), k>> : k \in SubModels(meta, m)}
-----------------------------------------------------------------------------
(* How the policy guards do (policy/expression-writer.ts): a rule on a      *)
(* field of a base follows the links, by their full names.                  *)

RECURSIVE WriteBaseHierarchy(_, _, _)
WriteBaseHierarchy(s, m, base) ==
    IF m = base THEN <<>>
    ELSE LET next == Head(SelectSeq(s[m].supers, LAMBDA b : IsDelegate(s, b)))
         IN <<<<m, Aux(<<next>>), next>>>> \o WriteBaseHierarchy(s, next, base)

GuardPath(s, f) == IF IsDelegate(s, f.from) THEN WriteBaseHierarchy(s, f.of, f.from) ELSE <<>>
=============================================================================
