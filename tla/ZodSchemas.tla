------------------------------ MODULE ZodSchemas ------------------------------
(***************************************************************************)
(* The zod schemas of a model's rows and of the inputs that create and     *)
(* update them (plugins/zod/generator.ts).                                 *)
(*                                                                         *)
(* An object schema is the keys it knows, each with whether it may be left *)
(* out, and what becomes of keys it does not know: "strict" refuses them.  *)
(***************************************************************************)
EXTENDS ModelMeta

\* makeFieldSchema: null is as good as nothing, and a to-many relation is optional.
MayMiss(s, f) == f.optional \/ (IsRelation(s, f) /\ f.array)

ObjectSchema(s, fields, unknown) ==
    [keys |-> [name \in {f.name : f \in ToSet(fields)} |->
                 \E f \in ToSet(fields) : f.name = name /\ MayMiss(s, f)],
     unknown |-> unknown]

PartialOf(z, names) == [z EXCEPT !.keys = [k \in DOMAIN @ |-> @[k] \/ k \in names]]
MakePartial(z) == PartialOf(z, DOMAIN z.keys)
Omit(z, names) == [z EXCEPT !.keys = [k \in DOMAIN @ \ names |-> @[k]]]
MakePassthrough(z) == [z EXCEPT !.unknown = "passthrough"]

\* zod's merge: the second schema's keys, and what it does with others.
MakeMerge(z, with) == [keys |-> with.keys @@ z.keys, unknown |-> with.unknown]

Parses(z, given) ==
    /\ \A k \in DOMAIN z.keys : z.keys[k] \/ k \in given
    /\ z.unknown = "strict" => given \subseteq DOMAIN z.keys

-----------------------------------------------------------------------------
ScalarFields(s, m) ==
    SelectSeq(s[m].fields,
        LAMBDA f : IsIdField(s, f) \/ ~(IsRelation(s, f) \/ IsForeignKey(s, f)))
FkFields(s, m) == SelectSeq(s[m].fields, LAMBDA f : IsForeignKey(s, f))
RelationFields(s, m) == SelectSeq(s[m].fields, LAMBDA f : IsRelation(s, f))

Discriminators(s, m) == {f.name : f \in {g \in ToSet(s[m].fields) : IsDiscriminator(s, g)}}

\* Faulty: lists, which are empty where nothing is given, must be given.
FieldsWithDefaultOnly(s, m) == {f.name : f \in {g \in ToSet(ScalarFields(s, m)) : g.default}}

FieldsWithDefault(s, m) ==
    {f.name : f \in {g \in ToSet(ScalarFields(s, m)) : g.default \/ g.array}}

\* Nothing is merged where there is nothing to merge.
Merged(s, z, fields, part(_)) ==
    IF fields = <<>> THEN z ELSE MakeMerge(z, part(ObjectSchema(s, fields, "strip")))

\* generateModelSchema: the schemas a model's file exports.
ModelSchemas(s, m, mode) ==
    LET base == ObjectSchema(s, ScalarFields(s, m), mode)
        mutated == Omit(base, Discriminators(s, m))
        createScalar == PartialOf(mutated, FieldsWithDefault(s, m))
        updateScalar == MakePartial(mutated)
        whole(z) == z
    IN [Scalar |-> base,
        Model |-> Merged(s, Merged(s, base, FkFields(s, m), whole), RelationFields(s, m), MakePartial),
        PrismaCreate |-> MakePassthrough(MakePartial(mutated)),
        PrismaUpdate |-> MakePassthrough(MakePartial(mutated)),
        CreateScalar |-> createScalar,
        Create |-> Merged(s, createScalar, FkFields(s, m), whole),
        UpdateScalar |-> updateScalar,
        Update |-> Merged(s, updateScalar, FkFields(s, m), MakePartial)]

-----------------------------------------------------------------------------
(* getExcludedModels: the option generateModels, with the models they       *)
(* refer to unless only model schemas are made.                             *)

RECURSIVE Closure(_, _)
Closure(s, models) ==
    LET next == models \cup {f.type : f \in UNION {ToSet(RelationFields(s, m)) : m \in models}}
    IN IF next = models THEN models ELSE Closure(s, next)

IncludedModels(s, options) ==
    IF options.generateModels = {} THEN DOMAIN s
    ELSE IF options.modelOnly THEN DOMAIN s \cap options.generateModels
    ELSE Closure(s, DOMAIN s \cap options.generateModels)
=============================================================================
