------------------------------- MODULE ZodInputs -------------------------------
(***************************************************************************)
(* The zod schemas of the arguments of queries (plugins/zod/transformer.ts)*)
(* and what a plugin makes of a model in all.                              *)
(*                                                                         *)
(* The arguments of an operation are a function from their names to        *)
(* whether they are required and the values they take.  A value stands for *)
(* all that nothing tells apart: the input type it is of, and whether a    *)
(* payload tells the kind of a row; of a selection whether it says true or *)
(* false of columns, or names relations or the links of a hierarchy; of an *)
(* order what it is by.                                                    *)
(***************************************************************************)
EXTENDS ZodSchemas, ClientCalls

Must(values) == [required |-> TRUE, values |-> values]
May(values) == [required |-> FALSE, values |-> values]

Relations(p, m) == IF \E f \in Shown(p, m) : f.type \in DOMAIN p THEN {"relations"} ELSE {}
LinkNames(p, m) == IF Shown(p, m) = FieldsOf(p, m) THEN {} ELSE {"links"}

\* Payloads that give the fields that tell the kind of a row.
WithKind == [CreateInput |-> "CreateInputOfKind", UncheckedCreateInput |-> "UncheckedCreateInputOfKind",
             CreateManyInput |-> "CreateManyInputOfKind", CreateManyInputs |-> "CreateManyInputsOfKind",
             UpdateInput |-> "UpdateInputOfKind", UncheckedUpdateInput |-> "UncheckedUpdateInputOfKind",
             UpdateManyMutationInput |-> "UpdateManyMutationInputOfKind",
             UncheckedUpdateManyInput |-> "UncheckedUpdateManyInputOfKind"]

\* ModelSelect and ModelInclude, which Prisma does not tell of and the SDK
\* makes: the links of a hierarchy are fields like others unless they are cut.
SelectValues(p, m, links) == {"fields", "noFields"} \cup Relations(p, m) \cup links
IncludeValues(p, m, links) == Relations(p, m) \cup links

Selection(p, m, hasRelation, links) ==
    ("select" :> May(SelectValues(p, m, links)))
    @@ IF hasRelation THEN "include" :> May(IncludeValues(p, m, links)) ELSE <<>>

Where == "where" :> May({"WhereInput"})
WhereUnique == "where" :> Must({"WhereUniqueInput"})
Data(values) == "data" :> Must(values)
OrderBy(p, m) == "orderBy" :> May({"scalarOrder"} \cup IF Relations(p, m) = {} THEN {} ELSE {"relationOrder"})
Cursor == "cursor" :> May({"WhereUniqueInput"})
TakeSkip == ("take" :> May({"number"})) @@ ("skip" :> May({"number"}))
Distinct == "distinct" :> May({"ScalarFieldEnum"})

\* resolveAggregateOperationSupport: sums and averages are of numbers.
AggregateOperationSupport(p, m) ==
    {"_count", "_min", "_max"}
    \cup IF \E f \in Shown(p, m) : ~f.array /\ "number" \in Kinds(f.type) THEN {"_sum", "_avg"} ELSE {}

\* CountAggregateInput and the others take nothing but true.
Aggregates(p, m) ==
    [a \in AggregateOperationSupport(p, m) |->
        May(IF a = "_count" THEN {"true", "fields"} ELSE {"fields"})]

\* generateInputSchemas: the schemas of objects know neither kinds nor links,
\* which is to say that they refuse them if they are strict.
Strict(options) == options.mode = "strict"
Selected(p, m, options) ==
    Selection(p, m, \E f \in FieldsOf(p, m) : f.type \in DOMAIN p,
              IF Strict(options) THEN {} ELSE LinkNames(p, m))

Page(p, m) == OrderBy(p, m) @@ Cursor @@ TakeSkip

FindSchemas(p, m, options) ==
    LET find == Selected(p, m, options) @@ Where @@ Page(p, m) @@ Distinct
    IN [findUnique |-> Selected(p, m, options) @@ WhereUnique, findFirst |-> find, findMany |-> find]

\* A payload is of a type with relations or, unless that is turned off, of one
\* with foreign keys.
WriteSchemas(p, m, options) ==
    LET payload(types) == types \cup IF Strict(options) THEN {} ELSE {WithKind[type] : type \in types}
        either(checked, unchecked) ==
            payload({checked} \cup IF options.noUncheckedInput THEN {} ELSE {unchecked})
        created == either("CreateInput", "UncheckedCreateInput")
        updated == either("UpdateInput", "UncheckedUpdateInput")
        updatedMany == either("UpdateManyMutationInput", "UncheckedUpdateManyInput")
        selection == Selected(p, m, options)
    IN [create |-> selection @@ Data(created),
        createMany |-> Data(payload({"CreateManyInput", "CreateManyInputs"}))
                       @@ ("skipDuplicates" :> May({"true", "false"})),
        delete |-> selection @@ WhereUnique,
        deleteMany |-> Where,
        update |-> selection @@ Data(updated) @@ WhereUnique,
        updateMany |-> Data(updatedMany) @@ Where,
        upsert |-> selection @@ WhereUnique @@ ("create" :> Must(created)) @@ ("update" :> Must(updated))]

\* Groups are ordered by columns only.
AggregateSchemas(p, m) ==
    [aggregate |-> Where @@ Page(p, m) @@ Aggregates(p, m),
     groupBy |-> Where @@ ("orderBy" :> May({"scalarOrder"})) @@ TakeSkip
                 @@ ("having" :> May({"ScalarWhereWithAggregatesInput"}))
                 @@ ("by" :> Must({"ScalarFieldEnums"})) @@ Aggregates(p, m),
     count |-> Where @@ Page(p, m) @@ Distinct @@ ("select" :> May({"true", "fields"}))]

InputSchemas(p, m, options) ==
    FindSchemas(p, m, options) @@ WriteSchemas(p, m, options) @@ AggregateSchemas(p, m)

\* wrapWithZodObject
ParsesArgs(schema, mode, args) ==
    /\ \A a \in DOMAIN schema : schema[a].required => a \in DOMAIN args
    /\ mode = "strict" => DOMAIN args \subseteq DOMAIN schema
    /\ \A a \in DOMAIN args \cap DOMAIN schema : args[a] \in schema[a].values

-----------------------------------------------------------------------------
(* What a zod plugin makes of the models: only with all of its schemas are  *)
(* there any of queries.                                                    *)

GenerateZod(s, p, options) ==
    [m \in IncludedModels(s, options) |->
        ("mode" :> options.mode)
        @@ ("input" :> IF options.modelOnly \/ m \notin DOMAIN p THEN <<>> ELSE InputSchemas(p, m, options))
        @@ ModelSchemas(s, m, options.mode)]
=============================================================================
