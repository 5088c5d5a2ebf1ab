------------------------------ MODULE SchemaBuild ------------------------------
(***************************************************************************)
(* What `zenstack generate` makes of a schema (cli-util.ts, loadDocument,  *)
(* and the plugins after it): validation, the merging of base models, the  *)
(* Prisma schema of the database, for the enhanced client the metadata     *)
(* and, where a model is a delegate, the logical Prisma schema, the zod    *)
(* schemas and the document of the JSON:API or the RPC API; and then what  *)
(* comes of a request that goes by the document, in the handler the        *)
(* metadata and the zod schemas were made for and the client of the Prisma *)
(* schema.                                                                 *)
(***************************************************************************)
EXTENDS SchemaValidation, PluginRunner, OpenApiRest, RpcApi

CONSTANTS Builds,       \* the schemas to build, each with its configuration
          Limits        \* the longest names, in words

VARIABLES
    build,      \* the schema as written and the configuration
    limit,      \* IDENTIFIER_NAME_MAX_LENGTH
    stage,      \* how far it is
    schema,     \* the merged schema
    plan,       \* the plugins that take part
    todo,       \* those that are still to run
    tables,     \* the physical Prisma schema, its models and short names
    meta,       \* the metadata
    client,     \* the Prisma schema of the client
    zod,        \* the zod schemas in each place
    docs,       \* the operations of the OpenAPI document
    last        \* a request and what came of it

made == <<tables, meta, client, zod, docs>>
vars == <<build, limit, stage, schema, plan, todo, made, last>>

source == build.schema
config == build.config

Nothing == <<>>

Init ==
    /\ build \in Builds
    /\ limit \in Limits
    /\ stage = "read"
    /\ schema = Nothing /\ plan = Nothing /\ todo = <<>>
    /\ tables = Nothing /\ meta = Nothing /\ client = Nothing
    /\ zod = <<>> /\ docs = {} /\ last = Nothing

Reject ==
    /\ stage = "read"
    /\ ~Accepted(source)
    /\ stage' = "rejected"
    /\ UNCHANGED <<build, limit, schema, plan, todo, made, last>>

Merge ==
    /\ stage = "read"
    /\ Accepted(source)
    /\ schema' = MergeBaseModels(source)
    /\ stage' = "merged"
    /\ UNCHANGED <<build, limit, plan, todo, made, last>>

-----------------------------------------------------------------------------
(* The plugin runner. *)

HasValidation(s) == \E m \in DOMAIN s : s[m].validated

\* Nothing runs if a plugin lacks one it depends on.
Plan ==
    LET all == CalculateAllPlugins(config, HasValidation(schema))
    IN /\ stage = "merged"
       /\ plan' = all
       /\ IF DependenciesDeclared(all)
          THEN stage' = "running" /\ todo' = Queue(config, all)
          ELSE stage' = "failed" /\ todo' = <<>>
       /\ UNCHANGED <<build, limit, schema, made, last>>

\* The next plugin is of this provider.
Run(provider) ==
    /\ stage = "running" /\ todo # <<>>
    /\ Head(todo).provider = provider
    /\ todo' = Tail(todo)
    /\ UNCHANGED <<build, limit, stage, schema, plan, last>>

GeneratePrisma ==
    /\ Run(Prisma)
    /\ tables' = Generate(schema, "physical", limit)
    /\ client' = tables'
    /\ UNCHANGED <<meta, zod, docs>>

NeedsLogicalClient(s) == \E m, k \in DOMAIN s : IsDelegate(s, m) /\ m \in ToSet(s[k].supers)

\* Without the Prisma plugin no names are known to be short.
Enhance ==
    /\ Run(Enhancer)
    /\ meta' = Meta(schema, IF tables = Nothing THEN <<>> ELSE tables.short)
    /\ client' = IF NeedsLogicalClient(schema)
                 THEN Generate(schema, "logical", limit) ELSE client
    /\ UNCHANGED <<tables, zod, docs>>

\* Zod and OpenAPI go by what Prisma says of the schema.
MakeZod ==
    /\ client # Nothing
    /\ Run(Zod)
    /\ zod' = (ZodOutput(config, Head(todo)) :> GenerateZod(schema, client.models, Head(todo).options)) @@ zod
    /\ UNCHANGED <<tables, meta, client, docs>>

MakeOpenApi ==
    /\ client # Nothing
    /\ Run(OpenApi)
    /\ docs' = IF Head(todo).options.flavor = "rest" THEN GeneratePaths(schema, config.mapping)
               ELSE GenerateRpcPaths(schema, client.models)
    /\ UNCHANGED <<tables, meta, client, zod>>

\* Makes code of its own that nothing here reads.
RunOther ==
    /\ todo # <<>>
    /\ Run(Head(todo).provider)
    /\ Head(todo).provider \notin {Prisma, Enhancer, Zod, OpenApi}
    /\ Head(todo).provider = Trpc => client # Nothing
    /\ UNCHANGED made

Fail ==
    /\ stage = "running" /\ todo # <<>>
    /\ client = Nothing
    /\ Head(todo).provider \in {Zod, OpenApi, Trpc}
    /\ stage' = "failed"
    /\ UNCHANGED <<build, limit, schema, plan, todo, made, last>>

Finish ==
    /\ stage = "running" /\ todo = <<>>
    /\ stage' = "built"
    /\ UNCHANGED <<build, limit, schema, plan, todo, made, last>>

-----------------------------------------------------------------------------
(* A request to the handler: one of the document, or a link of a resource. *)

NoOperation == [model |-> None]

\* Both handlers look for zod schemas where the runtime is.
Handled == IF "runtime" \in DOMAIN zod THEN zod["runtime"] ELSE <<>>

Answer(q, operation, response) ==
    /\ stage = "built" /\ last = Nothing
    /\ last' = [request |-> q, operation |-> operation, response |-> response]
    /\ UNCHANGED <<build, limit, stage, schema, plan, todo, made>>

Ask(q, operation) == Answer(q, operation, HandleRequest(meta, Handled, config.mapping, q))

Flavor == IF Has(config.plugins, OpenApi) THEN Head(Provided(config.plugins, OpenApi)).options.flavor
          ELSE None

AskDocumented ==
    /\ Flavor = "rest" /\ meta # Nothing
    /\ \E o \in docs : \E q \in RequestsOf(schema, meta, o) : Ask(q, o)

CallDocumented ==
    /\ Flavor = "rpc" /\ meta # Nothing
    /\ \E o \in docs : \E q \in RpcRequestsOf(o) : Answer(q, o, HandleRpcRequest(Handled, o, q))

FollowLink ==
    /\ Flavor = "rest" /\ docs # {} /\ meta # Nothing
    /\ \E m \in KnownTypes(meta) :
         \E q \in LinksOf(meta, config.mapping, m, IdText(meta, m)) : Ask(q, NoOperation)

Done == (stage \in {"rejected", "failed"} \/ (stage = "built" /\ (docs = {} \/ meta = Nothing \/ last # Nothing)))
        /\ UNCHANGED vars

Next ==
    \/ Reject \/ Merge \/ Plan \/ Fail \/ Finish
    \/ GeneratePrisma \/ Enhance \/ MakeZod \/ MakeOpenApi \/ RunOther
    \/ AskDocumented \/ CallDocumented \/ FollowLink \/ Done
Spec == Init /\ [][Next]_vars

-----------------------------------------------------------------------------
(* Properties. *)

Models == DOMAIN schema
Over == stage \in {"built", "failed"} /\ last = Nothing
Built == stage = "built" /\ last = Nothing /\ tables # Nothing /\ meta # Nothing
InTables(m, name) == \E f \in FieldsOf(tables.models, m) : f.name = name
Links(m) == {f \in FieldsOf(tables.models, m) : f.type \in Models}
FollowsLink(step) == \E f \in Links(step[1]) : f.name = step[2] /\ f.type = step[3]

\* Every field of the metadata is stored in exactly one table: its model's
\* own, or that of the base inheritedFrom names, at the end of links that the
\* database has under the names the delegate enhancement uses.
FieldsAreReached(m) ==
    \A info \in ToSet(meta.models[m].fields) :
        LET path == BasePath(meta, m, info.inheritedFrom)
        IN IF info.inheritedFrom = None THEN InTables(m, <<info.name>>)
           ELSE /\ path # <<>> /\ Last(path)[3] = info.inheritedFrom
                /\ InTables(info.inheritedFrom, <<info.name>>)
                /\ \A i \in DOMAIN path : FollowsLink(path[i])
                /\ ~InTables(m, <<info.name>>)

\* A policy rule on a field of a base finds the base's table: but guards are
\* written with the full names of links, also where the tables have short ones.
GuardsFollowLinks(m) ==
    \A f \in ToSet(schema[m].fields) : \A i \in DOMAIN GuardPath(schema, f) :
        LET step == GuardPath(schema, f)[i]
        IN FollowsLink(step) \/ step[2] \in DOMAIN tables.short

\* Two names never share a short one, in either schema.
ShortNamesAreDistinct ==
    Over => \A g \in {tables, client} \ {Nothing} :
        \A a, b \in DOMAIN g.short : g.short[a] = g.short[b] => a = b

-----------------------------------------------------------------------------
(* Shapes that pass validation and that the generated schemas do not carry.   *)

\* An abstract model below a delegate one takes the base out of the hierarchy:
\* merging keeps delegate bases only where they are extended directly.
NoAbstractBelowDelegate(s) ==
    \A m \in DOMAIN s : s[m].kind = "abstract" => \A b \in Bases(s, m) : ~IsDelegate(s, b)

\* A relation without a name of a model with its own base is ambiguous beside
\* the one that links their tables.
RelationsInHierarchyNamed(s) ==
    \A m \in DOMAIN s : \A f \in ToSet(s[m].fields) :
        f.type \in ToSet(s[m].supers) /\ IsDelegate(s, f.type) => f.rel.name # None

\* A key that is also the @id is replicated with its @id.
KeysToDelegatesAreNotIds(s) ==
    \A m \in DOMAIN s : \A f \in ToSet(s[m].fields) :
        IsDelegate(s, f.type) => \A k \in ToSet(s[m].fields) :
                                    k.name \in ToSet(f.rel.fields) => ~k.id

\* Validation takes part of a @@unique for enough to make a key unique.
UniqueKeysAreWhole(s) ==
    \A m \in DOMAIN s : \A f \in ToSet(ModelFields(s, m, TRUE)) :
        IsRelation(s, f) /\ HoldsKey(f) /\ (\E g \in Opposites(s, m, f) : ~g.array)
            => \A u \in ToSet(UniqueLists(s, m)) : f.rel.fields[1] \in ToSet(u) => Len(u) = 1

Carried(s) == /\ NoAbstractBelowDelegate(s)
              /\ RelationsInHierarchyNamed(s)
              /\ KeysToDelegatesAreNotIds(s)
              /\ UniqueKeysAreWhole(s)

\* The enhancements find every field of a model, every row below a delegate
\* model and what the rules of a model look at, in the tables that were made.
RowsAreReached ==
    Built =>
        \A m \in Models :
            /\ FieldsAreReached(m)
            /\ \A link \in ConcreteLinks(meta, m) : FollowsLink(link)
            /\ NoAbstractBelowDelegate(source) => GuardsFollowLinks(m)

\* Relations that are not alone between their models, bases included, have names.
SeveralRelationsNamed(s) ==
    \A m \in DOMAIN s : \A f, g \in ToSet(ModelFields(s, m, TRUE)) :
        (f # g /\ IsRelation(s, f) /\ f.type = g.type) => f.rel.name # None

\* The two sides of a relation name each other, and own it as its key is held:
\* one of them, or both where there is none; but a relation of many to many
\* that has a name has no owner.
RelationsHaveTwoSides ==
    (Built /\ NoAbstractBelowDelegate(source) /\ SeveralRelationsNamed(source)) =>
        \A m \in Models : \A f \in ToSet(schema[m].fields) :
            \A info \in {x \in ToSet(meta.models[m].fields) : x.name = f.name} :
            (info.isDataModel /\ info.backLink # None /\ info.inheritedFrom = None) =>
                \E back \in ToSet(meta.models[info.type].fields) :
                    /\ back.name = info.backLink /\ back.backLink = info.name
                    /\ \/ info.isRelationOwner # back.isRelationOwner
                       \/ info.isArray /\ back.isArray
                          /\ info.isRelationOwner = (f.rel.name = None)

\* `prisma generate` accepts the schema of the database, and the logical one.
PrismaAcceptsSchemas ==
    Over => \A g \in {tables, client} \ {Nothing} : Carried(source) => PrismaAccepts(g.models)

-----------------------------------------------------------------------------
(* Zod schemas. *)

RequiredKeys(z) == {<<name>> : name \in {k \in DOMAIN z.keys : ~z.keys[k]}}
RequiredNames(p, m) == {f.name : f \in RequiredColumns(p, m)}

\* Known: a foreign key must be given, whether it has a default or not.
KeysWithDefault(m) == {<<f.name>> : f \in {g \in ToSet(FkFields(schema, m)) : g.default /\ ~g.optional}}

\* The schema new rows are validated by asks for what the client asks for,
\* but for what the delegate enhancement fills in.
CreateSchemasMatchClient ==
    Built => \A place \in DOMAIN zod : \A m \in DOMAIN zod[place] :
        RequiredKeys(zod[place][m].Create) =
            (RequiredNames(client.models, m) \ {<<name>> : name \in Discriminators(schema, m)})
            \cup KeysWithDefault(m)

\* Configurations whose zod schemas are known not to serve the enhancer: none
\* is made where it looks, or not of every model.
NotForEnhancer(enhancer) ==
    LET declared == Provided(config.plugins, Zod)
    IN \/ ~config.defaultPlugins
       \/ enhancer.options.output /\ config.output
       \/ enhancer.options.output /\ declared # <<>> /\ ~IsPluginEnabled(config, Head(declared))
       \/ \E p \in ToSet(config.plugins) : p.provider \in {Zod, Trpc} /\ p.options.generateModels # {}

\* An enhancer that imports zod schemas finds one of each validated model.
ImportsAreGenerated ==
    Built => \A p \in ToSet(plan.core) :
        (p.provider = Enhancer /\ p.options.withZodSchemas /\ ~NotForEnhancer(p)) =>
            /\ GetZodImport(config, p) \in DOMAIN zod
            /\ \A m \in Models : schema[m].validated => m \in DOMAIN zod[GetZodImport(config, p)]

-----------------------------------------------------------------------------
(* Requests. *)

operation == last.operation
request == last.request
call == last.response.call

HasCompoundId(m) == Len(GetIdFields(meta, m)) > 1
HasStringId(m) == ~HasCompoundId(m) /\ TextOf(GetIdFields(meta, m)[1].type) = "word"
RelationField(m, name) == CHOOSE f \in Relationships(meta, m) : f.name = name
Target == IF operation.relation = None THEN operation.model
          ELSE RelationField(operation.model, operation.relation).type
Given == request.body.relationships

\* What the document offers and the handler or the client is known to refuse:
\* filters of a list of related resources, which are those of the other model,
FiltersOfParent == operation.relation # None /\ request.filters # <<>>

\* of list fields: equality, and tests whose whole value is no item,
TestsOfLists ==
    \E i \in DOMAIN request.filters : \E f \in FieldNamed(meta, Target, request.filters[i].keys[1]) :
        /\ f.isArray /\ ~f.isDataModel
        /\ LET filter == request.filters[i]
           IN \/ filter.op = None
              \/ filter.op = "isEmpty" /\ TextOf(f.type) = "digits"
              \/ f.type = "Boolean" /\ Len(filter.texts) > 1

\* a field named id that is part of an id,
FiltersPartOfId ==
    HasCompoundId(Target) /\ \E i \in DOMAIN request.filters : request.filters[i].keys = <<"id">>

\* sorting by a relation that several fields identify,
SortsByCompoundId ==
    call # NoCall /\ \E sort \in call.sorts : Last(sort.way).isDataModel /\ HasCompoundId(Last(sort.way).type)

\* including a relation of a relation and then that relation itself,
IncludesPrefix == \E i, j \in DOMAIN request.include :
                      i < j /\ IsStrictPrefix(request.include[j], request.include[i])

\* relationships that are null, and updates of others that no single text identifies,
NullRelationship == \E r \in DOMAIN Given : Given[r].kind = "null"
NullLinkage == operation.payload = "toOne" /\ ~request.body.given
RawIds == operation.payload = "update" /\
            \E r \in DOMAIN Given : ~HasStringId(RelationField(operation.model, r).type)

\* ids the client makes, which the handler does not read or the schema does
\* not take as keys,
IdsOfClient ==
    operation.payload = "create" /\
        \E f \in ToSet(schema[operation.model].fields) :
            IsIdField(schema, f) /\ ~f.default /\
                (IsForeignKey(schema, f) \/ ~HasCompoundId(operation.model))

\* what tells the kind of a row, and new rows of no kind,
KindsOfRow ==
    /\ operation.payload \in {"create", "update"}
    /\ \/ IsDelegate(schema, operation.model)
       \/ Discriminators(schema, operation.model) \cap DOMAIN request.body.attributes # {}

\* upserts by several fields that are not the id,
UpsertsByUnique ==
    /\ Cardinality(request.body.matchFields) > 1
    /\ request.body.matchFields # ToSet(Names(GetIdFields(meta, operation.model)))

\* and links to related resources of a model that goes by another name.
LinksOfMapped == operation = NoOperation /\ request.type \in DOMAIN config.mapping

KnownNotServed ==
    \/ LinksOfMapped
    \/ operation # NoOperation /\
        \/ FiltersOfParent \/ TestsOfLists \/ FiltersPartOfId \/ SortsByCompoundId
        \/ IncludesPrefix \/ NullRelationship \/ NullLinkage \/ RawIds \/ IdsOfClient
        \/ KindsOfRow \/ UpsertsByUnique

\* The filters are tests of the fields they are documented for, the included
\* resources are there, and nothing of a payload is left out.
CallSaysWhatWasAsked ==
    /\ \A i \in DOMAIN request.filters : \A p \in operation.filters :
         (request.filters[i].keys = <<p.key>> /\ request.filters[i].op = p.op) =>
             \E c \in call.filters : StepNames(c.way) = <<p.field>>
    /\ \A i \in DOMAIN request.include : request.include[i] \in call.select
    /\ call.data = request.body.attributes
    /\ {link.relation : link \in call.links} = DOMAIN Given

\* What the document of the RPC API offers and is known to be refused: no
\* body, and metadata that has nothing to tell, which stays an argument,
Gives(argument, values) == argument \in DOMAIN request.args /\ request.args[argument] \in values
BodyLeftOut == ~request.given
PlainMeta == Gives("meta", {"plain"})

\* the links of a hierarchy, which zod schemas do not have,
SelectsLinks == Gives("select", {"links"}) \/ Gives("include", {"links"})

\* counts of a selection of rows, and aggregates that are not asked for,
CountsSelection == operation.operation = "count" /\ Gives("select", {"noFields", "relations", "links"})
AggregatesNothing ==
    \E a \in AggregateOperationSupport(client.models, operation.model) : Gives(a, {"noFields", "false"})

\* groups, by no column or by a single one, which zod schemas want in a list,
GroupsAsRows ==
    operation.operation = "groupBy" /\ (~Gives("by", {"ScalarFieldEnum"}) \/ operation.model \in DOMAIN Handled)

\* what tells the kind of a row, which a new row of any kind must give,
TellsKind == \E a \in {"data", "create", "update"} : Gives(a, {WithKind[type] : type \in DOMAIN WithKind})

\* and new rows of a delegate model, or of one below it unless they are there.
RowsOfDelegates ==
    \/ operation.operation \in {"create", "upsert"} /\ IsDelegate(schema, operation.model)
    \/ Gives("skipDuplicates", {"true"})

KnownNotTaken ==
    \/ BodyLeftOut \/ PlainMeta \/ SelectsLinks \/ CountsSelection
    \/ TellsKind \/ AggregatesNothing \/ GroupsAsRows \/ RowsOfDelegates

\* A request that goes by the OpenAPI document, or by a link of a resource,
\* becomes a call that says the same and that the client takes.
DocumentedRequestsAreServed ==
    last # Nothing =>
        IF Flavor = "rpc"
        THEN KnownNotTaken \/ /\ last.response.status < 300
                              /\ ClientTakes(schema, client.models, operation, call)
                              /\ \A a \in DOMAIN request.args \ {"meta"} : call[a] = request.args[a]
        ELSE KnownNotServed \/ /\ last.response.status < 300
                               /\ Accepts(client.models, call)
                               /\ operation # NoOperation => CallSaysWhatWasAsked
=============================================================================
