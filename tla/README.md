# A TLA+ development of ZenStack

ZenStack puts access policies, validation and a few data transformations in
front of Prisma. A schema (ZModel) is compiled into a Prisma schema and a
policy definition; at run time `enhance()` wraps a Prisma client in proxies
that turn each call into the database statements that respect the policy.

This directory holds a formal model of that code: specifications that TLC
checks on small instances, and theorems about them that TLAPS checks for every
value of the constants. Line numbers refer to files of the repository;
`handler.ts` and `policy-utils.ts` are those of
`packages/runtime/src/enhancements/node/policy/`.

## 1. Inventory

| component | state it keeps | operations | talks to | what makes it correct |
|---|---|---|---|---|
| policy enhancement, writes (`handler.ts`, `policy-utils.ts`, `query-utils.ts`) | per call: the transaction, candidates, post-write checks; the database is shared | create, createMany, update, updateMany, upsert, delete, deleteMany and AndReturn variants | Prisma client, Zod schemas, generated guards | each call is refused without trace or does exactly what the policy permits, at once |
| the same, nested writes (`doUpdate`, `doCreate`, `nested-write-visitor.ts`) | per call: the payload being taken apart, post-write checks | a callback for each of eleven kinds of nested write, then one statement | the same | every nested write is done once, and none escapes the rules of its model |
| policy enhancement, reads | none | find*, aggregate, groupBy, count | the same | nothing unreadable is returned; fields are checked one by one |
| guard algebra (`and`, `or`, `not`, `reduce`) | none | pure | used by both | the reduced filter selects the same rows |
| permission checker (`constraint-transformer.ts`, `check-utils.ts`, `constraint-solver.ts`) | none | check | logic-solver | never answers "no" for a call that some row would allow |
| enhancement stack (`create-enhancement.ts`, `proxy.ts`, `promise.ts`) | deferred promises | proxy creation, $transaction, then | all enhancements | which layer sees which payload; a call runs once |
| delegate (`delegate.ts`) | per call: ids read, the promises of the transaction | all CRUD on a model hierarchy | Prisma client | base and concrete rows stay paired; cascades are complete |
| default-auth, omit, password, json | none | payload and result transformation | Prisma client | no transformation is skipped in nested writes |
| encryption (`encryption.ts`) | lazily loaded keys | encrypt on write, decrypt on read | WebCrypto | stored values are ciphertext, old keys still decrypt |
| mutator, query analyzer, nested write visitor (`runtime/src/cross`) | none | apply a mutation to cached data, models read or mutated | hooks | an invalidation covers every query the mutation can affect |
| query hooks (TanStack Query, SWR) | query cache | query, mutate, optimistic update, invalidate | HTTP API | the cache converges to the server's data |
| RPC and REST API handlers, server adapters | none | one request to one or several client calls, pagination | enhanced client | the status tells the outcome; a request may be repeated; links lead through everything |
| policy compiler (`schema/src/plugins/enhancer/policy`) | none | rules to guards, checkers, constraints, selections | the run time above | deny wins; update rules split into before and after; an expression means the same in every form it takes |
| Prisma schema generator (`schema-generator.ts`), SDK (`sdk/src`) | the schemas being built, the map of short names | models to tables with links, repeated and renamed relations; model metadata | policy generator, run time | Prisma accepts the tables; the run time finds every field where the generator put it |
| Zod, client, OpenAPI, tRPC generators | none | text generation | file system, each other's output | what they describe is what the run time does |
| CLI and plugin runner | the merged schema, options passed between plugins | validate, merge base models, run plugins in order | plugins | a plugin runs after those it depends on |
| language server | scopes, documents | link, validate | Langium | a schema that passes can be generated |

**How they interact.** The compiler writes, for each model, guards (Prisma
filters), entity checkers (JavaScript predicates for rules that compare fields
across models), an input checker and the selection of pre-update values. The
policy handler merges guards into statements, runs several statements in an
interactive transaction, and throws to abort it. Everything asynchronous is the
Node event loop: between two awaited statements any other call of any process
may run. The API handlers turn a request into calls of the enhanced client and
their outcome into a status; the query hooks send requests and cache answers.

**What is hard.** The guard of a single-row update or delete is evaluated by
one statement and the row written by another. Post-write checks run after the
write and rely on the abort of the transaction, which is the caller's own when
the client is used inside `$transaction`. Set operations find candidates, write,
and check, in three statements. Results that may not be read are reported after
the commit. All of this runs at the isolation level the application chose.
Nested writes are split between statements that run while the payload is
visited and one that ends the call. A polymorphic entity is several rows, which
concurrent deletes and the cascades of the database take apart together.

On the client, an optimistic update reads a cache entry, awaits, and writes it;
queries are fetched, cancelled and invalidated meanwhile by other mutations; an
answer may be older than the data it replaces; and a mutation settles only when
the fetches it caused, which others may restart, have ended. A client of the API
repeats requests, and pages through rows that come and go, with a total that
comes from another statement. The full list, line by line, is under `hazards` in `PROJECT.json`.

## 2. Modules

| module | what it is |
|---|---|
| `AccessPolicy` | rows, database states, a policy as sets of sites where each guard holds, and the operators of `policy-utils.ts` |
| `PolicyContract` | the abstract specification: a call is refused, or applied in one step permitted by the policy |
| `PolicyWrite` | the write path, one action per database statement, over an external database |
| `MCPolicyWrite` | policies, requests and initial rows for TLC |
| `PolicyWriteProofs` | types and refusals of `PolicyWrite` |
| `PolicyContractProofs` | `PolicyWrite` against `PolicyContract` |
| `PolicyRowProofs` | what holds of single rows under weaker isolation |
| `PolicyCompile` | what the rules of a model or field compile to, and what they mean |
| `NestedWrite` | creates and updates of a parent with nested writes of its children, one action per callback; extends `PolicyCompile` |
| `NestedWriteProofs` | the compiled policy against the meaning of the rules; types, rules and completeness of nested writes |
| `PermissionChecker` | rules to constraints, delegation, the solver |
| `PermissionCheck` | calls and `check()` questions under one policy; extends both |
| `Filters` | the algebra of query conditions |
| `PolicyRead` | reads: guards in filters, relations and counts, field rules checked on the result; extends `PermissionCheck` and `Filters` |
| `RuleExpressions` | expressions of rules: the query filter, the JavaScript predicates and the selections they become, and what they mean |
| `MCRuleExpressions` | expressions, rows, users and inputs for TLC |
| `MCNestedWrite` | policies, calls, questions, reads and databases for TLC |
| `DelegateContract` | the abstract specification: a polymorphic entity is one record |
| `Delegates` | the delegate enhancement over its tables, one action per statement |
| `MCDelegates` | a hierarchy and calls for TLC |
| `DelegatesProofs` | types of `Delegates`, reads through every model of a hierarchy, and complete deletes |
| `QueryAnalyzer` | which queries a mutation is taken to change, which it may change optimistically, which it really changes |
| `QueryHooks` | mutations, optimistic updates and invalidation over the query cache; extends `QueryAnalyzer` |
| `MCQueryHooks` | schema, queries and calls for TLC |
| `QueryHooksProofs` | theorems about `QueryAnalyzer` and `QueryHooks` |
| `Enhancements` | what one call of the stacked client does to the rows: default-auth, policy, encryption, password |
| `Paging` | the arithmetic of pages and links |
| `PagedWalk` | the abstract specification: a client follows the links while the list changes |
| `PagedWalkProofs` | theorems about `PagedWalk` |
| `RestApi` | the JSON:API and RPC handlers over `Enhancements`, deployments, a walking client |
| `RestApiProofs` | theorems about `RestApi` and the calls of `Enhancements` |
| `MCRestApi` | rows, requests and queries for TLC |
| `ZModel` | schemas: models, fields, inheritance, the helpers of the SDK, merging of base models |
| `SchemaValidation` | what the validator lets pass |
| `PrismaSchema` | the generated schemas, physical and logical, with links, short names and repeated relations; what Prisma accepts |
| `ModelMeta` | the metadata, the way of the delegate enhancement and of guards through the links |
| `PluginRunner` | which plugins run, with which options, in which order |
| `ZodSchemas` | the zod schemas of a model's rows and inputs |
| `RestRequests` | how the JSON:API handler turns a request into a call of the client, by the metadata and the zod schemas |
| `OpenApiRest` | the OpenAPI document of the JSON:API, and the requests that go by it |
| `ZodInputs` | the zod schemas of the arguments of queries |
| `RpcApi` | the OpenAPI document of the RPC API, the requests that go by it, and what the handler makes of them |
| `ClientCalls` | the calls the generated Prisma client takes (external) |
| `SchemaBuild` | `zenstack generate` plugin by plugin, and a request to what it built; extends all of these |
| `MCSchemaBuild` | schemas for TLC |

How the parts meet: `PolicyWrite` covers the statements of one model among other
clients, so `NestedWrite` and `Enhancements` take a call, or a callback, as a
step. `AccessPolicy` takes any sets for guards; `PolicyCompile` says which sets
the rules give, and `NestedWrite` uses it. `RestApi` makes calls of
`Enhancements`. For the hooks the server is a set of applied mutations: a
request of `RestApi` that answers success is one of them. `SchemaBuild` makes what
the others take for granted: the tables `Delegates` works on, and the back links,
owners and keys by which `NestedWrite` and `QueryAnalyzer` find the other side of a
relation. `RestApi` and `RestRequests` model the same handler: the first what a
request does to the rows, over one schema and in time, the second what call it
becomes, over all schemas.

### AccessPolicy

A guard is the set of pairs (row identity, database state) on which the filter
holds, so a policy may look at related rows. `isTrue` is equality with the set
of all sites, `isFalse` with the empty set. A policy record gathers what the
generated `ModelPolicyDef` holds for one model and one user: guards, field
guards, overrides, entity checkers, the input checker (rows it accepts, rows it
rejects, neither), the post-update guard with or without pre-update values, and
the set of rows the Zod schema accepts. `Coherent` states what the generator
guarantees of it. `UpdateGuard` is the combination the code computes:
the model guard and every written field's guard, or every written field's
override. `Passes` keeps the early return of `checkPolicyForUnique`: when
nothing restricts the operation no query is made, so a row that is gone passes.

### PolicyWrite

| variable | code |
|---|---|
| `db` | the committed rows |
| `pc` | the next statement of the handler's async function |
| `req` | the arguments of the call and the options of the client |
| `snap`, `wr` | the transaction: snapshot and written rows |
| `checks` | `postWriteChecks` |
| `todo` | the items of `doCreateMany`'s `Promise.all` still running |
| `picked` | the id filter of a set operation, later the ids of its result |
| `resp` | the value or error the promise settles with |

| action | code |
|---|---|
| `Issue`, `Prepare` | the deferred promise; what each operation decides before its first statement (`tryReject`, input checker, schema, whether a transaction is needed) |
| `Begin`, `Commit`, `Abort` | `QueryUtils.transaction`, and the database failing it |
| `Insert` | the simple create, or `doCreate` |
| `Probe` | upsert's look-up |
| `ReadFirst`, `Exist`, `CheckPolicy`, `ReadPreValue`, `WriteRow` | delete's read-back, `checkExistence`, `checkPolicyForUnique`, `_registerPostUpdateCheck`, the native write |
| `Lookup`, `CreateItem` | `doCreateMany`, item by item in any order |
| `FindCandidates`, `Native` | `findMany` for the candidates, the entity checker, the native set operation |
| `PostCheck` | `runPostWriteChecks`, in any order |
| `ReadBack`, `Rethrow`, `ReadAfter` | `readBack` inside or after the transaction; the error thrown after the commit, or into the caller's transaction |
| `Direct` | a native statement outside a transaction |

A call is made by a *client*; a session that makes several is several clients.
`app` tells who owns the transaction: nobody (`plain`), a caller who lets the
error abort it (`interactive`), or one who catches it and commits (`swallow`).

**The database** is external. Under *read committed* a statement sees what is
committed; under *snapshot* it sees the state at `Begin` and cannot write a row
changed since; under *serializable* the model lets a transaction commit only if
nothing was committed since it began, the simplest serial order, which also
covers guards that read other rows. Row locks make writers wait; `Abort` may
fail any statement, and a commit may be acknowledged with an error.

**Abstracted:** nested writes (see `NestedWrite`), changes of the identity, Zod transformations of
the payload, `inputOnlyValidationForUpdate`, field-level read rules, `select` and
`include` (see `PolicyRead`). Entity checkers of create and post-update rules are part of their
guards, because the code always runs them together.

### PolicyContract

Each client makes one call. `Refuse` ends it with `db` unchanged. `Apply`
changes `db` to a state `Permitted` relates to the present one, defined per
operation from the policy alone (no candidates, checks or stages). The result of
an AndReturn operation may be read later (`Conclude`). A result the user cannot
read is withheld and the effect stays, unless the caller's transaction aborts.

### PolicyCompile

A rule is its shape (allow or deny, literal, reads fields, uses `future()`,
compares across models, decidable from the input), since that is all the
compiler looks at; `T` is the set of rules that hold of the row in question.
`RulesFor` is `processUpdatePolicies`, applied to allow rules, deny rules and the
cross-model part of each on its own. `Guard`, `Checker`, `InputChecker`,
`FieldGuard` and `FieldChecker` are the generated functions, with the static
answers and the Boolean functions of rules that read no field. `Decides` is the
documented meaning: some rule allows and none denies.

### NestedWrite

| variable | code |
|---|---|
| `policy` | the rules of both models |
| `db`, `view` | the committed rows, and those the transaction sees |
| `pc`, `call`, `todo` | the place in `doUpdate` or `doCreate`, the arguments, the nested writes the visitor has not come to, in its order (it takes the items of an array from the end) |
| `payload` | what is left for the statement that ends the call |
| `checks` | `postWriteChecks` |
| `connected` | the entities `connectOrCreate` found, in a create |
| `outcome` | how the promise settles |

`Start`, `UpdateTop` and `CreateTop` are the call and its own checks. Each
`Visit...` action is a callback of the visitor: it `Leaves` its write in the
payload, carries it out and `Removes` it, or, for a deleteMany under a guard that
is a constant, `Overwrites` with it all that the payload holds of its kind. `WriteUpdate` and `WriteCreate` are
the final statement, which works through the payload in an order that is the
database's own. `RunPostWriteChecks` commits or aborts. `Carried` is what a
sequence of nested writes makes of the rows, or `None` where one of them fails: each
as a statement of its own, whose filter is its guard (`ByGuard`), or all in one,
where only a guard known beforehand is a filter (`ByConstant`). It is a recursive
function, so that it can be proved about.

**Abstracted:** one relation, with the foreign key on the children, one level of
nesting, one client at a time, no field-level rules and no validation. Rules are
drawn from ten conditions on the row, its owner, the result or the user; the shape a
rule shows the compiler is that of its condition (`Rule`).

### PermissionChecker and PermissionCheck

`TransformRules` and the operators under it are the generator's: expressions and
operands with no translation become numbered free variables. `Resolved` and
`Prefixed` put checkers of other models in the place of delegations at run time.
`CheckSat` is the solver: an assignment that satisfies the constraint exists, or
none does, or the constraint cannot be built (`Buildable`). `CheckPermission` is
`doCheckPermission` with its filter. In `PermissionCheck` a client asks instead
of making a call, under the same rules, so an answer can be compared with what
the rules would allow. `PermissionChecker` is recursive and therefore in a module
of its own, outside those with theorems.

### Filters and PolicyRead

A condition is a function from keys to values, as the filter objects are; `AND`,
`OR` and `NOT` tell a list from a single condition because `isTrue`, `isFalse`
and `reduce` do. `Combine` is `and` and `or`, `MergeWhere` keeps the keys by
which a unique row is found. A filter is the tree the code builds, not the rows
it selects; `Matches` is the database's evaluation of it.

| operator of `PolicyRead` | code |
|---|---|
| `ModelGuard`, `FieldReadGuard`, `FieldOverrideGuard` | the guards of a model and of a field |
| `Guarded`, `GuardForFields` | `injectReadGuardForFields`, `buildReadGuardForFields`: conditions on relations and on fields with rules |
| `OverrideGuard`, `InjectAuthGuardAsWhere` | rows that are found because every selected field has an override; the filter of a relation or a count |
| `Nested`, `InjectForRead` | the guards of included and counted relations, what moves up to a required one |
| `InjectReadCheckSelect`, `PostProcess` | what is selected for the field checkers only, the fields that fail them, what is taken out again |
| `Find`, `Count`, `Read` | the calls; the client of `NestedWrite` reads instead of writing |

`result` is what the client receives, as an entity with its related entities and
counts. Two models, one relation, one field with rules and overrides.

**Abstracted:** orders, limits and cursors, aggregates and groups (the guard of
`count`), `omit`, delegate models, rules of a model that look at another one
through a checker, which `expression-validator.ts` refuses for reads. Conditions
are recursive data, so both modules are outside those with theorems.

### RuleExpressions

The other modules take a rule for a predicate on rows; this one looks inside.
`Write` and the operators below it are `ExpressionWriter`: which operand becomes
a condition on the row, which one a value in it, when a predicate on a collection
becomes a relation query. `Transform` is `TypeScriptExpressionTransformer`, with
JavaScript's `undefined`, null and loose equality; its context says what the
generated variables stand for, in a guard, in an entity checker and in the
refinement of an input. `Visit`, `ReferencePaths` and `AddPath` are
`generateSelectForRules`, and `Read` prunes a row to what they select.
`Selects` is the database: three-valued comparisons with null, two-valued
conditions on relations.

| variable | code |
|---|---|
| `rule`, `user` | one rule, its kind and whether it is checked after updates; `context.user`, whose fields may be missing |
| `row`, `before` | the row, and the one an update replaced |
| `verdict` | what the query guard and the entity checker answer, or the refinement of an input |

`CheckBefore`, `Update` and `CheckAfter` are the calls of the generated
functions, `ValidateInput` that of a refinement. `Means` is the meaning of an
expression, written without regard to any of the translations.

**Abstracted:** functions other than `auth` and `future` (`check` is in
`PermissionChecker`), list fields, enums, inherited fields of delegate models,
strings and dates. Expressions are recursive data and so are the operators:
no theorems here.

### Delegates

| variable | code |
|---|---|
| `db` | a row for each model of an entity's lineage: its discriminator, foreign key, whether its data and its `@updatedAt` changed an odd number of times |
| `isolation` | the database's isolation level |
| `pc`, `req` | the place in the call, its arguments |
| `wr` | what the transaction wrote |
| `tasks` | the promises of its `Promise.all`s that are not settled |
| `late` | entities others created since the transaction began |

`Create` and `Upsert` are single nested statements. `Begin`, `Find`, `LookUp`,
`DeleteLevel`, `UpdateOne`, `CreateOne`, `Write` and `Commit` are the statements
of the transactions of createMany, update, updateMany, delete and deleteMany, in
every order in which the concurrent promises can issue them; `Interrupted` is a
time-out or a crash. `Swept` is the database's own cascade over the generated
foreign keys. `Lineage` is the chain of `getBaseModel`, written as the least set that
holds the model and the base of each of its members, and `Below` likewise goes by the
discriminators (`Reachable`), so that both can be reasoned about without recursion.
`Assembled` is what a read merges: the bases that were included,
and below them the levels the discriminators name.

### DelegateContract

One record per entity, with the fields of all its levels. `Add` makes whole
entities with existing owners; `Change` deletes entities with all that cascades
from them and changes others as a whole, renewing inherited timestamps. The
mapping at the end of `Delegates` leaves out steps before or after which a base row
is left without its entity, which `DeletesAreComplete` is about.

### Enhancements, Paging, PagedWalk, RestApi

`Enhancements` gives the effect and the outcome of each call on a table of posts
with an owner, an encrypted field, a password, a validation rule and an
owner-based policy. What matters is the order of the layers: default-auth acts
on the payload before the policy sees it, encryption and password after, and
neither visits `updateMany`. `Seal` and `Open` are encryption and decryption,
with keys that are listed and encryption that fails silently.

| variable of `RestApi` | code |
|---|---|
| `posts` | the rows, in the database's order |
| `config` | the deployed options: encryption key, decryption keys, whether encryption works |
| `answer` | the latest request and its status |
| `handled` | how many requests were answered, for the bound |
| `walk` | the client that walks: the page asked for, the page and total that arrived, what it has seen |

`Handle` is one request: the route, the decoding of a compound id (`Address`
splits at every divider, also one that is part of the id), the validation of the
body, the call, the status. `Redeploy` changes the keys. `Start`, `FindMany`,
`Count`, `FindRelated`, `FollowNext`, `FollowLast` and `End` are the walk:
`processCollectionRead` runs `findMany` and `count` side by side, so requests may
come between. A query's rows are `Picked` by their places rather than by
`SelectSeq`, whose definition the provers cannot open. `Paging` has `getPagination` and `makePaginator`. `RestApi`
implements `PagedWalk`, in which the list changes in any way at all.

**Abstracted:** include, serialisation, the web adapters; any sort is the
reversed order.

### ZModel, SchemaValidation, PrismaSchema, ModelMeta, PluginRunner, ZodSchemas, ZodInputs, RestRequests, OpenApiRest, RpcApi, ClientCalls, SchemaBuild

A schema is a function from names to models: kind (plain, abstract, delegate),
bases, fields in order, `@@id` and `@@unique` lists. A field has a type, flags and
its `@relation`: a name, the key's fields and what they refer to. Names that the
generator composes are sequences of words and a length is a number of words, so
truncation to `IDENTIFIER_NAME_MAX_LENGTH` keeps its collisions.

| variable | code |
|---|---|
| `build`, `limit` | the schema as written with the configuration (plugins declared, options of the command line, model names of the API), the longest identifier |
| `stage` | how far `loadDocument` and the plugin runner have come |
| `schema` | the model after `mergeBaseModels` |
| `plan`, `todo` | `calculateAllPlugins`, and the plugins still to run |
| `tables`, `client` | what `PrismaSchemaGenerator` makes in its physical mode, and the schema the client is made of: the same, or the logical one |
| `meta`, `zod`, `docs` | what `generateModelMetadata`, the zod plugin (for each place it writes to) and the OpenAPI plugin write |
| `last` | one request to the handler and what came of it |

`Reject` and `Merge` are the two ends of validation. `Plan` sorts the plugins: one that
declares dependencies which are not there stops everything (`Fail` is a plugin that
finds no Prisma schema). `GeneratePrisma`, `Enhance`, `MakeZod`, `MakeOpenApi` and
`RunOther` each take the next plugin from the queue, `Finish` ends the build.
`AskDocumented` sends one request the document allows, `FollowLink` one that a link
of a resource names; `HandleRequest` refuses it or makes a call of it, and `Accepts`
says whether the client takes that call. `CallDocumented` does the same for the RPC
API, where the plugin's `flavor` says so: a request gives the arguments the document
requires and at most one more, `HandleRpcRequest` takes the metadata off and has the
zod schemas of queries parse it, and `ClientTakes` is the client behind. There the
value of an argument is the input type it is of, as document, schemas and client all
start from Prisma's input types, and whatever one of them treats apart: whether a
payload tells the kind of a row, whether a selection is of columns, relations or
the links of a hierarchy.

`GenerateModel` keeps the order of the steps of
`generateModel`: own fields, links to concrete models, links to the base, expanded
relations, relations inherited from a delegate. `PrismaAccepts` is Prisma's own
validation (external): distinct names, two matching sides for each relation, keys
that identify a row. `BasePath`, `ConcreteLinks` and `GuardPath` are the ways in
which `delegate.ts` and `expression-writer.ts` walk the links.

**Abstracted:** enums, type definitions, views, native types, `@map`, attribute
arguments other than those of relations and keys, comments and formatting;
relations to abstract models, which the parser takes and `loadDocument` drops. A
value is its kind (number, boolean, string), a text what it parses as. Conditions
and paths are recursive: no theorems about these modules.

### QueryAnalyzer

A payload is the set of its writes (model and kind), a query key the models it
selects and those it only filters or sorts by. `Visited` keeps the early returns
of the visitor, `MutatedModels` and `ReadModels` are those of
`query-analyzer.ts`; their recursions over cascades and delegate bases are least
closures (`ClosureOf`), so that they can be proved about. `connect` stands for
connectOrCreate, disconnect and set as well. A schema is given by its relations with
their referential actions (`ForeignKeys`); `DeleteCascade` is what `getDeleteCascades`
makes of them for the metadata. `TouchedModels` and `Affects` say what the database
does: a row of a model is a row of its bases, a delete cascades along the relations
of all of them (`Gone`), relations with `SetNull` or `SetDefault` to rows that go are
updated, and those to a key that changes follow it (`Adjusted`). `Overlooked` are the
models the analyzer does not name: it knows no referential action but the cascade
of a delete.

### QueryHooks

| variable | code |
|---|---|
| `call`, `stage`, `result` | a mutation: its arguments and options, where its callbacks are, how its request ended |
| `todo`, `held` | `optimisticUpdate`: the entries the loop has not come to, the data read before the await |
| `server` | the mutations the server has applied |
| `cached` | an entry's data (which mutations it shows, `seen`; which it anticipates, `guess`: the items marked `$optimistic`) and error |
| `fetch` | the fetch of an entry: sent, served (computed, under way), idle or cancelled, and who awaits it |
| `outrun` | entries filled by a first load that was under way when they were invalidated |
| `adapter` | which framework: `runtime-v5/react.ts` cancels fetches, the others do not |

| action | code |
|---|---|
| `Mutate`, `Send` | `mutate()`, and the request once `onMutate` has resolved |
| `Examine`, `Update`, `Skip` | one turn of the loop of `optimisticUpdate`, before and after its await |
| `Throw` | a data provider, or the application's `onMutate`, throws |
| `Apply`, `Reject`, `Reply` | the request: served, refused or lost; `fetcher`'s view of the answer |
| `OnSuccess`, `OnSettled`, `Done` | the callbacks of `setupInvalidation` and `setupOptimisticUpdate`, and the promise resolving |
| `Refetch`, `Serve`, `Deliver`, `Fail` | the query client (external): a fetch starts, is computed, arrives, fails |

The query client and the order of a mutation's callbacks belong to TanStack
Query, which the repository only uses; they are modelled from that use and from
its documented defaults (`invalidateQueries` cancels and restarts a fetch, but
joins a first load; a silent cancellation does not reject those who wait).

**Abstracted:** the data itself, infinite queries, queries without an observer,
keys that are not ZenStack's, and the list of entries being taken when the hook
is rendered (the model takes all queries).

## 3. Runs

| run | configuration | expectation | question |
|---|---|---|---|
| `serializable` | `Serializable.cfg` | pass | does the write path implement the contract, are refusals justified and without trace, is every call answered? |
| `weak_isolation` | `WeakIsolation.cfg` | pass | what is left of the contract under weaker isolation, and when the caller swallows a refusal? |
| `compound_id` | `CompoundId.cfg` | violation | finding 1 |
| `override_unchecked` | `Overridden.cfg` | violation | finding 2 |
| `hooks_interleaving` | `Hooks.cfg` | pass | is the cache fresh when mutations have settled, what may replace an optimistic item, and does every mutation settle? |
| `nested_writes` | `NestedWrites.cfg` | pass | do nested writes obey the rules, is each done once, is a refusal deserved, does `check()` deny only the impossible, and do reads and counts show what is readable and nothing else? |
| `deny_dropped` | `DenyDropped.cfg` | violation | finding 4 |
| `polymorphic_entities` | `Delegates.cfg` | pass | do entities stay whole, and does the enhancement implement one record per entity? |
| `web_api` | `WebApi.cfg` | pass | do answers tell the outcome, may requests be repeated, are secrets sealed, do walks end and miss nothing? |
| `delete_all_cascade` | `DeleteAll.cfg` | violation | finding 3 |
| `rule_expressions` | `RuleExpressions.cfg` | pass | do the filter, the entity predicate and the input predicate made of one expression say what it says? |
| `schema_build` | `SchemaBuild.cfg` | pass | does a schema that passes validation make tables Prisma accepts, metadata, guards and zod schemas that fit them, and an API that serves what its document offers? |

**Properties.** `ImplementsContract` is refinement under the mapping at the end
of `PolicyWrite`. `RefusalJustified`: on the rows the call saw no permitted
outcome exists, so nothing is refused by mistake. `RefusedLeavesNoTrace`: a
refused call commits nothing, at any isolation level. `Answered`: every awaited
call is answered although calls wait for each other's locks.
`SingleStatementObeysPolicy`: a set operation done by one statement obeys the
contract even under read committed. `SnapshotObeysRowPolicy`: for policies that
look only at the row, snapshot isolation is enough for single-row writes,
because the row that was checked is the row that is replaced.
`WrittenRowsPassChecks`: rows created or updated by identity pass, as committed,
the rules they were checked with.

`QuiescentFresh`: when no mutation is in progress, a query shows what the server
has and no guess, unless its fetch failed, a mutation was not reported to it, or
its first load was joined. `GuessesYieldToNewerFetches`: with the v5 React
adapter an optimistic item is replaced by newer data only.
`EveryMutationSettles`: what the callbacks await ends.
`AffectedQueriesAreRefreshed` is `QuiescentFresh` without excusing the analyzer:
it holds for the covered calls, and fails for a `deleteMany` of everything (and, outside
the runs, where the database changes rows otherwise than by a cascade: `TouchedModels`).

`ChangesObeyRules`: a committed change of a child is one its rules admit,
whichever callback made it; `Unchecked` names the four cases the code never
looks at. `EachWriteAppliesOnce`: the split between callbacks and final statement
loses and repeats nothing, but for the items of a deleteMany that a later callback
overwrites (`Overwritten`). `RefusalsHaveReason`: a refused call would, done
unchecked, change something the rules refuse; `MistakenRefusal` names the two
exceptions. `ChecksTellThePossible`: a "no" of `check()` is final, a "yes" is
witnessed by a row when every rule has a translation, and it fails only for a
refused filter or where it delegates to a constant policy (`DelegatesToConstant`).

`ReadsShowWhatIsReadable`: a read answers as if the rows and fields the client
may not read did not exist, in the rows, their fields, what is included and
counted, and in what its filter can find out. It excepts the filters the guards
do not reach (`Unguarded`), field checkers that look at an owner the client
selected otherwise (`ChecksThroughSelection`) and overrides that open more than
they should (`OverridesTooMuch`). Also under unguarded filters
each row and field shown is one the rules open. `CountsMatchReads`: `count`
builds its guard in another way than `findMany` and yet counts the same rows.

`GuardsMeanTheRule`: a row a rule's query filter lets pass is one the rule
permits, and the filter lets all of these pass where no null is involved.
`CheckersMeanTheRule`: the entity checker, on nothing but what was selected for
it, says what the rule says of the whole row. `AbsentFieldsAreTolerated`: a
validation decides a complete input as the rule says, and an incomplete one by
whether some values of the absent fields would keep the rule. The forms for which
the code says something else are operators of their own (`SaysOtherwise`,
`ReadsOtherwise`; `UntoleratedAbsence` for inputs refused and `UndueTolerance` for
inputs accepted), listed in section 5; dropping any one of them makes TLC find the
difference.

`ReadsAgree`: an entity reads alike through every model of its lineage.
`DeletesAreComplete`: a transaction that deletes takes every level of what it was
asked to delete (`Roots`) and of all that cascades, but for what others create
meanwhile and what the code does not look for (`Overlooked`): from each entity it
deletes (`Sought`) it follows the relations its model sees to polymorphic
entities, not those to plain rows, nor those of a level below the model. `OwnDeletesDoNotCollide`: the
concurrent promises of one delete do not abort it by deleting a row twice.

`AnswersTellTheOutcome`: after a success the rows mean what was asked, after any
other answer nothing changed, but for a 403 on a result the caller may not read.
`RetriesChangeNothing`: a request repeated after a success changes no meaning.
`ReadsShowWhatWasGiven`: unless a key is dropped, secrets read as given.
`SecretsAreSealed`: no request leaves a secret in clear, except the ways its
comment names. `WalksAreComplete`, `WalksEnd`: the links lead to an end, and a
walk no change disturbed has met every row once, unless a link lost the sort or
the page size. `ImplementsPagedWalk` is what lets the theorem about `PagedWalk`
speak of the handler.

`RowsAreReached`: each field of the metadata is in exactly one table, its model's or
that of the base `inheritedFrom` names, at the end of links that exist under the
names the run time composes and shortens; every concrete row is found from its
delegate; and the path of a guard through the bases exists.
`ShortNamesAreDistinct`: truncation never makes one name of two.
`RelationsHaveTwoSides`: back links are mutual and exactly one side owns a
relation, or both of many to many. `PrismaAcceptsSchemas`: what passed ZenStack's
validation passes Prisma's, in the schema of the database and in the logical one.
Each excepts shapes by name: an abstract model below a delegate
(`NoAbstractBelowDelegate`), an unnamed relation of a model with its own base, a key
to a delegate that is also an id, part of a `@@unique` for the key of a one-to-one
relation (`Carried`), several unnamed relations to one model
(`SeveralRelationsNamed`).

`CreateSchemasMatchClient`: the zod schema of new rows asks for exactly what the
client asks for, but for the kind of a row, which the delegate enhancement fills in,
and keys with a default (`KeysWithDefault`), which it asks for all the same.
`ImportsAreGenerated`: where the enhancer imports zod schemas, one of each validated
model was made, whichever plugins were declared in whichever order, but for the
configurations `NotForEnhancer` names. `DocumentedRequestsAreServed`: a request that
goes by the OpenAPI document or by a link of a resource is not refused, becomes a
call the generated client takes, and the call says what was asked. Four artefacts of
one schema have to agree for this (document, metadata, zod schemas, client); the twelve
cases in which they do not are operators of their own under `KnownNotServed`, and eight
more under `KnownNotTaken` are those of the RPC API. Each of the eight is needed: without
it TLC finds a request. With zod schemas no documented `groupBy` passes, as `by`
is documented as one column and parsed as a list; a new row below a delegate model must
give its kind by the document, which strict schemas and the enhancement refuse. The run
builds the RPC API for three schemas, without zod schemas of queries and with them in each
of their three modes, with and without unchecked inputs.

**Bounds of the policy runs.** Two clients, two rows, two Boolean fields; three initial states (no
row; two rows with different owners' flags; one row that only an override
admits). Two clients suffice for every pairwise interleaving, and each hazard
listed needs one writer and one intruder; a second row is what policies over
related rows and duplicate keys need. Each client draws from a list of requests
that exercises every operation with policies that are open, owner-based,
relational, field-level with overrides, comparing across models, and validating.
The list of the `serializable` run leaves out the combinations for which the
code departs from the contract: two findings, each with its own run, and
`updateMany` under field-level checkers.
`CHECK_DEADLOCK FALSE` because a run ends when every client has been answered.

**Bounds of the hook runs.** Two mutations over one query in the passing runs:
the properties speak of one query at a time, entries share nothing, and
`QueriesConverge` covers any number of both. The calls are an optimistic update,
one with a data provider, and a plain delete that reaches posts by its cascade
only, with both kinds of adapter. Two mutations are what it takes
to have one read an entry the other is about to change, or restart a fetch the
other awaits.
The violation run uses one mutation over two queries. Posts are deleted with their
user, and no mutation changes a key.

**Bounds of the nested write runs.** Three parents, one of them yet to be made,
and two children: what is needed to tell a child of the call's parent, of
another and of none. Calls have every kind of nested write alone and every pair,
on the same child and on different ones, so that each kind meets what each other
left behind. A deleteMany finds its children by different filters; it comes alone,
as an array of two, and before and after a write of another kind, under guards that
are a constant and guards that are not. Twelve policies hold the shapes the compiler tells apart: open, by
the row, by the owner, by the result with and without denials, across models, by
delegation. Questions are every operation with every filter. A run is one call
question or read, hence `CHECK_DEADLOCK FALSE`. About a hundred reads, of every
way to select and of filters of every operator, over two dozen databases
(`MCReadStarts`): each relation is there and missing, readable and not. The solver's numbers are 0 and 1: the
rules compare with 0 and test for more than 0, and every order between two
values occurs.

**Bounds of the expression run.** Sixty expressions: every operator, with
fields, members of relations, of `auth()`, of `this` and of `future()` on either
side, literals and null, and one level of nesting; every row over numbers 0 and 1
with one nullable, two owners and none, no tags or two; all pairs of rows for
rules after an update; users with all fields, with none but the id, and nobody;
every partial input. Two numbers tell every order from every other, on both
sides of a boundary. `CHECK_DEADLOCK FALSE` because a run is one check.

**Bounds of the entity run.** A base with a concrete model of two levels and two
of one level, a plain owner, a plain model between an owner and its entities, and
an entity that cascades from another by a relation of its middle level; deletes
through the base, the middle and the concrete model: every way the code has of
finding what to delete, and of overlooking it. Five ids, a caller of transactions and a caller that creates and upserts
beside it: each hazard takes one transaction and one intruder. Both isolation
levels.

**Bounds of the web API run.** Two users, nobody, four ids of two parts, one of
which holds the divider, two keys, one deployment, two requests out of
forty, pages of two and a default of three. Two requests are a request and its
repetition, or two changes beside one walk. A walk starts before any request
(`MaxBefore`), and no deployment is taken beside it, as a walk reads no
secrets. `CHECK_DEADLOCK FALSE` because requests are bounded.

**Bounds of the schema run.** Eighteen hundred schemas of up to four models: every
forest of plain, abstract and delegate models over them, relations of one to one,
one to many and many to many, named and not, to bases, concrete models and
themselves, keys with and without uniqueness. Three levels are what it takes to have a base
of a base; two relations between the same models what it takes to confuse them.
Names may have one word, so that everything is shortened and collides, or nine, so
that nothing is. Each of these is built as usual; six hundred more builds are of two
schemas under three hundred configurations (plugins declared, in which order, with which
options), and some forty have an API, with every request that has at most one
parameter. A run is one build and at most one request, and ends in a stuttering
`Done`.

**Fairness.** In `QueryHooks`, each mutation's `Step` (the event loop continues
what was awaited, a request ends) and each query's `Request` are weakly fair;
`Mutate` and `Refetch` are not. In `PolicyWrite`, weak fairness of each client's `Step`: the event loop continues an
awaited call, and the database answers or fails every statement in the end
(`Abort` stands for the transaction timeout and deadlock detection). Making a
call is not fair: an application need not. In `RestApi`, the statements of a page
(`FindMany`, `Count`, `FindRelated`) are weakly fair, as the database answers in
the end, and so are following a link and `End`: `WalksEnd` is about clients that
go on. Requests and deployments are not fair. The other specifications state no
fairness and no liveness.

## 4. Proofs

Each module of theorems extends the specification it is about. A hypothesis on the
requests or on the policies is written into the theorem that needs it
(`ASSUME ... PROVE`); assumptions on constants are those of the specification and
TLC evaluates them in the runs.

**PolicyWriteProofs** assumes only `ConstantsAssumption`, `PolicyAssumption` and
`NoRowAssumption`: any sets of clients, rows, fields, any policies and requests.

- `TypeCorrect`: `Spec => []TypeOK`. `TypeOK` is inductive. The control helpers
  (`Finish`, `Refuse`, `Put`, `Register`) have a lemma each, and `StepIsTyped`
  has one step per action.
- `RefusalsLeaveNoTrace`: `Spec => RefusedLeavesNoTrace`. The property is about a
  single step, but a commit answers with what an earlier step decided, so it is
  not provable from the action alone. The strengthening `RefusalsAreFinal` says
  that a client whose answer is a refusal is done, or is at its commit in a
  transaction whose owner swallowed the error. `RefusesCleanly` states what a
  step of one client does to it, and has one lemma per control helper.

**PolicyContractProofs** proves the refinement, from the same assumptions. The
invariant `Inv` says, stage by stage (`Follows`), what a call has established on the
rows of its snapshot: which guards it has passed, what it has written, which checks
are still due, and that these together *decide* the call (`Decides`): if all of them
pass, the policy permits the effect, and if one fails it permits none. A property
of the stages is what makes the refinement provable: `Commit` is the step that maps
to `Apply`, and by then the guards were evaluated several statements ago. TLC
checked `Inv` too, on the instance of the run and on one client with all policies and
operations, before it was proved. `StepIsLocal` reduces every step to the client that
takes it.

- `WritePathImplementsContract`: `Spec => ImplementsContract`, for requests that are
  serializable, whose caller does not commit what was refused, and that are
  `Enforced`: an `updateMany` writes no field with a checker of its own
  (`FieldsUncompared`) and no override admits more than the model's guard, and set
  operations on compound ids have no entity checker. These are the cases of
  findings 1 and 2 and of field checkers, which do not run for set operations; outside
  them the refinement is false, and the violation runs show how.
- `RefusalsAreJustified`: `Spec => RefusalJustified`, also under snapshot isolation
  (`Kept`), if some row is valid at all and no two items of a `createMany` share an
  identity (`Settled`): a call whose payload could never be written is refused for
  other reasons than the policy.
- `SingleStatementsObeyPolicy`: `Spec => SingleStatementObeysPolicy` at every isolation
  level, from `FieldsUncompared`.

**PolicyRowProofs** is about weaker isolation, for policies that look at one row.

- `SnapshotsObeyRowPolicy`: `Spec => SnapshotObeysRowPolicy` if the policy is
  `RowLocal` and an upsert creates the row it seeks (`CreatesWhatItSeeks`; otherwise
  it writes a row whose guard nobody evaluated on the rows it saw). Besides `Inv` the
  argument needs `Locked` (no two transactions have written the same row, and a row
  written under snapshot isolation has not changed since) and `WroteOneRow`. The
  attempt to prove it turned up that a call whose result may not be read, in an
  *interactive* transaction, commits nothing: the property now leaves it out, as the
  model and the code do.
- `WrittenRowsHavePassed`: `Spec => WrittenRowsPassChecks` at every isolation level if
  the checks look only at the row (`ChecksAreLocal`): `Passing` says that a row is
  either still to be checked or has passed, and the lock keeps it so until the commit.

**RestApiProofs** assumes `Distinct`, `SeedTypes` and `RequestTypes` (ids of rows are
distinct at the start, keys are not the marks of plain and hashed texts, requests have
their fields) and the assumptions of the paging.

- `WebTypeCorrect`: `Spec => []TypeOK`, in which the distinct ids of the rows are the
  point: `create` relies on them.
- `SecretsAreReadable`: `Spec => []ReadsShowWhatWasGiven`, from `KeysAtHand`: while no
  deployment dropped a key, the decrypter has the key of every secret stored.
- `WritesAreSealed`: `Spec => SecretsAreSealed`. For each call a lemma (`Keeps`) says
  where the secrets of every row it leaves come from.
- `AnswersAreTrue`: `Spec => AnswersTellTheOutcome`. For each call a lemma (`Tells`)
  relates its outcome to the meaning of the rows before and after; `Intended` is
  stated on meanings, as sets, and the calls work on sequences.
- `RetriesAreHarmless`: `Spec => RetriesChangeNothing`. The property speaks of two
  requests with any number of deployments between, so the invariant is `Landed`: what
  the last successful request asked for is what the rows mean already. It is kept
  because asking twice asks no more (`IntendedTwice`) and a key that is kept opens
  what it opened (`RedeployingKeepsMeaning`).
- `HandlersImplementPagedWalk`: `Spec => ImplementsPagedWalk`, the refinement. Each
  handler of the walk is the step of the same name, every other request is a
  `Change`.
- `WalksOverPostsComplete`: `Spec => []WalksAreComplete`, from the refinement and
  `WalksComplete` of `PagedWalkProofs`, which it instantiates for the list of posts.
- The lemmas on `Picked` (`RankStep` to `PickedRows`) say that it enumerates the rows
  at the places given, each once; they need well-founded induction for the least place
  of a rank, which the library states without an operator parameter.

**QueryHooksProofs** assumes only `ModelMetaAssumption` and `HooksAssumption`: any
schema, queries, mutations, hook options and adapters.

- `DefaultUpdatesAreInvalidated`: whatever the default optimistic update may
  change, the same mutation invalidates; the mutator and the analyzer share the
  visitor, so a guess cannot outlive its mutation.
- `AnalyzerIsComplete`: the analyzer finds every query affected by the writes of a
  mutation and the cascades of its deletes, for every schema, under premises
  that name what it leaves out: delegate models, deletes without a where, filters
  on other models. A query it misses reads a model of `Overlooked`, changed by another
  referential action only. The argument is that the union of the cascades it collects is
  closed under cascading (`CascadesAreCollected`: the metadata holds the cascades of
  the schema but for those of a model to itself), and the closure the database
  computes is the least.
- `HooksTypeCorrect`: `Spec => []TypeOK`.
- `QueriesConverge`: `Spec => []QuiescentFresh`. The property says nothing of
  what happens before rest, so the invariant `HInv` does: a stale entry is *due*
  (some mutation still has its invalidation ahead, `Owes`) or its fetch is
  awaited; an answer on its way is current, or due, or a joined first load;
  whoever awaits a fetch is at an await; and three conjuncts of bookkeeping. At
  rest nothing is owed and nobody waits, so nothing is stale. `DueKept` shows
  that a debt is only dropped by the invalidation itself.
- `CoveredQueriesAreRefreshed`: `Spec => []AffectedQueriesAreRefreshed`, the promise of
  the `invalidateQueries` option without excusing the analyzer, where `AnalyzerIsComplete` has no
  excuse to make (its premises are the hypotheses, and that no query reads an overlooked
  model) and a data provider updates only queries its mutation invalidates: then a mutation that reaches a query reports to it,
  and `QueriesConverge` applies.
- `GuessesYield`: `Spec => GuessesYieldToNewerFetches`, from `NothingOvertaken`: the v5
  React adapter cancels every fetch that an optimistic update would overtake.

**DelegatesProofs** assumes `ConstantsAssumption`: any hierarchy of single bases
without cycles (which validation guarantees, `InheritanceIsTree` of `SchemaValidation`),
any entities, callers and menus in which an entity is created as what it is and an
update names fields of its model (`Fits`), under either isolation level;
`FiniteAssumption`, that there are finitely many models and entities, and
`ValuesAssumption`, that the marks for no id, no call and no row are none.

- `EntitiesReadAlike`: `Spec => []ReadsAgree`. `ReadsAgree` speaks of committed rows and
  of what reading makes of them, so the invariant `IInv` says of every row, committed or
  written by an open transaction, that its discriminator names the level below it
  (`GoodRow`), and of every promise that its statement belongs to the call
  (`TaskFits`): an update that reached a level the entity lacks, or a create of another
  model, would break it. `GoodCreate`, `GoodUpdate`, `GoodNativeUpdate` and `GoodDelete`
  are the statements; each action has a lemma. `WholeEntitiesReadAlike` then takes
  the levels of a lineage for a chain (`LineageIsChain`, `LevelBelowIsUnique`,
  `NoCycles`) and shows that no level is out of reach of the model that was read:
  the ones that were would be closed under taking the base.
- `DelegatesTypeCorrect`: `Spec => []TypeOK`, from the same invariant.
- `SerializableDeletesAreComplete`: with serializable transactions,
  `Spec => DeletesAreComplete`. What the database takes with a row, a union of stages,
  is the least set that holds the row and what cascades from its members
  (`SweptIsLeast`, by counting the rows at each stage). The invariant `Going`
  follows a transaction from the rows it began with: its own rows are those less
  whole sweeps (`Reduces`, or `Grows` where it updates); every level of an entity is
  there, or a promise in flight will delete it, or an overlooked row took it
  (`Attached`); a delete that has not looked up its dependents still finds them
  all, one that has carries them as promises (`DeleteFits`, with `Covers`); and the
  base rows of a deleted level go next (`BasesFollow`). `NoneIsMissed` says why a
  sweep cannot reach a polymorphic row behind the code's back: it was sought, or the
  path to it leaves what is sought at an overlooked row. `LookUpGoes` and
  `DeleteGoes` are the two kinds of statement; when no promise is left,
  `EndIsComplete` reads the property off the invariant.

**NestedWriteProofs** begins with the compiled policy (`PolicyCompile`) and assumes
nothing there: any finite or infinite set of rules and any subset of it that holds.

- `PlainPolicyIsSound`, `PlainPolicyIsComplete`: for create, read and delete the
  compiled guard and checker pass exactly what the rules admit; completeness
  needs allow rules that are all for the query or all for the checker
  (`OneSortOfAllow`).
- `UpdatePolicyIsSound`, `UpdatePolicyIsComplete`: the guard before and the
  check after an update together, with provisos that say when the four separate
  decisions of `processUpdatePolicies` agree (`DeniesFollowAllows`,
  `NoLateCrossAllow`, `CrossDeniesFollowDenies`, together `Faithful`); finding 4 is what
  happens without the first.
- `FieldPolicyIsSound`: the same for the rules of a field.
- `KnownBeforehand`: a guard the code takes for a constant is one.

On nested writes it assumes `NestedWriteAssumption`: any rows, policies, databases a
call may find, and calls with any number of nested writes on the same children or
on different ones.

- `NestedTypeCorrect`: `Spec => []TypeOK`, with a lemma for each control helper.
- `NestedChangesObeyRules`: `Spec => ChangesObeyRules`, if the update rules of every
  policy are `Faithful`. The run `deny_dropped` shows that this cannot be left out, and
  `PoliciesAreFaithful` of `MCNestedWrite` that all the policies of `nested_writes` meet it.
  The property speaks of the commit, but what is committed was decided several callbacks
  before, on other rows than those the last statement finds. `WriteInv` says for each
  child why it will stand: before the last statement (`UpdateInv`), what callbacks
  have made of the child, `Seen`, is the row the call found, or that row written by a nested
  updateMany whose guard it passed and that is to be checked (`Rewritten`), or a row
  removed or made anew with the right to (`Replaced`); each write left in the payload
  (`Left`) either cannot touch it or finds it `Licensed`: allowed to be updated and
  recorded, or recorded as created. `CreateInv` is the same for a create, whose
  callbacks write nothing. The last statement is then followed write by write, in any
  order, by an induction over the payload (`CommonInduction`, from the well-founded
  induction of the library on sets), and `ChecksDecide` joins what was
  recorded with `UpdatePolicyIsSound` and `PlainPolicyIsSound`. TLC checked `WriteInv` on
  the instance of the run as it was before a deleteMany could be an array (891 688
  states) and on one of three times its size. The
  attempt to prove it turned up one more way for a change to be allowed:
  an updateMany run at once may make of a row one that may be deleted, which a deleteMany
  beside it then deletes. The rules allow each of the two; the property now says so (`MayGo`), and
  one of the run's policies makes it happen.
- `NestedWritesApplyOnce`: `Spec => EachWriteAppliesOnce`, without a hypothesis. `Progress`
  says that the nested writes the visitor has met, but for those overwritten, are split in two, those done at
  once, whose run leads from the committed rows to the view, and those left, each
  of which has in the payload something that does the same (`StandsFor`: an upsert may have
  become an update, a connectOrCreate a connect). Runs can be cut and put together
  (`CarriedConcat`), so the final statement on the second part gives a run of all of
  them, in an order the property admits. An item a deleteMany overwrites is in neither
  part: `Split` keeps the last met of writes that yield to one another (`Yielding`),
  and since what does not yield stands in its own place, the places that last are
  as many as the writes done (`InjectionOntoItself`, from the library's pigeonhole
  theorem), so the order is one of `OrdersOf` these places. The mutant is an upsert that stays in the payload.

**PagedWalkProofs** assumes `PageSizes` and `QueryTypes`: any page size, default
and queries, lists of any length that change in any way.

- `WalksComplete`: `Spec => []WalksAreComplete`. The property speaks of the end
  only; `IInv` adds what holds on the way for a walk not yet disturbed: the list
  still begins with the one it started from (`Kept`), a count covers it
  (`CountCovers`), and what was seen is what lies before the next page
  (`SeenBefore`), or behind it on a walk back from the last page (`SeenBehind`).
  Each action has a lemma; `Change` needs `GrowsTransitive`.

Only model-checked, and why:

- `Answered`, `EveryMutationSettles` and `WalksEnd` are liveness under fairness.
- The properties of `rule_expressions` and `schema_build`, and those of `nested_writes` that
  go through reads, filters or `check()` (`ReadsShowWhatIsReadable`, `CountsMatchReads`,
  `ChecksTellThePossible`): the modules translate recursive data
  (expressions, conditions, inheritance) with recursive operators, which the provers
  cannot use. What such a translation computes for every expression is an induction
  over data.
- `DeletesAreComplete` under read committed: rows change beneath the statements of a
  transaction, so that no set of rows it began with accounts for what it finds.
- `OwnDeletesDoNotCollide` and the refinement of `polymorphic_entities`, which hold for
  the hierarchy of the run: there an entity has one foreign key at most. With two along
  a lineage an entity can be found twice by one delete, and its record would need two
  owners.
- `RefusalsHaveReason`: it compares what was refused half way with what the unchecked
  rest of the call would have made of the rows, for calls that name each child once; the
  runs that do not happen are not in the invariants above.

## 5. Findings

1. `buildIdFilterWithEntityChecker` (handler.ts:1825) builds `{ AND: [...] }` of
   the candidates' identities when the identity is compound. With no accepted
   candidate it matches every row. The comment at handler.ts:720 says rows that
   fail the check are ignored.
2. `updateMany` looks candidates up with the model guard but without overrides
   (handler.ts:1369), so rows only an override admits are written and not
   checked afterwards, against the comment at handler.ts:774.
3. A `deleteMany` without `where` is not visited (nested-write-visitor.ts:129),
   so models deleted by cascade are not invalidated, against the comment at
   query-analyzer.ts:45.
4. An update deny rule without `future()` beside an allow rule with it is compiled
   into neither check (policy/utils.ts:117), against the comment at
   policy/utils.ts:115: the allow rules move to the post-update check, the deny
   rules, looked at on their own, do not, and the guard before the update becomes
   the constant true.

An optimistic update cancels a fetch under way and relies on the mutation's
settlement to repeat it (comment at runtime-v5/react.ts:251); with
`invalidateQueries: false` nothing does, and the entry stays as it was until the
next refetch. No run is about this.

Facts that properties except by name: under a delete guard that is a constant the
visitor's callback assigns its own item to the parent's `deleteMany`
(handler.ts:1176), once for each item of an array, so that of `deleteMany: [a, b]` only
the last visited, the first of the array, is done and the call succeeds (the comment
there speaks of injecting a guard); metadata keeps only an explicit
`onDelete: Cascade` (model-meta-generator.ts:489) and the query analyzer follows nothing
else, so that models whose rows the database changes by `SetNull`, the default of an
optional relation, by `SetDefault` or by `onUpdate: Cascade` are not invalidated, although
common.ts:87 speaks of all queries a mutation may affect; `updateMany` ignores field-level entity checkers (handler.ts:1309), which
`update` runs (policy-utils.ts:869); a nested `set` does not look at the children it replaces; the static
check of a nested update asks the policy of the call's model; entities that
cascade through a plain row leave their base rows behind, and so do those related to
a level below the model a delete is called on, whose relations alone
`getRelationDelegateEntitiesForCascadeDelete` (delegate.ts:1199) goes through; a `deleteMany` whose
candidates cascade from one another aborts; an upsert through the API answers
201 also when it updates; the `last` link carries no page size and links drop the
sort; `_count` of a relation ignores the filter; `updateMany` stores secrets as
given; dropping a key makes a row with a length rule impossible to update; `check()` fails
when a delegation within a rule ends at a constant policy, takes numbers to be
non-negative, and lets free variables of two delegations over one relation
coincide; in reads, conditions under `AND`, `OR` and `NOT` and comparisons with 0,
null or undefined get no guard for their fields, nor do fields whose rules look
across models or that have an override; `none` beside `every` is added to it; an
override ignores the denials of its field, and one that looks across models
finds every row, without the field; a filter by an overridden field in an included relation or
a count opens its rows; a field checker looks at the owner as the client
selected it.

In the generated schemas: guards go up to a base by the full name of a link
(expression-writer.ts:154) also where the tables have a shortened one, while
delegate.ts:1381 looks every name up in the map; the back link of a relation
without a name is the first field that leads back, whatever relation it is of
(sdk/src/utils.ts:672); an implicit many-to-many relation that has a name has no owner
(model-meta-generator.ts:447), although the comment there says both sides are,
so that the update check of a connected row (handler.ts:323) is left out; under an
abstract model below a delegate one the policy generator throws
(expression-writer.ts:155).

In the translation of expressions: `5 < x` with the field on the right is written
as `x >= 5` (`negateOperator`, expression-writer.ts:689); `this == this` is false
in a filter (:438); `this.x` within a predicate on a relation becomes the item's
own `x`; in rules checked after an update a bare flag (:116) and what is compared
with `this.x` (:242) are read of the row as written, and the entity checker takes
`this` for it too (policy/utils.ts:447), although the comments at
expression-writer.ts:83 and typescript-expression-transformer.ts:397 speak of the
row before (the test at cross-model-field-comparison.test.ts:315 relies on the
checker's reading); JavaScript puts null in order with numbers as if it were zero;
a predicate that names no field of its collection selects nothing of it, so that
a denial by a field checker does not bite; a condition on a field of a missing
relation is false, also with `!=`. Of an input that lacks fields, a comparison, a
conjunction or a disjunction with an absent field as its operand is true
(`ensureBooleanTernary`, typescript-expression-transformer.ts:466): so a validation
`b && x > 0` accepts any `x` when `b` is absent, `x > 0 && x <= n` with an absent `x`
accepts `n: 0`, and a rule that negates such an expression, or compares with
`!= null`, refuses the input although some value of the field would keep it.

## 6. Plan

Sections 2 to 5 are done. Left, most important first:

1. `Delegates`: `DeletesAreComplete` under read committed, with an invariant about the
   rows as they are at each statement; then the refinement of `DelegateContract`,
   which needs owners per level.
2. `NestedWrite`: `RefusalsHaveReason`, with the rest of a refused call as a variable.
3. What no property covers: queries that depend on a model by a filter or an order
   alone, and the SWR hooks.

## 7. Not modelled

- In the reads of the policy enhancement: `omit`, subscribe and stream, fluent
  calls, aggregates beyond the guard they share with `count`.
- The SWR hooks: what SWR's `mutate()` does with fetches in flight is the
  library's, and the code shows next to nothing of it.
- In the enhancement stack: fluent promises and the transaction proxies; omit and
  json, which reshape results.
- Text generation and tooling, about half of the repository's lines: the types of the
  client, the fields of the input types in zod schemas and documents, the tRPC routers, the
  rendering of Prisma schemas, the generated grammar, name resolution and expression checks of the language server, server adapters, test tools, IDE integration.
- Within modelled parts: nesting deeper than one level, nested writes beside
  other clients, nested writes of delegate models other than `deleteMany`,
  strings and negative numbers in `check()`, infinite queries, orders of sort
  other than one and its reverse, logging and error wording.

Prisma, the database, Zod, TanStack Query, logic-solver and the event loop are
modelled from how the code uses them and marked external.
