----------------------------- MODULE PluginRunner -----------------------------
(***************************************************************************)
(* Which plugins `zenstack generate` runs, and in which order              *)
(* (cli/plugin-runner.ts).                                                 *)
(*                                                                         *)
(* A configuration holds the plugins the schema declares and the options   *)
(* of the command line: whether there are default plugins, an --output,    *)
(* and --with and --without.  A plugin is its name, its provider, the      *)
(* options that matter to others, and the providers it depends on.         *)
(***************************************************************************)
EXTENDS Integers, Sequences, SequencesExt

Prisma == "@core/prisma"
Enhancer == "@core/enhancer"
Zod == "@core/zod"
Trpc == "@zenstackhq/trpc"
OpenApi == "@zenstackhq/openapi"
CorePlugins == {Prisma, Enhancer, Zod}

NoOptions == [output |-> FALSE, modelOnly |-> FALSE, generateModels |-> {}, mode |-> "strict",
              preprocessor |-> FALSE, withZodSchemas |-> FALSE, noUncheckedInput |-> FALSE,
              flavor |-> "rpc"]
Plugin(provider, options) ==
    [name |-> provider, provider |-> provider, dependencies |-> {}, options |-> options]
MakeCorePlugin(provider, options) == Plugin(provider, options)

Provided(plugins, provider) == SelectSeq(plugins, LAMBDA p : p.provider = provider)
Has(plugins, provider) == Provided(plugins, provider) # <<>>

\* The plugins that run, and the core plugins among them: what the steps of
\* calculateAllPlugins hand on.
Planned(core, user) == [core |-> core, user |-> user, zodAdded |-> FALSE]

\* The first declared plugin of the provider becomes a core plugin.
Promote(plan, p) == [plan EXCEPT !.core = Append(@, p), !.user = Remove(@, p)]

TakeOrAdd(plan, provider, defaultPlugins, options) ==
    IF Has(plan.user, provider) THEN Promote(plan, Head(Provided(plan.user, provider)))
    ELSE IF defaultPlugins THEN [plan EXCEPT !.core = Append(@, MakeCorePlugin(provider, options))]
    ELSE plan

\* The enhancer is told to import zod schemas where there is validation.
TakeEnhancer(plan, defaultPlugins, hasValidation) ==
    LET taken == TakeOrAdd(plan, Enhancer, defaultPlugins, NoOptions)
    IN [taken EXCEPT !.core =
          [i \in DOMAIN @ |-> IF @[i].provider # Enhancer THEN @[i]
                              ELSE [@[i] EXCEPT !.options.withZodSchemas = hasValidation]]]

\* Faulty: also one with an output of its own.
TakeAnyZod(plan) ==
    IF Has(plan.user, Zod) THEN Promote(plan, Head(Provided(plan.user, Zod))) ELSE plan

\* A declared zod plugin serves the enhancer too, unless it has its own output.
TakeZod(plan) ==
    LET declared == Provided(plan.user, Zod)
    IN IF declared # <<>> /\ ~Head(declared).options.output
       THEN Promote(plan, Head(declared)) ELSE plan

EnsureZod(plan, defaultPlugins, hasValidation) ==
    IF Has(plan.core, Zod) \/ ~defaultPlugins \/ ~Has(plan.core, Enhancer) \/ ~hasValidation
    THEN plan
    ELSE [plan EXCEPT !.zodAdded = TRUE,
            !.core = Append(@, MakeCorePlugin(Zod, [NoOptions EXCEPT !.modelOnly = TRUE]))]

\* A core plugin that another depends on is added; zod then makes all of its
\* schemas, of the models tRPC asks for where nobody else asked for it.
AddDependency(plan, p, dependency) ==
    LET passed == IF p.provider = Trpc THEN p.options.generateModels ELSE {}
        whole(q) ==
            IF q.provider # Zod \/ dependency # Zod THEN q
            ELSE [q EXCEPT !.options.modelOnly = FALSE,
                    !.options.generateModels =
                        IF p.provider = Trpc /\ plan.zodAdded THEN passed ELSE @]
    IN IF Has(plan.core, dependency)
       THEN [plan EXCEPT !.core = [i \in DOMAIN @ |-> whole(@[i])]]
       ELSE [plan EXCEPT !.core = Append(@, MakeCorePlugin(dependency,
                [NoOptions EXCEPT !.generateModels = IF dependency = Zod THEN passed ELSE {}]))]

AddDependencies(plan, p) ==
    FoldLeft(LAMBDA q, d : AddDependency(q, p, d), plan,
             SetToSeq(p.dependencies \cap CorePlugins))

CalculateAllPlugins(config, hasValidation) ==
    LET others == SelectSeq(config.plugins, LAMBDA p : ~p.options.preprocessor)
        prisma == TakeOrAdd(Planned(<<>>, others), Prisma, config.defaultPlugins, NoOptions)
        enhancer == TakeEnhancer(prisma, config.defaultPlugins, hasValidation)
        zod == EnsureZod(TakeZod(enhancer), config.defaultPlugins, hasValidation)
    IN FoldLeft(AddDependencies, zod, zod.user)

DependenciesDeclared(plan) ==
    \A p \in ToSet(plan.core \o plan.user) :
        \A d \in p.dependencies : Has(plan.core \o plan.user, d)

\* --with and --without are about the plugins that are not core ones.
IsPluginEnabled(config, p) ==
    (config.with = {} \/ p.name \in config.with) /\ p.name \notin config.without

\* Everything that runs, in order: preprocessors, core plugins, the others.
Queue(config, plan) ==
    LET user(plugins) == SelectSeq(plugins, LAMBDA p : IsPluginEnabled(config, p))
        preprocessors == SelectSeq(config.plugins, LAMBDA p : p.options.preprocessor)
    IN IF plan.core \o plan.user = <<>> THEN <<>>
       ELSE user(preprocessors) \o plan.core \o user(plan.user)

-----------------------------------------------------------------------------
(* Where plugins leave what they make, and look for it.                     *)

DefaultOutput(config) == IF config.output THEN "--output" ELSE "runtime"

\* zod/generator.ts, generate
ZodOutput(config, p) == IF p.options.output THEN "own" ELSE DefaultOutput(config)

\* enhance/index.ts, getZodImport.  The relative ./zod is in the default
\* output, where the enhancer is when it has no output of its own.
GetZodImport(config, enhancer) ==
    LET declared == Provided(config.plugins, Zod)
        zodCustomOutput == declared # <<>> /\ Head(declared).options.output
    IN IF ~enhancer.options.output THEN DefaultOutput(config)
       ELSE IF zodCustomOutput THEN "own" ELSE "runtime"
=============================================================================
