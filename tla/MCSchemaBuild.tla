----------------------------- MODULE MCSchemaBuild -----------------------------
EXTENDS SchemaBuild

MCDeclared == <<"User", "Asset", "Video", "Movie">>
MCDigits == <<"0", "1", "2", "3", "4", "5", "6", "7", "8", "9">>
MCLimits == {1, 9}

Of(m, name, type) ==
    [name |-> name, type |-> type, array |-> FALSE, optional |-> FALSE, id |-> FALSE,
     unique |-> FALSE, default |-> FALSE, rel |-> NoRel, of |-> m, from |-> None]
Id(m) == [Of(m, "id", "Int") EXCEPT !.id = TRUE, !.default = TRUE]
Key(m, optional, unique) == [Of(m, "ownerId", "Int") EXCEPT !.optional = optional, !.unique = unique]

Shapes == [holder : {"User", "target", "none"}, many : BOOLEAN, optional : BOOLEAN,
           unique : BOOLEAN, name : {None, "r"}]

\* The two sides of a relation between User and target.
Sides(sh, target) ==
    LET rel == [NoRel EXCEPT !.name = sh.name]
        holding == [rel EXCEPT !.fields = <<"ownerId">>, !.references = <<"id">>]
        key(m) == Key(m, sh.optional, sh.unique)
        one(m, name, type) == [Of(m, name, type) EXCEPT !.optional = sh.optional, !.rel = holding]
        other(m, name, type) == [Of(m, name, type) EXCEPT !.array = sh.many, !.optional = ~sh.many, !.rel = rel]
    IN CASE sh.holder = "target" ->
              [user |-> <<other("User", "assets", target)>>,
               target |-> <<key(target), one(target, "owner", "User")>>]
         [] sh.holder = "User" ->
              [user |-> <<key("User"), one("User", "assets", target)>>,
               target |-> <<other(target, "owner", "User")>>]
         [] OTHER ->
              [user |-> <<other("User", "assets", target)>>,
               target |-> <<other(target, "owner", "User")>>]

Model(kind, supers, fields) ==
    [kind |-> kind, supers |-> supers, ids |-> <<>>, uniques |-> <<>>, fields |-> fields,
     discriminator |-> IF kind # "delegate" THEN None
                       ELSE Head(SelectSeq(fields, LAMBDA f : f.type = "String")).name,
     validated |-> FALSE, merged |-> FALSE]

Base(asset, video, movie, target, sh) ==
    LET sides == Sides(sh, target)
        extra(m) == IF m = target THEN sides.target ELSE <<>>
        s == ("User" :> Model("plain", <<>>, <<Id("User")>> \o sides.user))
             @@ ("Asset" :> Model(asset, <<>>, <<Id("Asset"), Of("Asset", "label", "String")>> \o extra("Asset")))
             @@ ("Video" :> Model(video, <<"Asset">>, <<Of("Video", "style", "String")>> \o extra("Video")))
    IN IF movie = None THEN s
       ELSE s @@ ("Movie" :> Model("plain", <<movie>>, <<Of("Movie", "title", "String")>>))

Add(s, m, fields) == [s EXCEPT ![m].fields = @ \o fields]
Holder(sh, target) == IF sh.holder = "target" THEN target ELSE "User"

\* A relation of `from`, which holds the key, to many of `to`.
Related(s, from, to, field, back, key, name) ==
    LET rel == [name |-> name, fields |-> <<key>>, references |-> <<"id">>]
        holder == Add(s, from, <<[Of(from, key, "Int") EXCEPT !.optional = TRUE],
                                 [Of(from, field, to) EXCEPT !.optional = TRUE, !.rel = rel]>>)
    IN Add(holder, to, <<[Of(to, back, from) EXCEPT !.array = TRUE, !.rel = [NoRel EXCEPT !.name = name]]>>)

Features == {"keyInUnique", "keyIsId", "tree", "userTree", "second", "toBase", "compositeId"}

With(s, feature, holder) ==
    CASE feature = "keyInUnique" ->
           Add([s EXCEPT ![holder].uniques = <<[fields |-> <<"slot", "ownerId">>, from |-> None]>>],
               holder, <<Of(holder, "slot", "Int")>>)
      [] feature = "keyIsId" ->
           [s EXCEPT ![holder].fields =
              [i \in DOMAIN @ |-> [@[i] EXCEPT !.id = s[holder].fields[i].name = "ownerId"]]]
      [] feature = "tree" -> Related(s, "Asset", "Asset", "parent", "children", "parentId", "tree")
      [] feature = "userTree" -> Related(s, "User", "User", "parent", "children", "parentId", "tree")
      [] feature = "second" -> Related(s, "Asset", "User", "reviewer", "reviewed", "reviewerId", "s")
      [] feature = "toBase" -> Related(s, "Video", "Asset", "source", "copies", "sourceId", None)
      [] feature = "compositeId" ->
           LET composed == [s EXCEPT !["Asset"] =
                 [@ EXCEPT !.ids = <<[fields |-> <<"id", "label">>, from |-> None]>>,
                           !.fields = [i \in DOMAIN @ |-> [@[i] EXCEPT !.id = FALSE]]]]
           IN IF holder # "User" THEN composed
              ELSE Add([composed EXCEPT !["User"].fields =
                          [i \in DOMAIN @ |-> IF ~HoldsKey(@[i]) THEN @[i]
                             ELSE [@[i] EXCEPT !.rel.fields = Append(@, "ownerLabel"),
                                               !.rel.references = Append(@, "label")]]],
                       "User", <<Of("User", "ownerLabel", "String")>>)

Plain == {sh \in Shapes : sh.many /\ ~sh.unique /\ sh.holder # "none"}
ToOne == {sh \in Shapes : ~sh.many /\ ~sh.unique /\ sh.holder # "none" /\ sh.name = None}
Hierarchies == {"abstract", "delegate"} \X {"plain", "delegate", "abstract"}
               \X {None, "Asset", "Video"} \X {"Asset", "Video"}

\* A relation is between models that have a table.
Written(s) == \A m \in DOMAIN s : \A f \in ToSet(s[m].fields) :
                IsRelation(s, f) => s[f.type].kind # "abstract"

Schemas == {s \in
    {Base(h[1], h[2], h[3], h[4], sh) : h \in Hierarchies, sh \in Shapes}
    \cup {With(Base(h[1], h[2], h[3], h[4], sh), feature, Holder(sh, h[4])) :
             h \in Hierarchies, sh \in Plain, feature \in Features}
    \cup {With(Base(h[1], h[2], h[3], h[4], sh), "keyInUnique", Holder(sh, h[4])) :
             h \in Hierarchies, sh \in ToOne} : Written(s)}

-----------------------------------------------------------------------------
(* Configurations. *)

Usual == [defaultPlugins |-> TRUE, output |-> FALSE, with |-> {}, without |-> {},
          plugins |-> <<>>, mapping |-> <<>>]

Options == {NoOptions, [NoOptions EXCEPT !.output = TRUE], [NoOptions EXCEPT !.modelOnly = TRUE],
            [NoOptions EXCEPT !.generateModels = {"User"}]}
Trpcs == {[Plugin(Trpc, [NoOptions EXCEPT !.generateModels = models]) EXCEPT !.dependencies = {Zod}] :
             models \in {{}, {"User"}}}
Hook == Plugin("hook", [NoOptions EXCEPT !.preprocessor = TRUE])
NeedsHook == [Plugin("other", NoOptions) EXCEPT !.dependencies = {"hook"}]

PluginLists ==
    {zods \o trpcs \o enhancers :
        zods \in {<<>>} \cup {<<Plugin(Zod, o)>> : o \in Options},
        trpcs \in {<<>>} \cup {<<p>> : p \in Trpcs},
        enhancers \in {<<>>, <<Plugin(Enhancer, [NoOptions EXCEPT !.output = TRUE])>>}}
    \cup {<<Hook, Plugin(Prisma, NoOptions)>>, <<Hook, NeedsHook>>, <<Plugin(OpenApi, NoOptions)>>}

Configs ==
    {[Usual EXCEPT !.plugins = p, !.defaultPlugins = d, !.output = o, !.without = w] :
        p \in PluginLists, d \in BOOLEAN, o \in BOOLEAN, w \in {{}, {Zod}}}
    \cup {[Usual EXCEPT !.plugins = p, !.with = {Trpc}] : p \in PluginLists}

Owned == [holder |-> "target", many |-> TRUE, optional |-> FALSE, unique |-> FALSE, name |-> None]
Validated(s, m) == [s EXCEPT ![m].validated = TRUE]
Small == Base("abstract", "plain", None, "Video", Owned)

-----------------------------------------------------------------------------
(* Documented schemas. *)

Lists(s) ==
    Add(s, "User", <<[Of("User", "tags", "String") EXCEPT !.array = TRUE],
                     [Of("User", "marks", "Int") EXCEPT !.array = TRUE],
                     [Of("User", "flags", "Boolean") EXCEPT !.array = TRUE],
                     Of("User", "email", "String"),
                     [Of("User", "admin", "Boolean") EXCEPT !.default = TRUE],
                     [Of("User", "born", "DateTime") EXCEPT !.optional = TRUE]>>)

IdsGiven(s, type) ==
    [s EXCEPT !["User"].fields = [i \in DOMAIN @ |-> IF @[i].name # "id" THEN @[i]
                                    ELSE [@[i] EXCEPT !.type = type, !.default = FALSE]]]

EmailsUnique(s) ==
    [s EXCEPT !["User"].fields = [i \in DOMAIN @ |-> [@[i] EXCEPT !.unique = s["User"].fields[i].name = "email"]]]
PairsUnique(s) == [s EXCEPT !["User"].uniques = <<[fields |-> <<"email", "admin">>, from |-> None]>>]

\* The fields of the id in the other order.
LabelFirst(s) ==
    [s EXCEPT !["Asset"].fields = [i \in DOMAIN @ |-> IF i <= 2 THEN @[3 - i] ELSE @[i]]]

Documented ==
    LET of(asset, target, holder) == Base(asset, "plain", None, target, [Owned EXCEPT !.holder = holder])
        plain == of("abstract", "Video", "target")
        keyed(s) == [s EXCEPT !["Video"].fields =
                       [i \in DOMAIN @ |-> [@[i] EXCEPT !.default = s["Video"].fields[i].name \in {"id", "ownerId"}]]]
    IN {plain, Lists(plain), EmailsUnique(Lists(plain)), PairsUnique(Lists(plain)), keyed(plain),
        IdsGiven(plain, "Int"), With(plain, "userTree", "User"), With(plain, "keyInUnique", "Video"),
        With(of("abstract", "Video", "User"), "keyInUnique", "User"),
        Base("abstract", "plain", None, "Video", [Owned EXCEPT !.optional = TRUE, !.many = FALSE])}
       \cup {With(of("delegate", target, holder), feature, holder) :
                target \in {"Asset", "Video"}, holder \in {"User", "target"},
                feature \in {"tree", "second"}}
       \cup UNION {{s, LabelFirst(s)} :
                s \in {With(of("abstract", "Video", holder), "compositeId", holder) : holder \in {"User", "target"}}}

Rest(mapping) == [Usual EXCEPT !.plugins = <<Plugin(OpenApi, [NoOptions EXCEPT !.flavor = "rest"])>>,
                               !.mapping = mapping]

\* The RPC API with no zod schemas of queries, and with schemas of each mode.
Rpcs ==
    {[Usual EXCEPT !.plugins = zods \o <<Plugin(OpenApi, NoOptions)>>] :
        zods \in {<<>>} \cup {<<Plugin(Zod, [NoOptions EXCEPT !.mode = mode, !.noUncheckedInput = checked])>> :
                              mode \in {"strict", "strip", "passthrough"}, checked \in BOOLEAN}}
RpcSchemas ==
    LET delegate == Base("delegate", "plain", None, "Asset", Owned)
        defaults == [i \in DOMAIN delegate["Asset"].fields |->
                       [delegate["Asset"].fields[i] EXCEPT !.default = @ \/ delegate["Asset"].fields[i].name = "label"]]
    IN {Lists(Small), With(delegate, "tree", "target"), [delegate EXCEPT !["Asset"].fields = defaults]}

MCBuilds ==
    [schema : Schemas, config : {Usual}]
    \cup [schema : {Small, Validated(Small, "Video")}, config : Configs]
    \cup [schema : UNION {{s, Validated(s, "User")} : s \in Documented}, config : {Rest(<<>>)}]
    \cup [schema : {Lists(Small)}, config : {Rest("Video" :> "film")}]
    \cup [schema : RpcSchemas, config : Rpcs]
=============================================================================
