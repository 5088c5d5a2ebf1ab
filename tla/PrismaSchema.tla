----------------------------- MODULE PrismaSchema -----------------------------
(***************************************************************************)
(* The Prisma schemas made of a merged ZModel schema                       *)
(* (prisma/schema-generator.ts): the physical one the database is made     *)
(* from, in which a model of a delegate hierarchy is a table of its own    *)
(* fields linked to its base's, and the logical one client types are made  *)
(* from, in which it has every field and a relation to a delegate model is *)
(* repeated for each model below it.                                       *)
(*                                                                         *)
(* Names are the sequence of the words an underscore joins.                *)
(***************************************************************************)
EXTENDS ZModel, FiniteSets, TLC

CONSTANT Digits     \* how the first numbers are written

Aux(words) == <<"aux">> \o words
NoName == <<>>

\* The generator's state: the names it shortened and the models it made.
\* `limit` is IDENTIFIER_NAME_MAX_LENGTH, in words.
Fresh(s, limit) ==
    [limit |-> limit, short |-> <<>>,
     models |-> [m \in DOMAIN s |-> [fields |-> <<>>, uniques |-> <<>>]]]

Taken(short) == {short[name] : name \in DOMAIN short}

\* Faulty: the first short name, taken or not.
TruncateOnly(g, name) ==
    IF Len(name) <= g.limit THEN g
    ELSE [g EXCEPT !.short = @ @@ (name :> SubSeq(name, 1, g.limit) \o <<Digits[1]>>)]

\* truncate: notes a long name with the first short one that is free.
Truncate(g, name) ==
    LET candidate(i) == SubSeq(name, 1, g.limit) \o <<Digits[i]>>
        free == {i \in DOMAIN Digits : candidate(i) \notin Taken(g.short)}
        first == CHOOSE i \in free : \A j \in free : i <= j
    IN IF Len(name) <= g.limit \/ name \in DOMAIN g.short THEN g
       ELSE [g EXCEPT !.short = @ @@ (name :> candidate(first))]

ShortOf(g, name) == IF name \in DOMAIN g.short THEN g.short[name] ELSE name

WithField(g, m, f) == [g EXCEPT !.models[m].fields = Append(@, f)]
Words(names) == [i \in DOMAIN names |-> <<names[i]>>]
Scalar(name, type, optional, unique) ==
    [name |-> name, type |-> type, array |-> FALSE, optional |-> optional,
     id |-> FALSE, unique |-> unique, default |-> FALSE,
     rel |-> [name |-> NoName, fields |-> <<>>, references |-> <<>>]]

-----------------------------------------------------------------------------
(* The fields of the model itself. *)

Generated(f) ==
    [name |-> <<f.name>>, type |-> f.type, array |-> f.array, optional |-> f.optional,
     id |-> f.id, unique |-> f.unique, default |-> f.default,
     rel |-> [name |-> IF f.rel.name = None THEN NoName ELSE <<f.rel.name>>,
              fields |-> Words(f.rel.fields), references |-> Words(f.rel.references)]]

\* What a model inherits from a delegate base is in the base's table.
InTable(s, mode, f) ==
    \/ InheritedFromDelegate(s, f) = None \/ mode = "logical" \/ IsIdField(s, f)

\* The id of a row is the one its base's row was given.
WithoutDefault(s, mode, f) ==
    IF mode = "physical" /\ IsIdField(s, f) /\ InheritedFromDelegate(s, f) # None
    THEN [Generated(f) EXCEPT !.default = FALSE] ELSE Generated(f)

GenerateFields(s, mode, g, m) ==
    LET kept == SelectSeq(s[m].fields, LAMBDA f : InTable(s, mode, f))
    IN [g EXCEPT !.models[m] =
          [fields |-> [i \in DOMAIN kept |-> WithoutDefault(s, mode, kept[i])],
           uniques |-> [i \in DOMAIN (s[m].ids \o s[m].uniques) |->
                          Words((s[m].ids \o s[m].uniques)[i].fields)]]]

-----------------------------------------------------------------------------
(* The links between the tables of a hierarchy. *)

RelationForBase(s, g, m) ==
    LET link(h, c) == LET cut == Truncate(h, Aux(<<c>>))
                      IN WithField(cut, m, Scalar(ShortOf(cut, Aux(<<c>>)), c, TRUE, FALSE))
    IN FoldLeft(link, g, ConcreteModels(s, m))

RelationForConcrete(s, g, m) ==
    LET ids(b) == Words(IdFields(s, b))
        link(h, b) ==
            LET cut == Truncate(h, Aux(<<b>>))
                field == Scalar(ShortOf(cut, Aux(<<b>>)), b, FALSE, FALSE)
            IN WithField(cut, m, [field EXCEPT !.rel.fields = ids(b), !.rel.references = ids(b)])
    IN FoldLeft(link, g, SelectSeq(s[m].supers, LAMBDA b : IsDelegate(s, b)))

-----------------------------------------------------------------------------
(* Logical: relations to a delegate model, again for each model below it. *)

\* The model's @@unique attributes with the replicated key for the key.
ReplicateUniques(s, g, m, key, copy) ==
    LET involved == SelectSeq(s[m].uniques, LAMBDA u : key \in ToSet(u.fields))
        replaced(u) == [i \in DOMAIN u.fields |->
                          IF u.fields[i] = key THEN copy ELSE <<u.fields[i]>>]
        add(h, u) == [Truncate(h, <<m>> \o FlattenSeq(replaced(u)) \o <<"unique">>)
                        EXCEPT !.models[m].uniques = Append(@, replaced(u))]
    IN FoldLeft(add, g, involved)

ReplicateForeignKey(s, g, m, concrete, key) ==
    LET name == Aux(<<m, key, concrete>>)
        cut == Truncate(Truncate(g, <<m, key, concrete, "unique">>), name)
        original == Generated(CHOOSE f \in Named(s[m].fields, key) : TRUE)
        copy == [original EXCEPT !.name = ShortOf(cut, name), !.unique = TRUE]
    IN ReplicateUniques(s, WithField(cut, m, copy), m, key, copy.name)

ExpandRelation(s, g, f, concrete) ==
    LET m == f.of
        name == Aux(<<m, f.name, concrete>>)
        cut == Truncate(g, name)
        keys == FoldLeft(LAMBDA h, key : ReplicateForeignKey(s, h, m, concrete, key),
                         cut, f.rel.fields)
        copies == [i \in DOMAIN f.rel.fields |->
                     ShortOf(keys, Aux(<<m, f.rel.fields[i], concrete>>))]
    IN WithField(keys, m,
         [Generated(f) EXCEPT
            !.name = ShortOf(cut, name), !.type = concrete, !.id = FALSE, !.unique = FALSE,
            !.rel = [name |-> ShortOf(cut, name), fields |-> copies,
                     references |-> Words(f.rel.references)]])

ExpandPolymorphicRelations(s, g, m) ==
    LET expanded == SelectSeq(s[m].fields,
                        LAMBDA f : ~IsDelegate(s, f.from) /\ IsRelation(s, f))
        below(f) == SelectSeq(Declarations(s), LAMBDA k : IsDescendantOf(s, k, f.type))
        expand(h, f) == FoldLeft(LAMBDA i, k : ExpandRelation(s, i, f, k), h, below(f))
    IN FoldLeft(expand, g, expanded)

-----------------------------------------------------------------------------
(* Logical: the relations a model inherits from its delegate bases, renamed *)
(* to meet those.                                                           *)

\* The field of a delegate base this one comes from: {} or a singleton.
RECURSIVE FindUp(_, _, _)
FindUp(s, start, name) ==
    LET own(b) == {f \in Named(s[b].fields, name) : IsDelegate(s, b) /\ ~IsDelegate(s, f.from)}
    IN UNION {IF own(b) # {} THEN own(b) ELSE FindUp(s, b, name) : b \in ToSet(s[start].supers)}

OppositeFields(s, m, f) ==
    SelectSeq(s[m].fields, LAMBDA g : g.type = f.of /\ g.rel.name = f.rel.name)

\* Among several, the one of the same name.
Preferred(fields, name) ==
    LET named == SelectSeq(fields, LAMBDA g : g.name = name)
    IN IF named # <<>> THEN Head(named) ELSE Head(fields)

WithRelation(g, m, name, rel) ==
    [g EXCEPT !.models[m].fields =
        [i \in DOMAIN @ |-> IF @[i].name = <<name>> THEN [@[i] EXCEPT !.rel = rel] ELSE @[i]]]

\* Keys for the side of a relation that had none in this model.
GenerateKeys(s, g, f, opposite, relName) ==
    LET ids == IdFields(s, opposite.of)
        name(id) == Aux(<<f.name, id>>)
        add(h, id) ==
            LET cut == Truncate(h, name(id))
                type == (CHOOSE i \in Named(s[opposite.of].fields, id) : TRUE).type
            IN WithField(cut, f.of, Scalar(ShortOf(cut, name(id)), type, f.optional, TRUE))
        keys == FoldLeft(add, g, ids)
    IN WithRelation(keys, f.of, f.name,
         [name |-> relName, fields |-> [i \in DOMAIN ids |-> ShortOf(keys, name(ids[i]))],
          references |-> Words(ids)])

EnsureRelation(s, g, f, opposite) ==
    LET name == Aux(<<f.type, opposite.name, f.of>>)
        cut == Truncate(g, name)
        relName == ShortOf(cut, name)
        isSelf == f.type = (IF f.from = None THEN f.of ELSE f.from)
        lists == IF isSelf THEN NoRel ELSE f.rel
    IN IF f.array \/ HoldsKey(f) \/ HoldsKey(opposite)
       THEN WithRelation(cut, f.of, f.name,
              [name |-> relName, fields |-> Words(lists.fields),
               references |-> Words(lists.references)])
       ELSE GenerateKeys(s, cut, f, opposite, relName)

\* Faulty: the names the relations were given in the schema stay.
LeaveInherited(s, g, m) == g

EnsureRelationsInherited(s, g, m) ==
    LET inherited == SelectSeq(s[m].fields, LAMBDA f : IsRelation(s, f) /\ f.from # None)
        ensure(h, f) ==
            LET base == FindUp(s, m, f.name)
                others == OppositeFields(s, f.type, CHOOSE b \in base : TRUE)
            IN IF base = {} \/ others = <<>> THEN h
               ELSE EnsureRelation(s, h, f, Preferred(others, (CHOOSE b \in base : TRUE).name))
    IN FoldLeft(ensure, g, inherited)

-----------------------------------------------------------------------------
GenerateModel(s, mode, g, m) ==
    LET fields == GenerateFields(s, mode, g, m)
    IN IF mode = "physical"
       THEN RelationForConcrete(s, RelationForBase(s, fields, m), m)
       ELSE EnsureRelationsInherited(s, ExpandPolymorphicRelations(s, fields, m), m)

Generate(s, mode, limit) ==
    FoldLeft(LAMBDA g, m : GenerateModel(s, mode, g, m), Fresh(s, limit), Declarations(s))

-----------------------------------------------------------------------------
(* What `prisma generate` asks of a schema. *)

FieldsOf(p, m) == ToSet(p[m].fields)
OtherSides(p, m, f) ==
    {g \in FieldsOf(p, f.type) : /\ g.type = m /\ g.rel.name = f.rel.name
                                 /\ <<f.type, g.name>> # <<m, f.name>>}

\* Some @id, @unique, @@id or @@unique is on these fields.
Identifies(p, m, names) ==
    \/ \E k \in FieldsOf(p, m) : ToSet(names) = {k.name} /\ (k.unique \/ k.id)
    \/ \E u \in ToSet(p[m].uniques) : ToSet(u) = ToSet(names)

KeyFits(p, m, f, g) ==
    /\ ~f.array /\ Len(f.rel.fields) = Len(f.rel.references)
    /\ \A i \in DOMAIN f.rel.fields :
         \E k \in FieldsOf(p, m), id \in FieldsOf(p, f.type) :
            /\ k.name = f.rel.fields[i] /\ id.name = f.rel.references[i]
            /\ k.type = id.type /\ ~k.array
            /\ k.optional => f.optional
    /\ g.rel.fields = <<>> /\ (g.array \/ g.optional)
    /\ g.array \/ Identifies(p, m, f.rel.fields)
    /\ Identifies(p, f.type, f.rel.references)

RelationFits(p, m, f) ==
    /\ Cardinality(OtherSides(p, m, f)) = 1
    /\ \A g \in OtherSides(p, m, f) :
         \/ f.rel.fields # <<>> /\ KeyFits(p, m, f, g)
         \/ g.rel.fields # <<>> /\ KeyFits(p, f.type, g, f)
         \/ f.array /\ g.array /\ f.rel.fields = <<>> /\ g.rel.fields = <<>>

PrismaAccepts(p) ==
    \A m \in DOMAIN p :
        /\ \A i, j \in DOMAIN p[m].fields : p[m].fields[i].name = p[m].fields[j].name => i = j
        /\ Cardinality({f \in FieldsOf(p, m) : f.id}) <= 1
        /\ p[m].uniques # <<>> \/ \E f \in FieldsOf(p, m) : f.id \/ f.unique
        /\ \A f \in FieldsOf(p, m) : f.type \in DOMAIN p => RelationFits(p, m, f)
=============================================================================
