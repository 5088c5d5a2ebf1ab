-------------------------------- MODULE ZModel --------------------------------
(***************************************************************************)
(* Schemas of the ZModel language, as far as inheritance and relations go: *)
(* the helpers over the syntax tree (sdk/src/utils.ts) and the merging of  *)
(* base models into the models that extend them (ast-utils.ts).            *)
(*                                                                         *)
(* A schema s maps each declared model to                                  *)
(*   kind     "plain", "abstract" or "delegate",                           *)
(*   supers   the models it extends,                                       *)
(*   ids, uniques   its @@id and @@unique attributes,                      *)
(*   discriminator  the field a delegate model tells its rows apart by,    *)
(*   validated   whether its attributes ask for the validation of input,   *)
(*   fields, and whether its bases were merged into it.                    *)
(* A field names its type, a scalar or a model, whether it has a @default, *)
(* and has a `rel`: the name and the lists of its @relation attribute,     *)
(* empty where there is none; `of` is the model it stands in, `from` the   *)
(* one it was inherited from.                                              *)
(***************************************************************************)
EXTENDS Integers, Sequences, SequencesExt

CONSTANT Declared   \* the names a schema may declare, in declaration order

None == ""          \* no model, no relation name
NoRel == [name |-> None, fields |-> <<>>, references |-> <<>>]

Declarations(s) == SelectSeq(Declared, LAMBDA m : m \in DOMAIN s)
IsDelegate(s, m) == m \in DOMAIN s /\ s[m].kind = "delegate"
IsRelation(s, f) == f.type \in DOMAIN s
HoldsKey(f) == f.rel.fields # <<>>
Named(fields, name) == {f \in ToSet(fields) : f.name = name}

\* The models m extends, directly or not, each before the ones it extends.
\* Of no use before circular inheritance was refused.
RECURSIVE RecursiveBases(_, _, _)
RecursiveBases(s, m, withDelegates) ==
    LET from(b) == IF IsDelegate(s, b) /\ ~withDelegates
                   THEN <<>> ELSE <<b>> \o RecursiveBases(s, b, withDelegates)
    IN FlattenSeq([i \in DOMAIN s[m].supers |-> from(s[m].supers[i])])

Bases(s, m) == ToSet(RecursiveBases(s, m, TRUE))

\* The models on the way from m up to its base b, b included.
PathTo(s, m, b) == {k \in Bases(s, m) : k = b \/ b \in Bases(s, k)}

ModelFields(s, m, withDelegates) ==
    IF s[m].merged THEN s[m].fields
    ELSE LET bases == RecursiveBases(s, m, withDelegates)
         IN s[m].fields \o FlattenSeq([i \in DOMAIN bases |-> s[bases[i]].fields])

\* The first @@id or @@unique of the model, or of the first base that has one.
FirstOf(s, m, attribute(_)) ==
    LET searched == IF s[m].merged THEN <<m>> ELSE <<m>> \o RecursiveBases(s, m, TRUE)
        found == SelectSeq(searched, LAMBDA k : attribute(s[k]) # <<>>)
    IN IF found = <<>> THEN <<>> ELSE attribute(s[Head(found)])[1].fields

ModelIds(s, m) == FirstOf(s, m, LAMBDA k : k.ids)
ModelUnique(s, m) == FirstOf(s, m, LAMBDA k : k.uniques)

\* The names of the fields that identify a row.
IdFields(s, m) ==
    LET marked == SelectSeq(ModelFields(s, m, TRUE), LAMBDA f : f.id)
    IN IF marked # <<>> THEN <<Head(marked).name>>
       ELSE IF s[m].ids # <<>> THEN s[m].ids[1].fields ELSE <<>>

IsIdField(s, f) ==
    LET fields == s[f.of].fields
        ids == ToSet(ModelIds(s, f.of))
        unique == SelectSeq(fields, LAMBDA g : g.unique)
    IN \/ f.id
       \/ f.name \in ids
       \/ /\ ids = {} /\ \A g \in ToSet(fields) : ~g.id
          /\ IF unique # <<>> THEN Head(unique).name = f.name
             ELSE f.name \in ToSet(ModelUnique(s, f.of))

-----------------------------------------------------------------------------
(* Merging (cli-util.ts, loadDocument). *)

\* The uppermost delegate base that has the field; bases that come later in
\* the schema do not have what they inherit yet.
InheritedFrom(s, m, f) ==
    LET delegates == SelectSeq(RecursiveBases(s, m, TRUE),
                        LAMBDA b : IsDelegate(s, b) /\ Named(s[b].fields, f.name) # {})
    IN IF delegates # <<>> THEN Last(delegates) ELSE f.of

\* Indexes of a delegate base stay with it: they are on its own table.
InheritsUniques(s, m, b) == \A k \in PathTo(s, m, b) : ~IsDelegate(s, k)

MergeBases(s, m) ==
    LET bases == Reverse(RecursiveBases(s, m, TRUE))
        own(things) == SelectSeq(things, LAMBDA x : x.from = None)
        cloned(b) == [i \in DOMAIN own(s[b].fields) |->
                        LET f == own(s[b].fields)[i]
                        IN [f EXCEPT !.of = m, !.from = InheritedFrom(s, m, f)]]
        copied(b, things) == [i \in DOMAIN own(things) |-> [own(things)[i] EXCEPT !.from = b]]
        each(part(_)) == FlattenSeq([i \in DOMAIN bases |-> part(bases[i])])
    IN [s EXCEPT ![m] =
          [@ EXCEPT
            !.fields = each(cloned) \o @,
            !.ids = each(LAMBDA b : copied(b, s[b].ids)) \o @,
            !.uniques = each(LAMBDA b : IF InheritsUniques(s, m, b)
                                        THEN copied(b, s[b].uniques) ELSE <<>>) \o @,
            !.merged = TRUE]]

MergeBaseModels(s) ==
    LET merged == FoldLeft(MergeBases, s, Declarations(s))
        kept == {m \in DOMAIN s : s[m].kind # "abstract"}
    IN [m \in kept |->
          [merged[m] EXCEPT !.supers = SelectSeq(@, LAMBDA b : IsDelegate(s, b))]]

-----------------------------------------------------------------------------
(* Of merged schemas. *)

\* The delegate base whose table has the field.
InheritedFromDelegate(s, f) ==
    LET found == SelectSeq(RecursiveBases(s, f.of, TRUE),
                    LAMBDA b : IsDelegate(s, b) /\ Named(s[b].fields, f.name) # {})
    IN IF f.from = None \/ found = <<>> THEN None ELSE Last(found)

\* Faulty: whatever the relation is named.
RelationBackLinkAnyName(s, f) ==
    LET source == IF IsDelegate(s, f.from) THEN f.from ELSE f.of
    IN SelectSeq(s[f.type].fields, LAMBDA g : g # f /\ g.type = source)

\* The other side of a relation: the first that fits.
RelationBackLink(s, f) ==
    LET source == IF IsDelegate(s, f.from) THEN f.from ELSE f.of
    IN SelectSeq(s[f.type].fields,
          LAMBDA g : /\ g # f /\ g.type = source
                     /\ f.rel.name # None => g.rel.name = f.rel.name)

IsForeignKey(s, f) == \E g \in ToSet(s[f.of].fields) : f.name \in ToSet(g.rel.fields)

IsDiscriminator(s, f) ==
    LET declared == IF f.from = None THEN f.of ELSE f.from
    IN IsDelegate(s, declared) /\ s[declared].discriminator = f.name

ConcreteModels(s, m) ==
    IF IsDelegate(s, m)
    THEN SelectSeq(Declarations(s), LAMBDA k : k # m /\ m \in ToSet(s[k].supers))
    ELSE <<>>

IsDescendantOf(s, m, b) == b \in Bases(s, m)
=============================================================================
