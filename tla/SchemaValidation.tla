--------------------------- MODULE SchemaValidation ---------------------------
(***************************************************************************)
(* The checks of data models (datamodel-validator.ts) that a schema passes *)
(* before its base models are merged and code is generated from it.  Only  *)
(* whether something is reported matters: an error stops the build.        *)
(***************************************************************************)
EXTENDS ZModel, FiniteSets

Scalars == {"Int", "String"}

\* The field a reference in model m resolves to, if any.
FieldOf(s, m, name) == Named(ModelFields(s, m, TRUE), name)
Resolved(s, m, name) == CHOOSE f \in FieldOf(s, m, name) : TRUE

\* The model is met again on the way up: a cycle, or two ways to one base.
RECURSIVE MeetsTwice(_, _, _)
MeetsTwice(s, seen, todo) ==
    /\ todo # <<>>
    /\ \/ Head(todo) \in seen
       \/ MeetsTwice(s, seen \cup {Head(todo)}, Tail(todo) \o s[Head(todo)].supers)

InheritanceIsTree(s, m) == ~MeetsTwice(s, {m}, s[m].supers)

BasesAreExtensible(s, m) ==
    /\ \A b \in ToSet(s[m].supers) : s[b].kind # "plain"
    /\ Cardinality({b \in ToSet(s[m].supers) : IsDelegate(s, b)}) <= 1

NamesAreUnique(s, m) ==
    LET fields == ModelFields(s, m, TRUE)
    IN \A i, j \in DOMAIN fields : fields[i].name = fields[j].name => i = j

HasIdentity(s, m) ==
    LET fields == ToSet(ModelFields(s, m, TRUE))
        ids == {f \in fields : f.id}
        modelIds == ToSet(ModelIds(s, m))
        checked == IF ids # {} THEN ids ELSE {f \in fields : f.name \in modelIds}
    IN /\ \/ s[m].kind = "abstract" \/ ids # {} \/ modelIds # {}
          \/ \E f \in fields : f.unique
          \/ ModelUnique(s, m) # <<>>
       /\ ids = {} \/ modelIds = {}
       /\ Cardinality(ids) <= 1
       /\ \A f \in checked : ~f.optional /\ ~f.array /\ f.type \in Scalars

UniqueIsOwn(s, m) ==
    \A u \in ToSet(s[m].uniques) : \A name \in ToSet(u.fields) :
        FieldOf(s, m, name) # {} /\ (Resolved(s, m, name).of = m
                                     \/ ~IsDelegate(s, Resolved(s, m, name).of))

-----------------------------------------------------------------------------
(* Relations. *)

\* The lists of a @relation come together and agree.
ParsesRelation(s, f) ==
    /\ Len(f.rel.fields) = Len(f.rel.references)
    /\ \A i \in DOMAIN f.rel.fields :
         LET key == f.rel.fields[i]
             id == f.rel.references[i]
         IN /\ FieldOf(s, f.of, key) # {} /\ FieldOf(s, f.type, id) # {}
            /\ Resolved(s, f.of, key).optional => f.optional
            /\ Resolved(s, f.of, key).type = Resolved(s, f.type, id).type
            /\ Resolved(s, f.of, key).array = Resolved(s, f.type, id).array

\* Relations of a delegate base need no other side in the models below it.
InheritedThroughDelegate(s, m, f) ==
    \E b \in PathTo(s, m, f.of) : IsDelegate(s, b)

\* Fields of the related model, and of abstract bases of it, that name this
\* relation; of a self relation the field itself is among them.
Opposites(s, m, f) ==
    {g \in ToSet(ModelFields(s, f.type, FALSE)) : g.type = m /\ g.rel.name = f.rel.name}

IsSelf(f) == f.type = f.of

UniqueLists(s, m) == [i \in DOMAIN s[m].uniques |-> s[m].uniques[i].fields]
                     \o [i \in DOMAIN s[m].ids |-> s[m].ids[i].fields]

\* The key of a one-to-one relation is unique.
KeyIsUnique(s, m, f) ==
    LET lists == ToSet(UniqueLists(s, f.of)) \cup ToSet(UniqueLists(s, m))
    IN \A key \in ToSet(f.rel.fields) :
         LET k == Resolved(s, f.of, key)
         IN k.id \/ k.unique \/ \E list \in lists : key \in ToSet(list)

\* f is the side with the key, g the other one.
OneHoldsKey(f, g) ==
    /\ HoldsKey(f) /\ ~HoldsKey(g)
    /\ g.array \/ g.optional

PairedRelation(s, m, f, g) ==
    \/ OneHoldsKey(f, g) /\ (g.array \/ KeyIsUnique(s, m, f))
    \/ OneHoldsKey(g, f)
    \/ /\ ~HoldsKey(f) /\ ~HoldsKey(g)
       /\ (f.array /\ g.array) \/ (IsSelf(f) /\ IsSelf(g))

ValidRelation(s, m, f) ==
    /\ ParsesRelation(s, f)
    /\ \/ InheritedThroughDelegate(s, m, f)
       \/ LET others == Opposites(s, m, f)
          IN \/ /\ Cardinality(others) = 1
                /\ PairedRelation(s, m, f, CHOOSE g \in others : TRUE)
             \/ /\ Cardinality(others) > 1
                /\ \A g \in others : g.of = m \/ IsSelf(g)

ValidFields(s, m) ==
    /\ \A f \in ToSet(s[m].fields) : ~(f.array /\ f.optional)
    /\ \/ s[m].kind = "abstract"
       \/ \A f \in ToSet(ModelFields(s, m, TRUE)) :
            IsRelation(s, f) => ValidRelation(s, m, f)

\* DataModelValidator.validate reports nothing.
ValidModel(s, m) ==
    /\ InheritanceIsTree(s, m)
    /\ BasesAreExtensible(s, m)
    /\ NamesAreUnique(s, m)
    /\ HasIdentity(s, m)
    /\ UniqueIsOwn(s, m)
    /\ ValidFields(s, m)

\* Any error in any model stops the build (loadDocument).
Accepted(s) == /\ \A m \in DOMAIN s : InheritanceIsTree(s, m)
               /\ \A m \in DOMAIN s : ValidModel(s, m)
=============================================================================
