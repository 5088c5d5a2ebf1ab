----------------------------- MODULE PolicyRead -----------------------------
(***************************************************************************)
(* Reads under the policy enhancement (policy-utils.ts, injectForRead to   *)
(* postProcessForRead): the rules of the models become conditions of the   *)
(* query, in its filter and in those of every relation it filters by,      *)
(* includes or counts; the rules of a field, which may look at both rows,  *)
(* are checked on what the query returns, for which it selects more than   *)
(* the client asked for.                                                   *)
(*                                                                         *)
(* The client of NestedWrite reads instead.  A child has the field val,    *)
(* with rules of its own, and the relation owner; "id" stands for all of   *)
(* the fields that have no rules.                                          *)
(*                                                                         *)
(* Arguments of a read: a filter or NoFilter, how fields are chosen, and   *)
(* the fields, each with arguments of its own or None for `true'.          *)
(***************************************************************************)
EXTENDS PermissionCheck, Filters, FiniteSets

CONSTANTS
    ReadStarts,     \* databases a read may find
    Reads           \* reads of the enhanced client

VARIABLES query, result
readVars == <<query, result, checkVars>>

Args(where, how, of) == [where |-> where, how |-> how, of |-> of]
Default == Args(NoFilter, "default", Nothing)
ArgsOf(args, f) == IF args.of[f] = None THEN Default ELSE args.of[f]
Where(args, where) == [args EXCEPT !.where = where]

Scalars == {"id", "val"}
Relations(model) == IF model = "child" THEN {"owner"} ELSE {"children"}
Target(f) == IF f = "owner" THEN "parent" ELSE "child"

ASSUME PolicyReadAssumption ==
    /\ ReadStarts \subseteq Starts
    /\ Opaque = {"val", "guard"}
    \* what expression-validator.ts admits, and rules of a field need no check()
    /\ \A p \in Policies :
        /\ Cross(p.child.read) = {} /\ Cross(p.parent.read) = {}
        /\ \A r \in p.field.read \cup p.field.override :
            r.when \notin {"kept", "lowKept", "willBeLow"}
        /\ Denies(p.field.override) = {}
    /\ \A q \in Reads :
        /\ q.model \in {"child", "parent"} /\ q.action \in {"find", "count"}
        /\ q.required \in BOOLEAN

-----------------------------------------------------------------------------
(* Guards.  One that reads fields is a condition of its own, the others    *)
(* are literals.                                                           *)

FieldRules == policy.field.read
Overrides == policy.field.override
Field(f) == IF f = "override" THEN Overrides \cup Denies(FieldRules) ELSE FieldRules

GuardOf(which, R, passes) ==
    IF \E r \in R : r.fields /\ ~r.cross THEN "guard" :> which ELSE Literal(passes)

ModelGuard(model) ==
    LET R == IF model = "child" THEN Rules("read") ELSE ParentRules("read")
    IN IF SameForEveryRow("read", R) THEN Literal(Guard("read", R, Unconditional(R)))
       ELSE "guard" :> "read"

FieldGuardOf(which) ==
    LET R == Field(which)
    IN GuardOf(which, R, FieldGuard(Allows(R), Denies(R), Unconditional(R)))

\* open by default, and not overridden by default
FieldReadGuard(model, f) ==
    IF model = "child" /\ f = "val" THEN FieldGuardOf("val") ELSE MakeTrue
FieldOverrideGuard(model, f) ==
    IF model = "child" /\ f = "val" /\ Overrides # {} THEN FieldGuardOf("override") ELSE MakeFalse

GuardHolds(model, which, row, s) ==
    IF model = "parent"
    THEN Guard("read", ParentRules("read"), ParentTrue(ParentRules("read"), s.parent[row]))
    ELSE LET R == IF which = "read" THEN Rules("read") ELSE Field(which)
             T == True(R, row, s, s)
         IN IF which = "read" THEN Guard("read", R, T) ELSE FieldGuard(Allows(R), Denies(R), T)

-----------------------------------------------------------------------------
(* What the database does with a filter and a selection. *)

RowsOf(model) == IF model = "child" THEN Kids ELSE Parents
Stored(model, row, s) == IF model = "child" THEN s.child[row] ELSE s.parent[row]
ValOf(model, row, s) == IF model = "child" THEN s.child[row].val ELSE s.parent[row]

RECURSIVE Matches(_, _, _, _)
Matches(model, c, row, s) ==
    LET Owner(d) == s.child[row].owner # None /\ Matches("parent", d, s.child[row].owner, s)
        AnyChild(d) == \E k \in Kids : Under(row, k, s) /\ Matches("child", d, k, s)
        Member(g, i) == Matches(model, g.of[i], row, s)
        Relation(op, d) ==
            CASE op = "is" -> Owner(d)
              [] op = "isNot" -> ~Owner(d)
              [] op = "some" -> AnyChild(d)
              [] op = "none" -> ~AnyChild(d)
              [] op = "every" -> ~AnyChild("NOT" :> Group(FALSE, <<d>>))
    IN \A key \in DOMAIN c : LET v == c[key] IN
        CASE key = "AND" -> \A i \in DOMAIN v.of : Member(v, i)
          [] key = "OR" -> \E i \in DOMAIN v.of : Member(v, i)
          [] key = "NOT" -> \A i \in DOMAIN v.of : ~Member(v, i)
          [] key = "val" -> ValOf(model, row, s) = v
          [] key = "guard" -> GuardHolds(model, v, row, s)
          [] key = "owner" /\ DOMAIN v \cap {"is", "isNot"} = {} -> Owner(v)
          [] OTHER -> \A op \in DOMAIN v : Relation(op, v[op])

Rows(model, where, s) ==
    {row \in RowsOf(model) :
        Stored(model, row, s) # None /\ (where = NoFilter \/ Matches(model, where, row, s))}

Fields(args) ==
    IF args.how = "select" THEN DOMAIN args.of ELSE Scalars \cup DOMAIN args.of

RECURSIVE Entity(_, _, _, _)
Entity(model, args, row, s) ==
    [f \in Fields(args) |->
        CASE f = "id" -> row
          [] f = "val" -> ValOf(model, row, s)
          [] f = "owner" ->
                LET a == ArgsOf(args, f)
                    p == s.child[row].owner
                IN IF p \in Rows("parent", a.where, s) THEN Entity("parent", a, p, s) ELSE None
          [] f = "children" ->
                LET a == ArgsOf(args, f)
                IN [k \in {c \in Rows("child", a.where, s) : Under(row, c, s)} |->
                        Entity("child", a, k, s)]
          [] f = "_count" ->
                Cardinality({c \in Rows("child", ArgsOf(args, f).where, s) : Under(row, c, s)})]

FindMany(model, args, s) ==
    [row \in Rows(model, args.where, s) |-> Entity(model, args, row, s)]

-----------------------------------------------------------------------------
(* Guards of filters. *)

\* buildReadGuardForFields passes over values that are 0, null or undefined,
\* and takes AND, OR and NOT for fields without rules.
Named(c) == {f \in DOMAIN c : f # "val" \/ c[f] # 0}

\* Faulty: rows are filtered by fields the client may not read.
GuardForRow(model, c, guard) == guard

GuardForFields(model, c, guard) ==
    LET fields == SetToSeq(Named(c))
        own == And([i \in DOMAIN fields |-> FieldReadGuard(model, fields[i])])
        override == IF fields = <<>> THEN MakeFalse
                    ELSE And([i \in DOMAIN fields |-> FieldOverrideGuard(model, fields[i])])
    IN IF c = Nothing THEN guard ELSE Or(<<And(<<guard, own>>), override>>)

\* The relations a filter goes through, with the guards of their models: `every'
\* becomes `none', and a direct condition `is'.
RECURSIVE Guarded(_)
Guarded(c) ==
    LET Both(model, d) == And(<<Guarded(d), GuardForFields(model, d, ModelGuard(model))>>)
        ToOne(v) == [op \in DOMAIN v |-> Both("parent", v[op])]
        Every(d, none) ==
            And(<<none, GuardForFields("child", d, ModelGuard("child")), Negation(Guarded(d))>>)
        ToMany(v, kept) ==
            IF "every" \notin DOMAIN v THEN kept
            ELSE IF v["every"] = Nothing THEN ("every" :> Nothing) @@ kept
            ELSE ("none" :> Every(v["every"], IF "none" \in DOMAIN v THEN kept["none"] ELSE Nothing))
                    @@ kept
    IN [f \in DOMAIN c |-> LET v == c[f] IN
            CASE f = "owner" -> ToOne(IF DOMAIN v \cap {"is", "isNot"} = {} THEN "is" :> v ELSE v)
              [] f = "children" ->
                    ToMany(v, [op \in DOMAIN v \cap {"some", "none"} |-> Both("child", v[op])])
              [] OTHER -> v]

\* Rows that only a field's override admits are found when every field that is
\* selected has one; a relation with arguments is no selected field.
OverrideGuard(model, args) ==
    LET chosen == CASE args.how = "default" -> Scalars
                    [] args.how = "select" ->
                         {f \in DOMAIN args.of \ {"_count"} : args.of[f] = None}
                    [] args.how = "include" -> Scalars \cup (DOMAIN args.of \ {"_count"})
        fields == SetToSeq(chosen)
    IN IF chosen = {} THEN NoFilter
       ELSE And([i \in DOMAIN fields |-> FieldOverrideGuard(model, fields[i])])

\* Faulty: the filter of the call is left as it is.
InjectBesideWhere(model, args) ==
    LET guard == Or(<<ModelGuard(model), OverrideGuard(model, args)>>)
    IN IF args.where = NoFilter THEN And(<<guard>>) ELSE And(<<args.where, guard>>)

BesideGuard(model, where, guard) ==
    IF IsFalse(guard) THEN MakeFalse
    ELSE And(IF where = NoFilter THEN <<guard>>
             ELSE <<Guarded(where), GuardForFields(model, where, guard)>>)

InjectAuthGuardAsWhere(model, args) ==
    BesideGuard(model, args.where, Or(<<ModelGuard(model), OverrideGuard(model, args)>>))

\* The arguments of the relations, and the conditions of the required ones,
\* which move up to the row itself.
WithNested(args, moved, inner, injected) ==
    [args |->
        [args EXCEPT !.of = [f \in DOMAIN @ |->
            CASE f \in moved -> inner[f].args
              [] f \in DOMAIN inner \ moved -> Where(inner[f].args, injected[f])
              [] f = "_count" -> Where(Default, injected[f])
              [] OTHER -> @[f]]],
     hoisted |-> SetToSeq({f :> injected[f] : f \in {g \in moved : ~IsTrue(injected[g])}})]

RECURSIVE Nested(_, _, _)
Nested(model, args, required) ==
    LET relations == DOMAIN args.of \cap Relations(model)
        moved == {f \in relations : required /\ f = "owner"}
        Injected(inner) ==
            [f \in relations \cup (DOMAIN args.of \cap {"_count"}) |->
                And(<<InjectAuthGuardAsWhere(Target(f), ArgsOf(args, f))>>
                        \o IF f \in relations THEN inner[f].hoisted ELSE <<>>)]
        Finish(inner) == WithNested(args, moved, inner, Injected(inner))
    IN Finish([f \in relations |-> Nested(Target(f), ArgsOf(args, f), required)])

\* the arguments with all guards, or None when nothing can be read
WithHoisted(nested, where) ==
    Where(nested.args, IF nested.hoisted = <<>> THEN where
                       ELSE MergeWhere(where, And(nested.hoisted)))

WithGuard(model, args, required, guard) ==
    LET own == MergeWhere(Guarded(args.where), GuardForFields(model, args.where, Nothing))
    IN IF IsFalse(guard) THEN None
       ELSE WithHoisted(Nested(model, args, required),
                        IF args.where = NoFilter THEN guard ELSE MergeWhere(own, guard))

InjectForRead(model, args, required) ==
    WithGuard(model, args, required, InjectAuthGuardAsWhere(model, Where(args, NoFilter)))

-----------------------------------------------------------------------------
(* Fields that only a checker needs are selected, without a guard, and     *)
(* taken out again once the rules of the fields have been checked.         *)

HasFieldRules(model) == model = "child" /\ FieldRules \cup Overrides # {}
LooksAtOwner(r) == r.when \in {"mine", "notMine", "match"}

WithOwner(args) ==
    LET a == IF "owner" \in DOMAIN args.of THEN ArgsOf(args, "owner") ELSE Default
        owner == IF a.how = "select" THEN [a EXCEPT !.of = ("val" :> None) @@ @] ELSE a
    IN [args EXCEPT !.how = IF @ = "default" THEN "include" ELSE @,
                    !.of = ("owner" :> owner) @@ @]

RECURSIVE InjectReadCheckSelect(_, _)
InjectReadCheckSelect(model, args) ==
    LET visited == [args EXCEPT !.of = [f \in DOMAIN @ |->
                        IF f \in Relations(model)
                        THEN InjectReadCheckSelect(Target(f), ArgsOf(args, f)) ELSE @[f]]]
        checked == HasFieldRules(model) /\ "val" \in Fields(args)
    IN IF checked /\ \E r \in FieldRules \cup Overrides : LooksAtOwner(r)
       THEN WithOwner(visited) ELSE visited

\* a rule of val on the entity the query returned
HoldsOf(r, e) ==
    LET OwnerIs(v) == e["owner"] # None /\ e["owner"]["val"] = v
    IN \/ r.when = "true"
       \/ r.when = "low" /\ e["val"] = 0
       \/ r.when = "high" /\ e["val"] > 0
       \/ r.when = "mine" /\ OwnerIs(0)
       \/ r.when = "notMine" /\ ~OwnerIs(0)
       \/ r.when = "match" /\ OwnerIs(e["val"])

CheckReadField(e) ==
    LET T == {r \in FieldRules \cup Overrides : HoldsOf(r, e)}
    IN \/ FieldRules # {} /\ FieldChecker(FieldRules, T)
       \/ Overrides \cap T # {}
       \/ FieldRules \cup Overrides = {}

RECURSIVE PostProcess(_, _, _)
PostProcess(model, args, e) ==
    LET kept == {f \in DOMAIN e : HasFieldRules(model) =>
                    f \in Fields(args) /\ (f = "val" => CheckReadField(e))}
        a(f) == IF f \in DOMAIN args.of THEN ArgsOf(args, f) ELSE Default
    IN [f \in kept |->
            CASE f = "owner" /\ e[f] # None -> PostProcess("parent", a(f), e[f])
              [] f = "children" -> [k \in DOMAIN e[f] |-> PostProcess("child", a(f), e[f][k])]
              [] OTHER -> e[f]]

-----------------------------------------------------------------------------
(* The calls. *)

FindInjected(q, injected, s) ==
    LET Processed(found) == [row \in DOMAIN found |-> PostProcess(q.model, q.args, found[row])]
    IN IF injected = None THEN Nothing
       ELSE Processed(FindMany(q.model, InjectReadCheckSelect(q.model, injected), s))

Find(q, s) == FindInjected(q, InjectForRead(q.model, q.args, q.required), s)

Count(q, s) ==
    Cardinality(Rows(q.model, InjectAuthGuardAsWhere(q.model, Where(Default, q.args.where)), s))

\* a schema where every child must have an owner
Suits(q) == q.required => \A k \in Kids : Exists(k, db) => db.child[k].owner # None

Read ==
    /\ pc = "idle" /\ db \in ReadStarts
    /\ query' \in Reads
    /\ Suits(query')
    /\ result' = IF query'.action = "find" THEN Find(query', db) ELSE Count(query', db)
    /\ pc' = "done"
    /\ UNCHANGED <<policy, db, view, call, todo, payload, checks, connected, outcome,
                   asked, answer>>

ReadInit == CheckInit /\ query = None /\ result = None
ReadNext == Read \/ (CheckNext /\ UNCHANGED <<query, result>>)
ReadSpec == ReadInit /\ [][ReadNext]_readVars

-----------------------------------------------------------------------------
(* Properties.  What the client should see: the database without the rows  *)
(* and the fields it may not read.                                         *)

RowAllowed(model, row, s) ==
    IF model = "parent"
    THEN Decides(ParentRules("read"), ParentTrue(ParentRules("read"), s.parent[row]))
    ELSE Decides(Rules("read"), True(Rules("read"), row, s, s))

FieldAllowed(f, model, row, s) ==
    LET R == FieldRules \cup Overrides
    IN model = "child" /\ f = "val" => FieldDecides(R, True(R, row, s, s))

\* a read of nothing but val may show what an override of val opens
Opened(model, args, row, s) ==
    \/ RowAllowed(model, row, s)
    \/ /\ model = "child" /\ args.how = "select"
       /\ {f \in DOMAIN args.of : args.of[f] = None} = {"val"}
       /\ Overrides \cap True(Overrides, row, s, s) # {}
       /\ Denies(FieldRules) \cap True(FieldRules, row, s, s) = {}

\* Of a condition, with the related rows the client may read: a row without a
\* field that a condition names is no such row.
RECURSIVE Fits(_, _, _, _)
Fits(model, c, row, s) ==
    LET Sees(m, d, r) == RowAllowed(m, r, s) /\ \A f \in DOMAIN d : FieldAllowed(f, m, r, s)
        Owner(d) == LET p == s.child[row].owner
                    IN p # None /\ Sees("parent", d, p) /\ Fits("parent", d, p, s)
        Children(d) == {k \in Kids : Under(row, k, s) /\ Sees("child", d, k)}
        Relation(op, d) ==
            CASE op = "is" -> Owner(d)
              [] op = "isNot" -> ~Owner(d)
              [] op = "some" -> \E k \in Children(d) : Fits("child", d, k, s)
              [] op = "none" -> \A k \in Children(d) : ~Fits("child", d, k, s)
              [] op = "every" -> \A k \in Children(d) : Fits("child", d, k, s)
        Member(g, i) == Fits(model, g.of[i], row, s)
    IN \A key \in DOMAIN c : LET v == c[key] IN
        CASE key = "AND" -> \A i \in DOMAIN v.of : Member(v, i)
          [] key = "OR" -> \E i \in DOMAIN v.of : Member(v, i)
          [] key = "NOT" -> \A i \in DOMAIN v.of : ~Member(v, i)
          [] key = "val" -> ValOf(model, row, s) = v
          [] key = "owner" /\ DOMAIN v \cap {"is", "isNot"} = {} -> Owner(v)
          [] OTHER -> \A op \in DOMAIN v : Relation(op, v[op])

RECURSIVE Present(_, _, _, _, _)
Present(model, args, row, required, s) ==
    /\ Stored(model, row, s) # None
    /\ Opened(model, args, row, s)
    /\ args.where # NoFilter =>
        /\ \A f \in DOMAIN args.where : FieldAllowed(f, model, row, s)
        /\ Fits(model, args.where, row, s)
    /\ required /\ "owner" \in DOMAIN args.of =>
        Present("parent", ArgsOf(args, "owner"), s.child[row].owner, required, s)

RECURSIVE Shown(_, _, _, _, _)
Shown(model, args, row, required, s) ==
    LET Children(a) == {k \in Kids : Under(row, k, s) /\ Present("child", a, k, required, s)}
    IN [f \in {g \in Fields(args) : FieldAllowed(g, model, row, s)} |->
            LET a == ArgsOf(args, f) IN
            CASE f = "owner" ->
                    LET p == s.child[row].owner
                    IN IF p # None /\ Present("parent", a, p, required, s)
                       THEN Shown("parent", a, p, required, s) ELSE None
              [] f = "children" -> [k \in Children(a) |-> Shown("child", a, k, required, s)]
              [] f = "_count" -> Cardinality(Children(Where(Default, a.where)))
              [] f = "id" -> row
              [] f = "val" -> ValOf(model, row, s)]

Expected(q, s) ==
    [row \in {r \in RowsOf(q.model) : Present(q.model, q.args, r, q.required, s)} |->
        Shown(q.model, q.args, row, q.required, s)]

\* Conditions the guards of fields and relations do not reach: those under AND,
\* OR and NOT; a field compared with 0; and a field whose rules compare two
\* rows, or are overridden.  And `none' beside an `every', which becomes part of
\* it: the rows that are in neither are told to be in one.
RECURSIVE Unguarded(_, _, _)
Unguarded(model, c, under) ==
    \E key \in DOMAIN c : LET v == c[key] IN
        CASE key \in Logical -> \E i \in DOMAIN v.of : Unguarded(model, v.of[i], TRUE)
          [] key = "val" ->
                /\ HasFieldRules(model)
                /\ under \/ v = 0 \/ Cross(FieldRules) # {} \/ Overrides # {}
          [] key = "owner" /\ DOMAIN v \cap {"is", "isNot"} = {} ->
                under \/ Unguarded("parent", v, FALSE)
          [] OTHER ->
                \/ under \/ {"none", "every"} \subseteq DOMAIN v
                \/ \E op \in DOMAIN v : Unguarded(Target(key), v[op], FALSE)

RECURSIVE FiltersUnguarded(_, _)
FiltersUnguarded(model, args) ==
    \/ args.where # NoFilter /\ Unguarded(model, args.where, FALSE)
    \/ \E f \in DOMAIN args.of \ Scalars : FiltersUnguarded(Target(f), ArgsOf(args, f))

\* Rules of val that look at the owner see none when the client selects it and
\* may not read it; and what they look at stays in the result when the client
\* selects less of it.
RECURSIVE OwnersSelected(_)
OwnersSelected(args) ==
    UNION {IF f = "owner" THEN {ArgsOf(args, f)} ELSE OwnersSelected(ArgsOf(args, f)) :
              f \in DOMAIN args.of \ Scalars}
ChecksThroughSelection(q) ==
    /\ \E r \in FieldRules \cup Overrides : LooksAtOwner(r)
    /\ \E a \in OwnersSelected(q.args) :
        "val" \in Fields(a) => \E p \in Parents : db.parent[p] # None /\ ~RowAllowed("parent", p, db)

\* An override opens a field that is denied; one that compares two rows finds
\* every row, without the field.
OverridesTooMuch == Overrides # {} /\ (Denies(FieldRules) # {} \/ Cross(Overrides) # {})

RECURSIVE Unfiltered(_)
Unfiltered(args) ==
    [args EXCEPT !.where = NoFilter,
                 !.of = [f \in DOMAIN @ |-> IF @[f] = None THEN None ELSE Unfiltered(@[f])]]

RECURSIVE PartOf(_, _)
PartOf(e, all) ==
    /\ DOMAIN e = DOMAIN all
    /\ \A f \in DOMAIN e \ {"_count"} :
        CASE f = "owner" -> e[f] = None \/ (all[f] # None /\ PartOf(e[f], all[f]))
          [] f = "children" ->
                \A k \in DOMAIN e[f] : k \in DOMAIN all[f] /\ PartOf(e[f][k], all[f][k])
          [] OTHER -> e[f] = all[f]

\* A relation filtered by an overridden field finds the rows the override opens,
\* and shows all of their fields.
RECURSIVE FiltersRelationByVal(_)
FiltersRelationByVal(args) ==
    \E f \in DOMAIN args.of \ Scalars :
        LET a == ArgsOf(args, f)
        IN (a.where # NoFilter /\ "val" \in DOMAIN a.where) \/ FiltersRelationByVal(a)

\* A read gives the client what a plain read would give if what it may not read
\* were not there: in the rows, their fields, what they include and count, and
\* in what the filter finds out about related rows.  Whatever the filter, also
\* where the guards do not reach: each row, related row and field that is shown
\* is one that the rules open to the client.
ReadsShowWhatIsReadable ==
    [][query' # query /\ query'.action = "find"
            /\ ~ChecksThroughSelection(query') /\ ~OverridesTooMuch
        => /\ ~FiltersUnguarded(query'.model, query'.args) => result' = Expected(query', db)
           /\ ~(Overrides # {} /\ FiltersRelationByVal(query'.args)) =>
                PartOf([children |-> result'],
                       [children |-> Expected([query' EXCEPT !.args = Unfiltered(@)], db)])]_readVars

\* A count is the number of rows the same read finds, although its guard is put
\* together in another way.
CountsMatchReads ==
    [][query' # query /\ query'.action = "count" /\ Overrides = {}
        => result' = Cardinality(DOMAIN Find(query', db))]_readVars
=============================================================================
