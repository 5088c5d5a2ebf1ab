--------------------------- MODULE RuleExpressions ---------------------------
(***************************************************************************)
(* The expressions of rules, and what they compile to.  A rule becomes a   *)
(* condition of a query (expression-writer.ts), unless it compares fields  *)
(* of two models, and a JavaScript predicate on an entity                  *)
(* (typescript-expression-transformer.ts) for which the fields it names    *)
(* are selected (policy/utils.ts): models use the predicate where they     *)
(* have rules of two models, fields that guard reading always do.  A rule  *)
(* of @@validate becomes a predicate on the input of a call, whose fields  *)
(* may be absent.                                                          *)
(*                                                                         *)
(* An item has an id, the numbers x and n, of which n may be null, the     *)
(* flag b, an owner, which is a user or null, and tags.  Users have id, x, *)
(* n and tags, tags have id and x.                                         *)
(*                                                                         *)
(* Expressions are records with an operator `op': literal (value), list    *)
(* (values), ref (field), this, auth, future, member (of, field), not      *)
(* (of), and the operators of ZModel with left and right; "?", "!" and "^" *)
(* are the predicates on collections.  Those for which the generator stops *)
(* or writes code that does not compile are not rules here: a flag of this *)
(* or future() by itself, a field compared with itself, the future of two  *)
(* fields compared.                                                        *)
(***************************************************************************)
EXTENDS Integers, Sequences

CONSTANTS
    Null, Undefined,
    Rules,      \* [kind, after, expr]: kind is allow, deny or validate; a rule
                \* is `after' when update rules are checked after the update
    Users,      \* who may call: users, whose fields may be missing, and Null
    Items,      \* what an item may be
    Inputs      \* what a call may give: functions on some of x, n and b

VARIABLES
    rule, user, row, before,    \* before: the row before its update
    stage,                      \* start, updated, done
    verdict                     \* [guard, checker], or [input, accepted]
vars == <<rule, user, row, before, stage, verdict>>

Orders == {"<", "<=", ">", ">="}
Comparisons == Orders \cup {"==", "!="}
Predicates == {"?", "!", "^"}
Logical == {"&&", "||"}

Nullish(v) == v = Null \/ v = Undefined
Get(v, f) == IF Nullish(v) THEN Undefined ELSE IF f \in DOMAIN v THEN v[f] ELSE Undefined
Ordered(op, a, b) ==
    CASE op = "<" -> a < b [] op = "<=" -> a <= b [] op = ">" -> a > b [] op = ">=" -> a >= b

-----------------------------------------------------------------------------
(* Forms of expressions. *)

RECURSIVE IsAuth(_), IsFuture(_), OfThis(_), FieldAccess(_, _)
IsAuth(e) == e.op = "auth" \/ (e.op = "member" /\ IsAuth(e.of))
IsFuture(e) == e.op = "member" /\ (e.of.op = "future" \/ IsFuture(e.of))
OfThis(e) == e.op = "this" \/ (e.op = "member" /\ OfThis(e.of))

\* After an update the fields of future() are those of the row, and the others
\* are values known from before.
FieldAccess(e, after) ==
    \/ e.op = "this"
    \/ e.op = "member" /\ ((e.of.op = "future" /\ after) \/ FieldAccess(e.of, after))
    \/ e.op = "ref" /\ ~after

Typed(e) == e.op \in {"this", "auth"} \/ (e.op \in {"ref", "member"} /\ e.field = "owner")
Nullable(e) ==
    e.op \in {"ref", "member"} /\
        (e.field \in {"n", "owner"} \/ (e.op = "member" /\ e.of.op = "auth"))

Operands(e) ==
    CASE e.op \in {"member", "not"} -> {e.of}
      [] e.op \in Comparisons \cup Predicates \cup Logical \cup {"in"} -> {e.left, e.right}
      [] OTHER -> {}

RECURSIVE Parts(_)
Parts(e) == {e} \cup UNION {Parts(o) : o \in Operands(e)}
Occurs(op, e) == \E p \in Parts(e) : p.op = op

\* the model an operand's field is looked up in
RECURSIVE SourceModel(_, _)
SourceModel(e, model) ==
    CASE e.op \in {"this", "future"} -> "item"
      [] e.op = "ref" -> model
      [] e.op = "member" ->
            IF e.of.op \in {"ref", "member"} /\ e.of.field = "owner" /\ ~IsAuth(e.of) THEN "user"
            ELSE SourceModel(e.of, model)
      [] OTHER -> "none"

RECURSIVE CrossModel(_, _)
CrossModel(e, model) ==
    \/ /\ e.op \in Comparisons \cup {"in"}
       /\ LET l == SourceModel(e.left, model)
              r == SourceModel(e.right, model)
          IN l # "none" /\ r # "none" /\ l # r
    \/ e.op \in Predicates /\ CrossModel(e.right, "tag")
    \/ e.op \in Logical /\ (CrossModel(e.left, model) \/ CrossModel(e.right, model))
    \/ e.op = "not" /\ CrossModel(e.of, model)

ASSUME FutureIsOfUpdates == \A r \in Rules : Occurs("future", r.expr) => r.after

-----------------------------------------------------------------------------
(* JavaScript.  A context has what its variables stand for: input, pre (the *)
(* row before the update), user, this, and item inside of a predicate;     *)
(* `after' when plain fields are those of pre, `nulls' when a missing      *)
(* member is read as null, and `optional' for the input of a call.         *)

Inside(c, item) == [c EXCEPT !.after = FALSE, !.inside = TRUE, !.item = item]

FieldOf(f, c) ==
    Get(IF c.inside THEN c.item ELSE IF c.after THEN c.pre ELSE c.input, f)

LooselyEqual(a, b) == IF Nullish(a) \/ Nullish(b) THEN Nullish(a) /\ Nullish(b) ELSE a = b
AllFieldsEqual(a, b) == ~Nullish(a) /\ ~Nullish(b) /\ Get(a, "id") = Get(b, "id")
Equal(e, l, r) ==
    IF "this" \in {e.left.op, e.right.op} THEN AllFieldsEqual(l, r)
    ELSE IF Typed(e.left) /\ Typed(e.right) THEN LooselyEqual(Get(l, "id"), Get(r, "id"))
    ELSE LooselyEqual(l, r)

\* null is the number 0, undefined is none
InOrder(op, l, r) ==
    LET Number(v) == IF v = Null THEN 0 ELSE v
    IN l # Undefined /\ r # Undefined /\ Ordered(op, Number(l), Number(r))

Compare(e, l, r) ==
    CASE e.op = "==" -> Equal(e, l, r)
      [] e.op = "!=" -> ~Equal(e, l, r)
      [] OTHER -> InOrder(e.op, l, r)

\* of an input, a field that is absent
Absent(e, v, c) == c.optional /\ e.op = "ref" /\ v = Undefined
NullComparison(e) ==
    e.op \in {"==", "!="} /\
        \E o \in {e.left, e.right} : o.op = "literal" /\ o.value = Null

Operate(e, l, r) ==
    CASE e.op = "&&" -> l = TRUE /\ r = TRUE
      [] e.op = "||" -> l = TRUE \/ r = TRUE
      [] OTHER -> Compare(e, l, r)

\* Faulty: an absent field is like any undefined value.
OperateStrictly(e, l, r, c) == Operate(e, l, r)

\* a comparison, a conjunction or a disjunction with an absent field is true
Tolerant(e, l, r, c) ==
    \/ ~(c.optional /\ NullComparison(e)) /\ (Absent(e.left, l, c) \/ Absent(e.right, r, c))
    \/ Operate(e, l, r)

MemberAccess(v, f, c) == IF c.nulls /\ Get(v, f) = Undefined THEN Null ELSE Get(v, f)
Unary(e, v, c) == Absent(e.of, v, c) \/ v # TRUE
Includes(values, v, c) == (c.optional /\ v = Undefined) \/ v \in values
CollectionPredicate(op, items, chosen) ==
    CASE op = "?" -> chosen # {}
      [] op = "!" -> ~Nullish(items) /\ chosen = items
      [] op = "^" -> chosen = {}

RECURSIVE Transform(_, _)
Transform(e, c) ==
    LET Chosen(items) ==
            IF Nullish(items) THEN {}
            ELSE {item \in items : Transform(e.right, Inside(c, item)) = TRUE}
    IN CASE e.op = "literal" -> e.value
         [] e.op = "list" -> e.values
         [] e.op = "this" -> c.this
         [] e.op = "auth" -> c.user
         [] e.op = "ref" -> FieldOf(e.field, c)
         [] e.op = "member" /\ e.of.op = "future" -> Get(c.input, e.field)
         [] e.op = "member" /\ e.of.op # "future" -> MemberAccess(Transform(e.of, c), e.field, c)
         [] e.op = "not" -> Unary(e, Transform(e.of, c), c)
         [] e.op \in Comparisons \cup Logical ->
               Tolerant(e, Transform(e.left, c), Transform(e.right, c), c)
         [] e.op = "in" -> Includes(Transform(e.right, c), Transform(e.left, c), c)
         [] e.op \in Predicates ->
               LET items == Transform(e.left, c)
               IN CollectionPredicate(e.op, items, Chosen(items))

-----------------------------------------------------------------------------
(* Conditions of a query, with the values of the context in them: const    *)
(* (truth), value (of a field, compared with one that is known), fields    *)
(* (two of the same row), some, every, none, and not, && and ||.  `path'   *)
(* is the relation that leads to the row.                                  *)

RECURSIVE Path(_)
Path(e) ==
    IF e.op = "ref" \/ e.of.op \in {"this", "future"} THEN <<>>
    ELSE Append(Path(e.of), e.of.field)

Const(truth) == [cond |-> "const", truth |-> truth]
FieldCondition(e, is, with) ==
    [cond |-> "value", path |-> Path(e), name |-> e.field, is |-> is, with |-> with]
FieldReference(e, is, other) ==
    [cond |-> "fields", path |-> Path(e), name |-> e.field, is |-> is, other |-> other.field]

\* as it is called; it is used to swap the operands
NegateOperator(op) ==
    CASE op = ">" -> "<=" [] op = "<" -> ">=" [] op = ">=" -> "<" [] op = "<=" -> ">"
      [] OTHER -> op

\* A missing member of auth() differs from all that cannot be null, and compares
\* with nothing.
FieldComparison(access, is, operand, value, c) ==
    CASE IsAuth(operand) /\ ~Nullable(access) /\ value = Null -> Const(is = "!=")
      [] access.op = "this" /\ operand.op = "this" -> Const(is = "!=")
      [] operand.op = "ref" /\ ~c.after -> FieldReference(access, is, operand)
      [] Typed(access) /\ access.op # "this" ->
            FieldCondition(access, is, IF value = Null THEN Null ELSE value.id)
      [] OTHER -> FieldCondition(access, is, value)

WriteComparison(e, c) ==
    CASE FieldAccess(e.left, c.after) ->
            FieldComparison(e.left, e.op, e.right, Transform(e.right, c), c)
      [] ~FieldAccess(e.left, c.after) /\ FieldAccess(e.right, c.after) ->
            FieldComparison(e.right, NegateOperator(e.op), e.left, Transform(e.left, c), c)
      [] OTHER -> Const(Transform(e, c) = TRUE)

\* Faulty: also a predicate on what the collection was before the update.
CompiledAlways(e, after) == ~IsAuth(e.left)

CompiledToRelationQuery(e, after) == ~IsAuth(e.left) /\ (IsFuture(e.left) <=> after)

WriteIn(e, values, c) ==
    IF FieldAccess(e.left, c.after) THEN FieldCondition(e.left, "in", values)
    ELSE Const(Transform(e, c) = TRUE)
WriteLogical(op, left, right) == [cond |-> op, of |-> <<left, right>>]
WriteUnary(operand) == [cond |-> "not", of |-> <<operand>>]

\* What a predicate says of its items is never written as of after the update.
Innermost(c) == [c EXCEPT !.after = FALSE, !.inside = TRUE]

RECURSIVE Write(_, _)
Write(e, c) ==
    CASE e.op \in Logical -> WriteLogical(e.op, Write(e.left, c), Write(e.right, c))
      [] e.op = "not" -> WriteUnary(Write(e.of, c))
      [] e.op \in {"ref", "member"} /\ ~IsAuth(e) -> FieldCondition(e, "==", TRUE)
      [] e.op \in Comparisons -> WriteComparison(e, c)
      [] e.op = "in" -> WriteIn(e, Transform(e.right, c), c)
      [] e.op \in Predicates /\ CompiledToRelationQuery(e, c.after) ->
            [cond |-> e.op, of |-> <<Write(e.right, Innermost(c))>>]
      [] OTHER -> Const(Transform(e, c) = TRUE)

-----------------------------------------------------------------------------
(* What a query with such a condition answers, in three values: a comparison *)
(* with a field that is null is neither true nor false.  Relations are       *)
(* compared by id, and conditions on a relation hold or do not.              *)

No == 0
Unknown == 1
Yes == 2
Truth(p) == IF p THEN Yes ELSE No
Lesser(a, b) == IF a < b THEN a ELSE b
Greater(a, b) == IF a < b THEN b ELSE a

RECURSIVE Along(_, _)
Along(r, path) == IF path = <<>> THEN r ELSE Along(Get(r, Head(path)), Tail(path))

ValueTest(v, is, with) ==
    CASE with = Undefined -> Yes
      [] is = "==" /\ with = Null -> Truth(v = Null)
      [] is = "!=" /\ with = Null -> Truth(v # Null)
      [] with \notin {Null, Undefined} /\ v = Null -> Unknown
      [] is = "==" /\ v # Null -> Truth(v = with)
      [] is = "!=" /\ v # Null -> Truth(v # with)
      [] is = "in" /\ v # Null -> Truth(v \in with)
      [] OTHER -> Truth(Ordered(is, v, with))

RelationTest(related, is, id) ==
    Truth((is = "==") <=> (IF related = Null THEN id = Null ELSE related.id = id))

FieldTest(q, r) ==
    CASE Nullish(r) -> No
      [] ~Nullish(r) /\ q.cond = "fields" ->
            IF Null \in {r[q.name], r[q.other]} THEN Unknown
            ELSE ValueTest(r[q.name], q.is, r[q.other])
      [] ~Nullish(r) /\ q.cond = "value" /\ q.name = "owner" -> RelationTest(r.owner, q.is, q.with)
      [] OTHER -> ValueTest(r[q.name], q.is, q.with)

RECURSIVE Selects(_, _)
Selects(q, r) ==
    LET Part(i) == Selects(q.of[i], r)
        Some == \E t \in r.tags : Selects(q.of[1], t) = Yes
    IN CASE q.cond = "const" -> Truth(q.truth)
         [] q.cond \in {"value", "fields"} -> FieldTest(q, Along(r, q.path))
         [] q.cond = "not" -> Yes - Part(1)
         [] q.cond = "&&" -> Lesser(Part(1), Part(2))
         [] q.cond = "||" -> Greater(Part(1), Part(2))
         [] q.cond = "?" -> Truth(Some)
         [] q.cond = "^" -> Truth(~Some)
         [] q.cond = "!" -> Truth(\A t \in r.tags : Selects(q.of[1], t) # No)

\* an order comparison with null is an error of the query
RECURSIVE Refused(_)
Refused(q) ==
    IF q.cond = "value" THEN q.is \in Orders /\ q.with = Null
    ELSE q.cond \notin {"const", "fields"} /\ \E i \in DOMAIN q.of : Refused(q.of[i])

Admits(q, r) == ~Refused(q) /\ Selects(q, r) = Yes

-----------------------------------------------------------------------------
(* What is read of an item for its checker, and of the row before an update. *)
(* A path of relations and a field; the set is empty where there is none.    *)

RECURSIVE Visit(_, _)
Visit(e, ignoreFuture) ==
    CASE e.op = "this" -> {<<"$this">>}
      [] e.op = "future" -> {<<>>}
      [] e.op = "ref" -> {<<e.field>>}
      [] e.op = "member" /\ ~(e.of.op = "future" /\ ignoreFuture) ->
            {Append(p, e.field) : p \in Visit(e.of, ignoreFuture)}
      [] OTHER -> {}

RECURSIVE ReferencePaths(_, _)
ReferencePaths(e, ignoreFuture) ==
    LET Predicate(left, right) ==
            IF left = {} THEN {r \in right : \E i \in DOMAIN r : r[i] = "$this"}
            ELSE {p \o r : p \in left, r \in right}
    IN CASE e.op = "this" -> {<<"id">>}
         [] e.op \in {"ref", "member"} ->
               {IF Typed(e) THEN Append(p, "id") ELSE p : p \in Visit(e, ignoreFuture)}
         [] e.op \in Predicates ->
               Predicate(Visit(e.left, ignoreFuture), ReferencePaths(e.right, ignoreFuture))
         [] OTHER -> UNION {ReferencePaths(o, ignoreFuture) : o \in Operands(e)}

\* Faulty: a path through this is kept as it is.
AddWholePath(path) == path

\* drop everything before the last $this
AddPath(path) ==
    LET After(i) == SubSeq(path, i + 1, Len(path))
    IN CHOOSE p \in {After(i) : i \in 0 .. Len(path)} :
          /\ \A i \in DOMAIN p : p[i] # "$this"
          /\ Len(p) = Len(path) \/ path[Len(path) - Len(p)] = "$this"

SelectFor(e, ignoreFuture) == {AddPath(p) : p \in ReferencePaths(e, ignoreFuture)}

Read(r, select) ==
    LET Rest(f) == {p[2] : p \in {q \in select : q[1] = f /\ Len(q) = 2}}
        Picked(v, fields) == [f \in fields |-> v[f]]
        Part(f) ==
            CASE f = "tags" -> {Picked(t, Rest(f)) : t \in r.tags}
              [] f = "owner" /\ r.owner # Null -> Picked(r.owner, Rest(f))
              [] OTHER -> r[f]
    IN IF r = Null THEN Null ELSE [f \in {p[1] : p \in select} \cap DOMAIN r |-> Part(f)]

-----------------------------------------------------------------------------
(* The functions that are generated for a rule, and their calls. *)

Context(input, pre, this, after) ==
    [input |-> input, pre |-> pre, user |-> user, this |-> this, item |-> Null,
     inside |-> FALSE, after |-> after, nulls |-> TRUE, optional |-> FALSE]

PreValue(e) == Read(before, SelectFor(e, TRUE))

\* Rules that name no field are compiled to JavaScript.
HasFieldAccess(e) == \E op \in {"this", "future", "ref"} : Occurs(op, e)

QueryGuard(r, pre) ==
    LET c == Context(Undefined, pre, pre, r.after)
        q == IF HasFieldAccess(r.expr) THEN Write(r.expr, c)
             ELSE Const(Transform(r.expr, [c EXCEPT !.nulls = FALSE]) = TRUE)
    IN IF r.kind = "allow" THEN q ELSE [cond |-> "not", of |-> <<q>>]

EntityChecker(r, entity, pre) ==
    LET c == [Context(entity, pre, entity, r.after) EXCEPT !.nulls = FALSE]
    IN (Transform(r.expr, c) = TRUE) <=> (r.kind = "allow")

\* Rules that compare two models are left to the checker.
Check ==
    /\ verdict' = [guard |-> \/ CrossModel(rule.expr, "item")
                             \/ Admits(QueryGuard(rule, PreValue(rule.expr)), row),
                   checker |-> EntityChecker(rule, Read(row, SelectFor(rule.expr, ~rule.after)),
                                             PreValue(rule.expr))]
    /\ stage' = "done"
    /\ UNCHANGED <<rule, user, row, before>>

CheckBefore == stage = "start" /\ rule.kind # "validate" /\ ~rule.after /\ Check
CheckAfter == stage = "updated" /\ Check

Update ==
    /\ stage = "start" /\ rule.after
    /\ before' = row
    /\ row' \in Items
    /\ stage' = "updated"
    /\ UNCHANGED <<rule, user, verdict>>

\* A rule that is a field holds when the field is absent.
Refinement(e, input) ==
    LET v == Transform(e, [Context(input, Null, input, FALSE) EXCEPT !.optional = TRUE])
    IN IF e.op = "ref" /\ Nullish(v) THEN TRUE ELSE v = TRUE

ValidateInput ==
    /\ stage = "start" /\ rule.kind = "validate"
    /\ \E input \in Inputs :
          verdict' = [input |-> input, accepted |-> Refinement(rule.expr, input)]
    /\ stage' = "done"
    /\ UNCHANGED <<rule, user, row, before>>

Init ==
    /\ rule \in Rules
    /\ user \in IF rule.kind = "validate" THEN {Null} ELSE Users
    /\ row \in IF rule.kind = "validate" THEN {Null} ELSE Items
    /\ before = Null
    /\ stage = "start"
    /\ verdict = Null

Next == CheckBefore \/ Update \/ CheckAfter \/ ValidateInput
Spec == Init /\ [][Next]_vars

-----------------------------------------------------------------------------
(* What a rule says.  In a rule that is checked after the update, this and  *)
(* the fields are those of the row before.  Nothing is in an order with     *)
(* null, and what a null row has is null.                                   *)

Meant(op, a, b) ==
    CASE op = "==" -> a = b
      [] op = "!=" -> a # b
      [] OTHER -> Null \notin {a, b} /\ Ordered(op, a, b)

RECURSIVE Means(_, _)
Means(e, m) ==
    LET Of(v, f) == IF v = Null \/ f \notin DOMAIN v THEN Null ELSE v[f]
        Identity(o, v) == IF Typed(o) /\ v # Null THEN v.id ELSE v
        Collection(v) == IF v = Null THEN {} ELSE v
        InItem(t) == Means(e.right, [m EXCEPT !.here = t])
    IN CASE e.op = "literal" -> e.value
         [] e.op = "list" -> e.values
         [] e.op = "this" -> m.row
         [] e.op = "future" -> m.later
         [] e.op = "auth" -> m.user
         [] e.op = "ref" -> Of(m.here, e.field)
         [] e.op = "member" -> Of(Means(e.of, m), e.field)
         [] e.op = "not" -> ~Means(e.of, m)
         [] e.op = "&&" -> Means(e.left, m) /\ Means(e.right, m)
         [] e.op = "||" -> Means(e.left, m) \/ Means(e.right, m)
         [] e.op \in Comparisons ->
               Meant(e.op, Identity(e.left, Means(e.left, m)), Identity(e.right, Means(e.right, m)))
         [] e.op = "in" -> Means(e.left, m) \in Means(e.right, m)
         [] e.op = "?" -> \E t \in Collection(Means(e.left, m)) : InItem(t)
         [] e.op = "!" -> \A t \in Collection(Means(e.left, m)) : InItem(t)
         [] e.op = "^" -> \A t \in Collection(Means(e.left, m)) : ~InItem(t)

MeansOf(e, r, later) == Means(e, [row |-> r, here |-> r, later |-> later, user |-> user])
Holds == IF rule.after THEN MeansOf(rule.expr, before, row) ELSE MeansOf(rule.expr, row, row)
Permits == Holds <=> rule.kind = "allow"
Checked == stage = "done" /\ rule.kind # "validate"

-----------------------------------------------------------------------------
(* Forms for which the code says something else than the rule. *)

\* with the operands swapped, the order is negated instead of mirrored
MirroredOrder(p) ==
    p.op \in Orders /\ ~FieldAccess(p.left, rule.after) /\ FieldAccess(p.right, rule.after)

\* this == this is false in a query, and this.x within a collection is its item's x
ThisInQuery(p) ==
    \/ p.op \in {"==", "!="} /\ p.left.op = "this" /\ p.right.op = "this"
    \/ p.op \in Predicates /\ Occurs("this", p.right)

\* after an update, a field that is a condition by itself and what is compared with
\* this.x are read of the row as it is now
LaterValue(p) ==
    rule.after /\
        \/ p.op \in Logical /\ \E o \in Operands(p) : o.op = "ref"
        \/ p.op \in Comparisons /\ OfThis(p.left)

\* in JavaScript null is in order with numbers, as if it were 0
NullInOrder(p) == p.op \in Orders /\ \E o \in Operands(p) : Nullable(o)
NullInPlainOrder(p) ==
    NullInOrder(p) /\ \A o \in Operands(p) : ~FieldAccess(o, rule.after)

\* the condition on a relation holds of no field of a row that is not there
FieldOfNone(p) == p.op = "member" /\ p.of.op \in {"ref", "member"} /\ p.of.field = "owner"

\* a predicate that looks at no field of the collection selects nothing of it
UnreadCollection(p) ==
    p.op \in Predicates /\ ~IsAuth(p.left) /\
        ~\E path \in ReferencePaths(p.right, ~rule.after) : path[1] # "$this"

\* in an input that lacks the field, what is negated is true
UntoleratedAbsence(p) ==
    \/ p.op = "not" /\ p.of.op \in Comparisons \cup Logical
    \/ p.op = "!=" /\ NullComparison(p)

\* an absent flag makes the whole of a conjunction true, and an absent field each
\* part that it is in, also parts that no value of it would keep together
UndueTolerance(p) ==
    /\ p.op = "&&"
    /\ \/ \E o \in Operands(p) : o.op = "ref"
       \/ \E f \in Parts(p.left) \cap Parts(p.right) : f.op = "ref"

NoNulls ==
    /\ user # Null /\ {"x", "n"} \subseteq DOMAIN user
    /\ \A r \in {row, before} \ {Null} : r.n # Null /\ r.owner # Null /\ r.owner.n # Null

SaysOtherwise(p) ==
    \/ MirroredOrder(p) \/ ThisInQuery(p) \/ LaterValue(p)
    \/ ~NoNulls /\ (NullInPlainOrder(p) \/ FieldOfNone(p))

ReadsOtherwise(p) ==
    \/ UnreadCollection(p) \/ (rule.after /\ Occurs("this", p))
    \/ NullInOrder(p) /\ ~NoNulls

(* A row that the query of a rule lets pass is one the rule permits; and   *)
(* where no null is involved, the query lets all of them pass.             *)
GuardsMeanTheRule ==
    Checked /\ ~CrossModel(rule.expr, "item") /\ (\A p \in Parts(rule.expr) : ~SaysOtherwise(p)) =>
        /\ verdict.guard => Permits
        /\ NoNulls /\ Permits => verdict.guard

(* The checker of a rule, given only what is selected for it, says what    *)
(* the rule says of the whole row.                                         *)
CheckersMeanTheRule ==
    Checked /\ (\A p \in Parts(rule.expr) : ~ReadsOtherwise(p)) =>
        (verdict.checker <=> Permits)

(* A complete input is accepted when it keeps the rule; one that lacks     *)
(* fields, when some values of them would keep it, and refused when none   *)
(* would.                                                                  *)
AbsentFieldsAreTolerated ==
    stage = "done" /\ rule.kind = "validate" =>
        LET given == DOMAIN verdict.input
            Completions ==
                {input \in Inputs : /\ DOMAIN input = {"x", "n", "b"}
                                   /\ \A f \in given : input[f] = verdict.input[f]}
            Kept == \E input \in Completions : MeansOf(rule.expr, input, Null)
            NullOrder == \E p \in Parts(rule.expr) : NullInOrder(p)
            Excepted(Form(_)) == given # {"x", "n", "b"} /\ \E p \in Parts(rule.expr) : Form(p)
        IN \/ "n" \in given /\ verdict.input["n"] = Null /\ NullOrder
           \/ /\ verdict.accepted => Kept \/ Excepted(UndueTolerance)
              /\ Kept => verdict.accepted \/ Excepted(UntoleratedAbsence)
=============================================================================
