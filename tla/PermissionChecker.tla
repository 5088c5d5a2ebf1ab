-------------------------- MODULE PermissionChecker --------------------------
(***************************************************************************)
(* The permission checker: check() asks whether an operation may be        *)
(* allowed at all, without looking at a row.  The generator turns the      *)
(* allow and deny rules of an operation into a constraint over the fields  *)
(* of a row (constraint-transformer.ts), and the run time asks a solver    *)
(* whether it can be satisfied (constraint-solver.ts).  What a constraint  *)
(* cannot express becomes a variable of its own, free to be true or false. *)
(*                                                                         *)
(* Expressions of rules are records with an operator `op':                 *)
(*   literal (truth), field (name), auth (missing, truth), and, or, not,   *)
(*   the comparisons, check (relation, model, kind), and other for what    *)
(*   has no translation.                                                   *)
(* Operands of comparisons are records with a tag `is':                    *)
(*   number (value), odd for a negative number or a fraction, field        *)
(*   (name), auth (missing, typed, value), and other.  A user compared     *)
(*   with a relation is its id compared with the foreign key.              *)
(***************************************************************************)
EXTENDS Integers, Sequences, SequencesExt

CONSTANT Numbers    \* what a number may be; the solver's have 32 bits

Comparisons == {"eq", "ne", "gt", "gte", "lt", "lte"}

-----------------------------------------------------------------------------
(* Constraints.  The transformation counts the free variables it makes: n  *)
(* is the number of the next one.                                          *)

Known(truth) == [kind |-> "value", truth |-> truth]
Variable(name, n) == [kind |-> "variable", path |-> <<>>, name |-> name, nr |-> n]
Undefined == [kind |-> "undefined"]
Combined(kind, cs) == IF Len(cs) = 1 THEN cs[1] ELSE [kind |-> kind, children |-> cs]
Not(c) == [kind |-> "not", children |-> <<c>>]

Term(c, n) == [c |-> c, n |-> n]
NextVar(n) == Term(Variable("__var", n), n + 1)

Operand(x, n) ==
    CASE x.is = "number" -> Term([kind |-> "number", value |-> x.value], n)
      [] x.is = "odd" -> NextVar(n)
      [] x.is = "field" -> Term(Variable(x.name, 0), n)
      [] x.is = "auth" /\ x.typed -> Term([kind |-> "number", value |-> x.value], n)
      [] OTHER -> Term(Undefined, n)

\* Faulty: what cannot be compared is taken to be false.
CompareOrFail(e, n) ==
    LET l == Operand(e.left, n)
        r == Operand(e.right, l.n)
    IN IF Undefined \in {l.c, r.c} THEN Term(Known(FALSE), r.n)
       ELSE Term([kind |-> e.op, left |-> l.c, right |-> r.c], r.n)

\* A comparison with a member of auth() is false when the member is missing,
\* and is made without a look at whether the member itself has a translation.
TransformComparison(e, n) ==
    LET l == Operand(e.left, n)
        r == Operand(e.right, l.n)
        result == [kind |-> e.op, left |-> l.c, right |-> r.c]
        Guarded(auth) == Combined("and", <<Known(~auth.missing), result>>)
    IN IF e.left.is = "auth" /\ r.c # Undefined THEN Term(Guarded(e.left), r.n)
       ELSE IF e.right.is = "auth" /\ l.c # Undefined THEN Term(Guarded(e.right), r.n)
       ELSE IF Undefined \in {l.c, r.c} THEN NextVar(r.n)
       ELSE Term(result, r.n)

RECURSIVE TransformExpression(_, _)
TransformExpression(e, n) ==
    CASE e.op = "literal" -> Term(Known(e.truth), n)
      [] e.op = "field" -> Term(Variable(e.name, 0), n)
      [] e.op = "auth" -> Term(Known(~e.missing /\ e.truth), n)
      [] e.op \in {"and", "or"} ->
            LET l == TransformExpression(e.left, n)
                r == TransformExpression(e.right, l.n)
            IN Term(Combined(e.op, <<l.c, r.c>>), r.n)
      [] e.op = "not" ->
            LET t == TransformExpression(e.left, n) IN Term(Not(t.c), t.n)
      [] e.op = "check" ->
            Term([kind |-> "delegate", relation |-> e.relation,
                  model |-> e.model, operation |-> e.kind], n)
      [] e.op \in Comparisons -> TransformComparison(e, n)
      [] OTHER -> NextVar(n)

TransformAll(es, n) ==
    FoldLeft(LAMBDA t, e : LET s == TransformExpression(e, t.n)
                           IN Term(Append(t.c, s.c), s.n),
             Term(<<>>, n), es)

TransformRules(allows, denies) ==
    LET a == TransformAll(allows, 0)
        d == TransformAll(denies, a.n)
    IN IF allows = <<>> THEN Known(FALSE)
       ELSE Combined("and", <<Combined("or", a.c)>> \o [i \in DOMAIN d.c |-> Not(d.c[i])])

-----------------------------------------------------------------------------
(* At run time the checkers of other models take the place of delegations, *)
(* their variables prefixed with the relation.  Checkers[model][operation] *)
(* is a constraint, or [kind |-> "constant"] for a policy known to the     *)
(* generator: that is a bare Boolean, not a constraint.                    *)

Constant(truth) == [kind |-> "constant", truth |-> truth]

RECURSIVE Prefixed(_, _)
Prefixed(c, relation) ==
    CASE c.kind = "variable" -> [c EXCEPT !.path = <<relation>> \o @]
      [] c.kind \in {"and", "or", "not"} ->
            [c EXCEPT !.children = [i \in DOMAIN @ |-> Prefixed(@[i], relation)]]
      [] c.kind \in Comparisons ->
            [c EXCEPT !.left = Prefixed(@, relation), !.right = Prefixed(@, relation)]
      [] OTHER -> c

RECURSIVE Resolved(_, _, _)
Resolved(c, operation, Checkers) ==
    CASE c.kind = "delegate" ->
            LET o == IF c.operation = "same" THEN operation ELSE c.operation
            IN Prefixed(Resolved(Checkers[c.model][o], o, Checkers), c.relation)
      [] c.kind \in {"and", "or", "not"} ->
            [c EXCEPT !.children = [i \in DOMAIN @ |-> Resolved(@[i], operation, Checkers)]]
      [] OTHER -> c

-----------------------------------------------------------------------------
(* The solver. *)

IsKnown(c, truth) == c.kind = "value" /\ c.truth = truth

\* It fails at a bare Boolean or an operand left out, unless a constant beside
\* it decides before it is looked at.
RECURSIVE Buildable(_)
Buildable(c) ==
    CASE c.kind \in {"and", "or", "not"} ->
            \/ c.kind # "not" /\ \E i \in DOMAIN c.children : IsKnown(c.children[i], c.kind = "or")
            \/ \A i \in DOMAIN c.children : Buildable(c.children[i])
      [] c.kind \in Comparisons -> Undefined \notin {c.left, c.right}
      [] OTHER -> c.kind # "constant"

RECURSIVE Flags(_)
Flags(c) ==
    CASE c.kind \in {"and", "or", "not"} ->
            UNION {Flags(c.children[i]) : i \in DOMAIN c.children}
      [] c.kind = "variable" -> {c}
      [] OTHER -> {}

RECURSIVE NumberVariables(_)
NumberVariables(c) ==
    CASE c.kind \in {"and", "or", "not"} ->
            UNION {NumberVariables(c.children[i]) : i \in DOMAIN c.children}
      [] c.kind \in Comparisons -> {o \in {c.left, c.right} : o.kind = "variable"}
      [] OTHER -> {}

Compared(kind, x, y) ==
    CASE kind = "eq" -> x = y
      [] kind = "ne" -> x # y
      [] kind = "gt" -> x > y
      [] kind = "gte" -> x >= y
      [] kind = "lt" -> x < y
      [] kind = "lte" -> x <= y

\* s gives every variable a value
Value(o, s) == IF o.kind = "variable" THEN s.number[o] ELSE o.value

RECURSIVE Satisfies(_, _)
Satisfies(s, c) ==
    CASE c.kind \in {"value", "constant"} -> c.truth
      [] c.kind = "variable" -> s.flag[c]
      [] c.kind = "and" -> \A i \in DOMAIN c.children : Satisfies(s, c.children[i])
      [] c.kind = "or" -> \E i \in DOMAIN c.children : Satisfies(s, c.children[i])
      [] c.kind = "not" -> ~Satisfies(s, c.children[1])
      [] c.kind \in Comparisons -> Compared(c.kind, Value(c.left, s), Value(c.right, s))

Solutions(c) ==
    {s \in [flag : [Flags(c) -> BOOLEAN], number : [NumberVariables(c) -> Numbers]] :
        Satisfies(s, c)}

CheckSat(c) ==
    IF ~Buildable(c) THEN "error" ELSE IF Solutions(c) # {} THEN "yes" ELSE "no"
=============================================================================
