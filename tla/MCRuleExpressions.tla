-------------------------- MODULE MCRuleExpressions --------------------------
(* Rules of an item, over numbers 0 and 1, two owners and two tags. *)
EXTENDS RuleExpressions

Lit(v) == [op |-> "literal", value |-> v]
Of(e, f) == [op |-> "member", of |-> e, field |-> f]
Bin(l, op, r) == [op |-> op, left |-> l, right |-> r]
Not(e) == [op |-> "not", of |-> e]
Ref(f) == [op |-> "ref", field |-> f]
This == [op |-> "this"]
Auth == [op |-> "auth"]
Future == [op |-> "future"]
X == Ref("x")
N == Ref("n")
B == Ref("b")
Owner == Ref("owner")
Later(f) == Of(Future, f)

BeforeExpressions == {
    Bin(X, ">", Of(Auth, "x")),
    Bin(Of(Auth, "x"), "<", X),
    Bin(Owner, "==", Auth),
    Bin(Owner, "!=", Auth),
    Bin(Owner, "==", Lit(Null)),
    Bin(Of(Owner, "x"), "==", Of(Auth, "x")),
    Bin(Of(Owner, "x"), "!=", Of(Auth, "x")),
    Bin(Of(Owner, "n"), "==", Of(Auth, "n")),
    Bin(Of(Owner, "n"), "<=", Of(Auth, "n")),
    B,
    Not(B),
    Not(Bin(N, "==", Lit(1))),
    Bin(N, "!=", Lit(1)),
    Bin(N, "!=", Lit(Null)),
    Bin(X, "<=", N),
    Bin(N, "<", Lit(1)),
    Bin(N, "in", [op |-> "list", values |-> {1}]),
    Bin(Ref("tags"), "?", Bin(X, "==", Of(Auth, "x"))),
    Bin(Ref("tags"), "!", Bin(X, "==", Lit(1))),
    Bin(Ref("tags"), "^", Bin(X, ">", Lit(0))),
    Bin(Ref("tags"), "?", Bin(Of(Auth, "x"), "==", Lit(1))),
    Bin(Ref("tags"), "?", Bin(X, "==", Of(This, "x"))),
    Bin(Ref("tags"), "?", Bin(Of(This, "x"), "==", Lit(1))),
    Bin(Of(Auth, "tags"), "?", Bin(X, "==", Lit(1))),
    Bin(Of(Auth, "tags"), "?", Bin(X, "==", Of(This, "x"))),
    Bin(Of(Owner, "x"), "==", X),
    Bin(N, "==", Of(Owner, "n")),
    Bin(N, ">=", Of(Owner, "x")),
    Bin(Of(Auth, "n"), "<=", Lit(0)),
    Bin(Auth, "!=", Lit(Null)),
    Bin(Of(This, "x"), "==", Lit(1)),
    Bin(This, "==", This),
    Bin(B, "&&", Bin(Owner, "==", Auth)),
    Bin(Bin(X, "==", Lit(0)), "||", Bin(N, "==", Lit(1)))}

AfterExpressions == {
    Bin(Later("x"), ">", X),
    Bin(X, "<", Later("x")),
    Bin(Later("x"), "==", Of(This, "x")),
    Bin(Later("owner"), "==", Auth),
    Bin(Bin(Owner, "==", Auth), "&&", Bin(Later("x"), "==", Lit(1))),
    Bin(Bin(Of(Owner, "x"), "==", Of(Auth, "x")), "||", Bin(Later("n"), "!=", N)),
    Bin(Later("tags"), "?", Bin(X, "==", Of(Auth, "x"))),
    Bin(Bin(Ref("tags"), "?", Bin(X, "==", Lit(1))), "||", Bin(Later("x"), "==", Lit(0))),
    Bin(Bin(Of(This, "x"), "==", Lit(1)), "&&", Bin(Later("x"), "==", Lit(0))),
    Bin(B, "&&", Bin(Later("x"), "==", Lit(0))),
    Bin(Bin(N, "<", Lit(1)), "&&", Bin(Later("x"), "==", Lit(0))),
    Bin(Of(Later("owner"), "x"), "==", X)}

Validations == {
    B, Not(B),
    Bin(X, ">", Lit(0)), Bin(X, "<=", N), Bin(N, "==", Lit(Null)), Bin(N, "!=", Lit(Null)),
    Not(Bin(X, "==", Lit(1))), Bin(N, "in", [op |-> "list", values |-> {1}]),
    Bin(B, "&&", Bin(X, ">", Lit(0))), Bin(B, "||", Bin(X, ">", Lit(0))),
    Not(Bin(B, "&&", Bin(X, ">", Lit(0)))),
    Bin(Bin(X, ">", Lit(0)), "&&", Bin(X, "<=", N)), Bin(Bin(X, "<", N), "&&", B),
    Bin(Bin(X, "==", Lit(0)), "||", Bin(N, "==", Lit(1)))}

MCRules ==
    [kind : {"allow", "deny"}, after : {FALSE}, expr : BeforeExpressions]
    \cup [kind : {"allow", "deny"}, after : {TRUE}, expr : AfterExpressions]
    \cup [kind : {"validate"}, after : {FALSE}, expr : Validations]

Tag(i) == [id |-> i, x |-> i]
MCUsers == {
    Null,
    [id |-> 1, x |-> 0, n |-> 1, tags |-> {Tag(0)}],
    [id |-> 2, x |-> 1, n |-> 0, tags |-> {Tag(0), Tag(1)}],
    [id |-> 2]}
Owners == {Null, [id |-> 1, x |-> 0, n |-> Null], [id |-> 2, x |-> 1, n |-> 1]}
MCItems ==
    {[id |-> 0, x |-> x, n |-> n, b |-> x = 0, owner |-> o, tags |-> t] :
        x \in 0 .. 1, n \in {Null, 1}, o \in Owners, t \in {{}, {Tag(0), Tag(1)}}}

MCInputs ==
    {[f \in fields |-> r[f]] : fields \in SUBSET {"x", "n", "b"},
        r \in [x : 0 .. 1, n : {Null, 0, 1}, b : BOOLEAN]}
=============================================================================
