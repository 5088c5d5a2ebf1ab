--------------------------- MODULE PermissionCheck ---------------------------
(***************************************************************************)
(* Nested writes and check() under the same compiled policies: a client    *)
(* either makes a call or asks whether one may be allowed.  The answer is  *)
(* found without looking at the database and, says check's comment,        *)
(* `possibly allowed by the policy' is all a yes means; a no should be     *)
(* final.                                                                  *)
(***************************************************************************)
EXTENDS NestedWrite, PermissionChecker

CONSTANTS
    Unusable,       \* a filter value check() refuses: null, a fraction, ...
    Questions       \* what the client may ask about the children

ASSUME QuestionsAssumption ==
    /\ Vals \subseteq Numbers
    /\ Questions \subseteq
        [operation : {"create", "read", "update", "delete"},
         where : Vals \cup {None, Unusable}]

VARIABLES asked, answer
checkVars == <<asked, answer, vars>>

Val == [is |-> "field", name |-> "val"]
OwnerValue == [is |-> "other"]      \* a member of a relation
NumberOf(x) == [is |-> "number", value |-> x]
Is(op, left, right) == [op |-> op, left |-> left, right |-> right]
CheckOwner == [op |-> "check", relation |-> "owner", model |-> "parent", kind |-> "update"]

\* the expressions of the rules
Expression(r) ==
    CASE r.when = "true" -> [op |-> "literal", truth |-> TRUE]
      [] r.when = "user" ->
            Is("eq", [is |-> "auth", missing |-> TRUE, typed |-> TRUE, value |-> 1], NumberOf(1))
      [] r.when = "low" -> Is("eq", Val, NumberOf(0))
      [] r.when = "high" -> Is("gt", Val, NumberOf(0))
      [] r.when = "mine" -> Is("eq", OwnerValue, NumberOf(0))
      [] r.when = "notMine" ->
            [op |-> "not", left |-> Is("eq", OwnerValue, NumberOf(0))]
      [] r.when = "match" -> Is("eq", Val, OwnerValue)
      [] r.when = "kept" -> CheckOwner
      [] r.when = "lowKept" ->
            [op |-> "and", left |-> Is("eq", Val, NumberOf(0)), right |-> CheckOwner]
      [] OTHER -> [op |-> "other"]

Expressions(R) == LET q == SetToSeq(R) IN [i \in DOMAIN q |-> Expression(q[i])]

\* The checker generated for the rules of an operation.  An update without
\* allow rules is decided afterwards.
CheckerOf(kind, R) ==
    LET A == RulesFor(kind, Allows(R))
        D == RulesFor(kind, Denies(R))
    IN IF StaticNo(R) \/ StaticYes(R) THEN Constant(StaticYes(R))
       ELSE IF kind = "update" /\ A = {}
            THEN Constant(RulesFor("postUpdate", Allows(R)) # {})
       ELSE TransformRules(Expressions(A), Expressions(D))

Checkers ==
    [parent |-> [update |-> CheckerOf("update", ParentRules("update"))]]

\* doCheckPermission: a constant is the answer whatever the filter; otherwise
\* the filter is one more constraint.
CheckPermission(q) ==
    LET c == Resolved(CheckerOf(q.operation, Rules(q.operation)), q.operation, Checkers)
        filter == [kind |-> "eq", left |-> Variable("val", 0),
                   right |-> [kind |-> "number", value |-> q.where]]
    IN IF c.kind = "constant" THEN (IF c.truth THEN "yes" ELSE "no")
       ELSE IF q.where = Unusable THEN "error"
       ELSE CheckSat(IF q.where = None THEN c ELSE Combined("and", <<c, filter>>))

Check ==
    /\ pc = "idle"
    /\ asked' \in Questions
    /\ answer' = CheckPermission(asked')
    /\ pc' = "done"
    /\ UNCHANGED <<policy, db, view, call, todo, payload, checks, connected, outcome>>

CheckInit == Init /\ asked = None /\ answer = "none"
CheckNext == Check \/ (Next /\ UNCHANGED <<asked, answer>>)
CheckSpec == CheckInit /\ [][CheckNext]_checkVars

-----------------------------------------------------------------------------
(* Properties. *)

\* some row the question is about may undergo the operation
MayHappen(q) ==
    LET R == Rules(q.operation)
    IN \E s \in Starts, k \in Kids, v \in Vals :
        /\ Exists(k, s) /\ (q.where # None => s.child[k].val = q.where)
        /\ Decides(R, True(R, k, s, [s EXCEPT !.child[k].val = v]))

\* every rule has a translation, and none waits for the result of an update
Exact(q) ==
    \A r \in Rules(q.operation) : r.when \notin {"mine", "notMine", "match", "willBeLow"}

\* a delegation to a policy that is a constant, beside or within other rules
DelegatesToConstant(q) ==
    /\ Checkers.parent.update.kind = "constant"
    /\ \E r \in Rules(q.operation) : r.when \in {"kept", "lowKept"}

\* check() never says no to what some row would be allowed, says yes only for
\* what some row is allowed when it understands every rule, and fails only for
\* a filter it refuses or where a policy delegated to is a constant, which
\* check-utils and the solver do not expect inside a constraint.
ChecksTellThePossible ==
    [][asked' # asked =>
        /\ answer' = "no" => asked'.where = Unusable \/ ~MayHappen(asked')
        /\ answer' = "yes" /\ Exact(asked') => asked'.where = Unusable \/ MayHappen(asked')
        /\ answer' = "error" => asked'.where = Unusable \/ DelegatesToConstant(asked')]_checkVars
=============================================================================
