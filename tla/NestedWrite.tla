----------------------------- MODULE NestedWrite -----------------------------
(***************************************************************************)
(* Nested writes under the policy enhancement (handler.ts, doUpdate and    *)
(* doCreate driven by nested-write-visitor.ts): parents with a to-many     *)
(* relation to children, who own the foreign key.  One call at a time, in  *)
(* its transaction, one action per callback of the visitor.                *)
(*                                                                         *)
(* The callback of a nested write either leaves it in the payload of the   *)
(* statement that ends the call, or runs it at once and removes it from    *)
(* the payload.  Checks of rows are made on the state the callback finds,  *)
(* and recorded for the end of the call.  The policy is a set of rules per *)
(* model and operation, compiled as PolicyCompile says.                    *)
(***************************************************************************)
EXTENDS PolicyCompile, Integers, Sequences, SequencesExt

CONSTANTS
    Parents, Kids,      \* rows of the two models
    Policies,           \* the policies of a schema, see PolicyType
    Starts,             \* databases a call may find
    Calls,              \* calls of the enhanced client
    None                \* no row, no owner, no value

Vals == {0, 1}
Row == [owner : Parents \cup {None}, val : Vals]
Database == [parent : [Parents -> Vals \cup {None}], child : [Kids -> Row \cup {None}]]

\* What a rule of the children or the parents may ask: of the row, of its
\* owner, of the row after the update, or of both rows at once; that the
\* owner's policy allows its update ("kept"); or of the user only ("user",
\* who never qualifies).
Conditions ==
    {"true", "user", "low", "high", "mine", "notMine", "kept", "lowKept", "willBeLow", "match"}
RuleRecord == [deny : BOOLEAN, literal : BOOLEAN, fields : BOOLEAN, future : BOOLEAN,
               cross : BOOLEAN, onInput : BOOLEAN, when : Conditions]

\* The compiler sees of a condition what is in it.
Rule == {r \in RuleRecord : /\ r.literal <=> r.when = "true"
                            /\ r.fields <=> r.when \notin {"true", "user"}
                            /\ r.future <=> r.when = "willBeLow"}
PolicyType ==
    [child : [create : SUBSET Rule, read : SUBSET Rule, update : SUBSET Rule,
              delete : SUBSET Rule],
     parent : [create : SUBSET Rule, read : SUBSET Rule, update : SUBSET Rule],
     field : [read : SUBSET Rule, override : SUBSET Rule]]      \* of a child's val

UpdateOps == {"create", "createMany", "update", "updateMany", "upsert", "connect",
              "connectOrCreate", "disconnect", "set", "delete", "deleteMany"}
CreateOps == {"create", "createMany", "connect", "connectOrCreate"}
Op == [kind : UpdateOps, child : Kids, val : Vals]

ASSUME NestedWriteAssumption ==
    /\ None \notin Vals \cup Parents \cup Row \cup Database
    /\ Policies \subseteq PolicyType
    /\ \A p \in Policies : HasFuture(p.child.update) =>
        \A r \in p.child.update : r.when \notin {"notMine", "kept", "lowKept"}
    /\ Starts \subseteq Database
    /\ \A c \in Calls :
        /\ c.op \in {"create", "update"} /\ c.parent \in Parents
        /\ c.val \in Vals \cup {None} /\ c.ops \in Seq(Op)
        /\ c.op = "create" =>
            c.val # None /\ \A i \in DOMAIN c.ops : c.ops[i].kind \in CreateOps

VARIABLES
    policy,     \* the schema's policy
    db,         \* the committed rows
    view,       \* the rows the transaction of the call sees
    pc,         \* idle, top, visit, write, check or done
    call,
    todo,       \* nested writes the visitor has not come to
    payload,    \* nested writes left to the statement that ends the call
    checks,     \* post-write checks
    connected,  \* children connected by connectOrCreate in a create
    outcome     \* of the call: none, done, refused or failed

vars == <<policy, db, view, pc, call, todo, payload, checks, connected, outcome>>

-----------------------------------------------------------------------------
(* Rules on rows.  pre is the state a rule of an update compares now with; *)
(* nothing is true of a row that was not there.                            *)

OwnerVal(s, k) ==
    IF s.child[k].owner = None THEN None ELSE s.parent[s.child[k].owner]

\* a postUpdate policy is compiled from the rules of update
Rules(kind) == policy.child[IF kind = "postUpdate" THEN "update" ELSE kind]
ParentRules(kind) == policy.parent[IF kind = "postUpdate" THEN "update" ELSE kind]

ParentHolds(r, val) == r.when = "true" \/ (r.when = "low" /\ val = 0)
ParentTrue(R, val) == {r \in R : ParentHolds(r, val)}
ParentAllowed(kind, p, s) ==
    Passes(kind, ParentRules(kind), ParentTrue(ParentRules(kind), s.parent[p]))

Kept(k, s) == s.child[k].owner # None /\ ParentAllowed("update", s.child[k].owner, s)

Holds(r, k, pre, now) ==
    \/ r.when = "true"
    \/ r.when = "willBeLow" /\ now.child[k].val = 0
    \/ /\ pre.child[k] # None
       /\ \/ r.when = "low" /\ pre.child[k].val = 0
          \/ r.when = "high" /\ pre.child[k].val > 0
          \/ r.when = "mine" /\ OwnerVal(pre, k) = 0
          \/ r.when = "notMine" /\ OwnerVal(pre, k) # 0
          \/ r.when = "match" /\ pre.child[k].val = OwnerVal(pre, k)
          \/ r.when = "kept" /\ Kept(k, pre)
          \/ r.when = "lowKept" /\ pre.child[k].val = 0 /\ Kept(k, pre)

True(R, k, pre, now) == {r \in R : Holds(r, k, pre, now)}

Unconditional(R) == {r \in R : r.when = "true"}
Always(kind, R) == SameForEveryRow(kind, R) /\ Guard(kind, R, Unconditional(R))
Never(kind, R) == SameForEveryRow(kind, R) /\ ~Guard(kind, R, Unconditional(R))

\* the guard alone, as the filter of a statement on many rows
Admits(kind, k, s) == Guard(kind, Rules(kind), True(Rules(kind), k, s, s))

\* checkPolicyForUnique: no query is made when nothing restricts the operation
Allowed(kind, k, pre, now) ==
    LET R == Rules(kind)
    IN \/ Always(kind, R) /\ ~HasChecker(kind, R)
       \/ now.child[k] # None /\ Passes(kind, R, True(R, k, pre, now))

\* What the rules read of the row before the update (preUpdateSelector) is
\* part of the filter a nested updateMany looks its rows up with afterwards;
\* delegating and negated rules stay clear of it (NestedWriteAssumption).
SameBefore(k, pre, now) ==
    \A r \in RulesFor("postUpdate", Allows(Rules("update")))
              \cup RulesFor("postUpdate", Denies(Rules("update"))) :
        /\ r.when \in {"low", "high", "match"} => now.child[k].val = pre.child[k].val
        /\ r.when \in {"mine", "match"} => OwnerVal(now, k) = OwnerVal(pre, k)

-----------------------------------------------------------------------------
(* What the database does with nested writes. *)

Under(p, k, s) == s.child[k] # None /\ s.child[k].owner = p
Exists(k, s) == s.child[k] # None

Made(p, op) == [owner |-> p, val |-> op.val]
Create(p, op, s) == [s EXCEPT !.child[op.child] = Made(p, op)]
Write(op, s) == [s EXCEPT !.child[op.child].val = op.val]
Move(k, p, s) == [s EXCEPT !.child[k].owner = p]

\* rows under p that the filter of an updateMany or deleteMany selects
Selected(p, op, s) ==
    {k \in Kids : Under(p, k, s) /\ (op.kind = "updateMany" => s.child[k].val # op.val)
                                 /\ (op.kind = "deleteMany" => s.child[k].val = op.val)}

RuleOf(op) == IF op.kind = "deleteMany" THEN "delete" ELSE "update"

\* what the guard of a write on many admits in a statement of its own
ByGuard(op, s) ==
    {k \in Kids : Exists(k, s) /\ Admits(RuleOf(op), k, s)}

WriteMany(op, K, s) ==
    [s EXCEPT !.child = [k \in Kids |->
        IF k \notin K THEN s.child[k]
        ELSE IF op.kind = "deleteMany" THEN None
        ELSE [s.child[k] EXCEPT !.val = op.val]]]

\* The effect of one nested write of p, admitting the rows in K of a write on
\* many, and whether it can be carried out.
Possible(p, op, s) ==
    /\ op.kind = "create" => ~Exists(op.child, s)
    /\ op.kind = "upsert" => Under(p, op.child, s) \/ ~Exists(op.child, s)
    /\ op.kind \in {"update", "delete"} => Under(p, op.child, s)
    /\ op.kind \in {"connect", "set"} => Exists(op.child, s)

Effect(p, op, K, s) ==
    LET k == op.child
        there == Exists(k, s)
    IN CASE op.kind = "create" -> Create(p, op, s)
         [] op.kind = "createMany" -> IF there THEN s ELSE Create(p, op, s)
         [] op.kind = "update" -> Write(op, s)
         [] op.kind = "upsert" -> IF there THEN Write(op, s) ELSE Create(p, op, s)
         [] op.kind = "connect" -> Move(k, p, s)
         [] op.kind = "connectOrCreate" -> IF there THEN Move(k, p, s) ELSE Create(p, op, s)
         [] op.kind = "disconnect" -> IF Under(p, k, s) THEN Move(k, None, s) ELSE s
         [] op.kind = "set" ->
              [s EXCEPT !.child = [c \in Kids |->
                  IF c = k THEN [s.child[c] EXCEPT !.owner = p]
                  ELSE IF Under(p, c, s) THEN [s.child[c] EXCEPT !.owner = None]
                  ELSE s.child[c]]]
         [] op.kind = "delete" -> [s EXCEPT !.child[k] = None]
         [] op.kind \in {"updateMany", "deleteMany"} ->
              WriteMany(op, Selected(p, op, s) \cap K, s)

-----------------------------------------------------------------------------
(* Steps of a call. *)

Ends(how) ==
    /\ pc' = "done" /\ outcome' = how
    /\ UNCHANGED <<policy, db, view, call, todo, payload, checks, connected>>

Start ==
    /\ pc = "idle"
    /\ call' \in Calls
    /\ pc' = "top" /\ todo' = call'.ops
    /\ UNCHANGED <<policy, db, view, payload, checks, connected, outcome>>

ParentCheck(p, kind) ==
    [model |-> "parent", row |-> p, kind |-> kind, exact |-> FALSE, pre |-> view]
ChildCheck(k, kind) ==
    [model |-> "child", row |-> k, kind |-> kind, exact |-> FALSE, pre |-> view]

\* The top of an update: the row exists and, when its own data is written, may
\* be updated.
UpdateTop ==
    /\ pc = "top" /\ call.op = "update"
    /\ LET p == call.parent
           mayWrite == ~Never("update", ParentRules("update"))
                       /\ ParentAllowed("update", p, view)
       IN IF view.parent[p] = None THEN Ends("failed")
          ELSE IF call.val # None /\ ~mayWrite THEN Ends("refused")
          ELSE /\ pc' = "visit"
               /\ checks' = IF call.val = None THEN {} ELSE {ParentCheck(p, "postUpdate")}
               /\ UNCHANGED <<policy, db, view, call, todo, payload, connected, outcome>>

\* The top of a create: static policies first.  Data that has been checked,
\* without nested writes, is created without another check.
CreateTop ==
    /\ pc = "top" /\ call.op = "create"
    /\ LET R == ParentRules("create")
           T == ParentTrue(R, call.val)
           known == CanCheckCreateBasedOnInput(R)
       IN IF Never("create", R) \/ (known /\ ~InputChecker(R, T)) THEN Ends("refused")
          ELSE /\ pc' = "visit"
               /\ checks' = IF known /\ call.ops = <<>> THEN {}
                            ELSE {ParentCheck(call.parent, "create")}
               /\ UNCHANGED <<policy, db, view, call, todo, payload, connected, outcome>>

\* the visitor is at a nested write of this kind, in a call of this operation
At(operation, kind) == call.op = operation /\ Head(todo).kind = kind

\* the write stays in the payload, after further checks are recorded
Leaves(op, more) ==
    /\ todo' = Tail(todo) /\ payload' = Append(payload, op)
    /\ checks' = checks \cup more
    /\ UNCHANGED <<policy, db, view, pc, call, connected, outcome>>

\* of the writes of its kind the payload keeps this one only
Overwrites(op) ==
    LET places == {i \in DOMAIN payload : payload[i].kind = op.kind}
    IN /\ todo' = Tail(todo)
       /\ payload' = IF places = {} THEN Append(payload, op)
                     ELSE [i \in DOMAIN payload |-> IF i \in places THEN op ELSE payload[i]]
       /\ UNCHANGED <<policy, db, view, pc, call, checks, connected, outcome>>

\* it has been carried out, or needs nothing, and leaves the payload
Removes(s, more) ==
    /\ todo' = Tail(todo) /\ view' = s
    /\ checks' = checks \cup more
    /\ UNCHANGED <<policy, db, pc, call, payload, connected, outcome>>

\* _create: the subtree of a new child is created at once
Creates(op) ==
    IF Exists(op.child, view) THEN Ends("failed")
    ELSE Removes(Create(call.parent, op, view), {ChildCheck(op.child, "create")})

\* Faulty: nothing is checked again afterwards.
LeavesUnrecorded(op) ==
    IF ~Allowed("update", op.child, view, view) THEN Ends("refused")
    ELSE Leaves(op, {})

\* the child is or may be written by what stays in the payload
LeavesUpdate(op) ==
    IF ~Allowed("update", op.child, view, view) THEN Ends("refused")
    ELSE Leaves(op, {ChildCheck(op.child, "postUpdate")})

VisitCreate == At("update", "create") /\ Creates(Head(todo))

\* skipDuplicates
VisitCreateMany ==
    /\ At("update", "createMany")
    /\ IF Exists(Head(todo).child, view) THEN Removes(view, {}) ELSE Creates(Head(todo))

\* Its static check asks for the model of the call, not of the nested write.
VisitUpdate ==
    /\ At("update", "update")
    /\ IF ~Under(call.parent, Head(todo).child, view) THEN Ends("failed")
       ELSE IF Never("update", ParentRules("update")) THEN Ends("refused")
       ELSE LeavesUpdate(Head(todo))

\* Faulty: what was run as a create stays in the payload.
UpsertStays ==
    /\ At("update", "upsert")
    /\ LET op == Head(todo)
       IN IF Under(call.parent, op.child, view) THEN LeavesUpdate([op EXCEPT !.kind = "update"])
          ELSE IF Exists(op.child, view) THEN Ends("failed")
          ELSE /\ todo' = Tail(todo) /\ view' = Create(call.parent, op, view)
               /\ payload' = Append(payload, op)
               /\ checks' = checks \cup {ChildCheck(op.child, "create")}
               /\ UNCHANGED <<policy, db, pc, call, connected, outcome>>

VisitUpsert ==
    /\ At("update", "upsert")
    /\ IF Under(call.parent, Head(todo).child, view)
       THEN LeavesUpdate([Head(todo) EXCEPT !.kind = "update"])
       ELSE Creates(Head(todo))

VisitConnect == At("update", "connect") /\ LeavesUpdate(Head(todo))

VisitConnectOrCreate ==
    /\ At("update", "connectOrCreate")
    /\ IF Exists(Head(todo).child, view) THEN LeavesUpdate(Head(todo))
       ELSE Creates(Head(todo))

\* A child that is not connected is left to the database.
VisitDisconnect ==
    /\ At("update", "disconnect")
    /\ IF Under(call.parent, Head(todo).child, view) THEN LeavesUpdate(Head(todo))
       ELSE Leaves(Head(todo), {})

\* Called for every child of the new set, so that the ones it replaces are
\* never looked at.
VisitSet == At("update", "set") /\ LeavesUpdate(Head(todo))

VisitDelete ==
    /\ At("update", "delete")
    /\ IF ~Under(call.parent, Head(todo).child, view) THEN Ends("failed")
       ELSE IF ~Allowed("delete", Head(todo).child, view, view) THEN Ends("refused")
       ELSE Leaves(Head(todo), {})

\* A write on many children: a guard that is a constant goes into the payload,
\* any other filters a statement that runs at once.  Cross-model rules are in
\* neither.
VisitUpdateMany ==
    /\ At("update", "updateMany")
    /\ LET op == Head(todo)
           readable == {k \in Selected(call.parent, op, view) : Admits("read", k, view)}
           more == {[ChildCheck(k, "postUpdate") EXCEPT !.exact = TRUE] :
                        k \in readable}
           chosen == Selected(call.parent, op, view) \cap ByGuard(op, view)
       IN IF SameForEveryRow("update", Rules("update")) THEN Leaves(op, more)
          ELSE Removes(WriteMany(op, chosen, view), more)

\* The guard that is a constant is put into one item, which then stands for all.
VisitDeleteMany ==
    /\ At("update", "deleteMany")
    /\ LET op == Head(todo)
           chosen == Selected(call.parent, op, view) \cap ByGuard(op, view)
       IN IF SameForEveryRow("delete", Rules("delete")) THEN Overwrites(op)
          ELSE Removes(WriteMany(op, chosen, view), {})

\* In a create everything stays in the payload; connectOrCreate is resolved.
VisitNewChild ==
    /\ \E kind \in {"create", "createMany"} : At("create", kind)
    /\ Leaves(Head(todo), {})

VisitNewConnect ==
    /\ At("create", "connect")
    /\ IF ~Exists(Head(todo).child, view) THEN Ends("failed")
       ELSE IF ~Allowed("update", Head(todo).child, view, view) THEN Ends("refused")
       ELSE Leaves(Head(todo), {})

VisitNewConnectOrCreate ==
    /\ At("create", "connectOrCreate")
    /\ LET op == Head(todo)
           there == Exists(op.child, view)
       IN IF there /\ ~Allowed("update", op.child, view, view) THEN Ends("refused")
          ELSE /\ todo' = Tail(todo)
               /\ payload' = Append(payload,
                        [op EXCEPT !.kind = IF there THEN "connect" ELSE "create"])
               /\ connected' = IF there THEN connected \cup {op.child} ELSE connected
               /\ UNCHANGED <<policy, db, view, pc, call, checks, outcome>>

Orders(q) ==
    {[i \in DOMAIN q |-> q[f[i]]] : f \in {g \in [DOMAIN q -> DOMAIN q] : IsInjective(g)}}

\* what a constant guard in the payload admits
ByConstant(op, s) == IF Always(RuleOf(op), Rules(RuleOf(op))) THEN Kids ELSE {}

\* The state after the nested writes in q, or None when one cannot be carried
\* out: those of one statement, or each by a statement of its own.
Carried(p, q, apart, s) ==
    LET after[n \in 0 .. Len(q)] ==
            IF n = 0 THEN s
            ELSE LET t == after[n - 1]
                     admitted == IF apart THEN ByGuard(q[n], t) ELSE ByConstant(q[n], t)
                 IN IF t = None \/ ~Possible(p, q[n], t) THEN None
                    ELSE Effect(p, q[n], admitted, t)
    IN  after[Len(q)]

\* The statement that ends the call: the call's own row and the payload, which
\* the database works through in an order of its own.
WriteUpdate ==
    /\ pc = "visit" /\ call.op = "update" /\ todo = <<>>
    /\ \E q \in Orders(payload) :
        LET s == Carried(call.parent, q, FALSE, view)
        IN IF s = None THEN Ends("failed")
           ELSE /\ view' = IF call.val = None THEN s
                           ELSE [s EXCEPT !.parent[call.parent] = call.val]
                /\ pc' = "check"
                /\ UNCHANGED <<policy, db, call, todo, payload, checks, connected, outcome>>

\* When children were created their parent returns all of its children, and
\* those not known to be connected count as created.
WriteCreate ==
    /\ pc = "visit" /\ call.op = "create" /\ todo = <<>>
    /\ LET p == call.parent
       IN IF view.parent[p] # None THEN Ends("failed")
          ELSE \E q \in Orders(payload) :
            LET s == Carried(p, q, FALSE, [view EXCEPT !.parent[p] = call.val])
                returned == IF \E i \in DOMAIN payload :
                                    payload[i].kind \in {"create", "createMany"}
                            THEN {k \in Kids : s # None /\ Under(p, k, s)} \ connected
                            ELSE {}
            IN IF s = None THEN Ends("failed")
               ELSE /\ view' = s /\ pc' = "check"
                    /\ checks' = checks \cup {ChildCheck(k, "create") : k \in returned}
                    /\ UNCHANGED <<policy, db, call, todo, payload, connected, outcome>>

CheckHolds(c) ==
    IF c.model = "parent"
    THEN ParentAllowed(c.kind, c.row, view)
    ELSE /\ Allowed(c.kind, c.row, IF c.kind = "create" THEN view ELSE c.pre, view)
         /\ c.exact => Exists(c.row, view) /\ SameBefore(c.row, c.pre, view)

\* runPostWriteChecks, then the transaction commits
RunPostWriteChecks ==
    /\ pc = "check"
    /\ IF \A c \in checks : CheckHolds(c)
       THEN /\ pc' = "done" /\ outcome' = "done" /\ db' = view
            /\ UNCHANGED <<policy, view, call, todo, payload, checks, connected>>
       ELSE Ends("refused")

Init ==
    /\ policy \in Policies
    /\ db \in Starts /\ view = db
    /\ pc = "idle" /\ call = None /\ todo = <<>> /\ payload = <<>>
    /\ checks = {} /\ connected = {} /\ outcome = "none"

Visit ==
    /\ pc = "visit" /\ todo # <<>>
    /\ \/ VisitCreate \/ VisitCreateMany \/ VisitUpdate \/ VisitUpsert
       \/ VisitConnect \/ VisitConnectOrCreate \/ VisitDisconnect \/ VisitSet
       \/ VisitDelete \/ VisitUpdateMany \/ VisitDeleteMany
       \/ VisitNewChild \/ VisitNewConnect \/ VisitNewConnectOrCreate

Next ==
    \/ Start \/ UpdateTop \/ CreateTop \/ Visit
    \/ WriteUpdate \/ WriteCreate \/ RunPostWriteChecks

Spec == Init /\ [][Next]_vars

-----------------------------------------------------------------------------
(* Properties. *)

CheckType ==
    [model : {"parent", "child"}, row : Parents \cup Kids,
     kind : {"create", "postUpdate"}, exact : BOOLEAN, pre : Database]

\* The variables hold what handler.ts keeps of a call.
TypeOK ==
    /\ policy \in PolicyType /\ db \in Database /\ view \in Database
    /\ pc \in {"idle", "top", "visit", "check", "done"}
    /\ call \in Calls \cup {None}
    /\ todo \in Seq(Op) /\ payload \in Seq(Op)
    /\ checks \subseteq CheckType /\ connected \subseteq Kids
    /\ outcome \in {"none", "done", "refused", "failed"}

Asks(kinds) == \E i \in DOMAIN call.ops : call.ops[i].kind \in kinds
AsksFor(k, kinds) ==
    \E i \in DOMAIN call.ops : call.ops[i].kind \in kinds /\ call.ops[i].child = k

PostRules == RulesFor("postUpdate", Rules("update"))

\* Changes that no check looks at: the children a set replaces; the rows of a
\* nested write on many where cross-model rules decide, or which the user may
\* not read and rules on the result decide; and rules on the result of a
\* connection made by a create.
Unchecked(k) ==
    \/ Asks({"set"}) /\ ~AsksFor(k, {"set"})
    \/ Asks({"updateMany"}) /\ (\/ Cross(Rules("update")) # {}
                                \/ (PostRules # {} /\ Exists(k, db) /\ ~Admits("read", k, db)))
    \/ Asks({"deleteMany"}) /\ Cross(Rules("delete")) # {}
    \/ call.op = "create" /\ AsksFor(k, {"connect", "connectOrCreate"}) /\ PostRules # {}

Decided(kind, k, pre, now) == Decides(Rules(kind), True(Rules(kind), k, pre, now))

\* A nested updateMany may make of k a row that may be deleted.
MayGo(k, s) ==
    \/ Decided("delete", k, s, s)
    \/ \E i \in DOMAIN call.ops :
        LET t == Write([call.ops[i] EXCEPT !.child = k], s)
        IN call.ops[i].kind = "updateMany" /\ Decided("update", k, s, t) /\ Decided("delete", k, t, t)

\* what the rules say of a child that s had and t has
MayBecome(k, s, t) ==
    IF Exists(k, s) /\ Exists(k, t) THEN Decided("update", k, s, t)
    ELSE /\ Exists(k, s) => MayGo(k, s)
         /\ Exists(k, t) => Decided("create", k, t, t)

\* deleted and made anew by the same call
MayBeReplaced(k, s, t) ==
    Asks({"deleteMany"}) /\ MayGo(k, s) /\ Decided("create", k, t, t)

\* A nested write commits no change of a child that the rules of the children
\* refuse, whichever callback wrote it and in whatever order.
ChangesObeyRules ==
    [][\A k \in Kids : db'.child[k] # db.child[k] /\ ~Unchecked(k)
        => MayBecome(k, db, db') \/ MayBeReplaced(k, db, db')]_vars

\* what the call's nested writes do unchecked, in the order q, or None
WithOwnRow(s) == IF call.val = None THEN s ELSE [s EXCEPT !.parent[call.parent] = call.val]
Result(q) ==
    IF call.op = "create" THEN Carried(call.parent, q, TRUE, WithOwnRow(db))
    ELSE LET s == Carried(call.parent, q, TRUE, db)
         IN IF s = None THEN None ELSE WithOwnRow(s)

\* the writes of q at these places, in every order
OrdersOf(q, places) ==
    UNION {{[n \in 1 .. m |-> q[f[n]]] : f \in Bijection(1 .. m, places)} : m \in 0 .. Len(q)}

\* A deleteMany under a guard that is a constant gives way to the next one.
Overwritten(i) ==
    /\ call.ops[i].kind = "deleteMany" /\ SameForEveryRow("delete", Rules("delete"))
    /\ \E j \in DOMAIN call.ops : j > i /\ call.ops[j].kind = "deleteMany"

\* A call that succeeds has done each of its nested writes once, in some order,
\* but for those overwritten: splitting them between the callbacks and the last
\* statement loses and repeats no other, and reaches no child of another parent.
EachWriteAppliesOnce ==
    [][outcome = "none" /\ outcome' = "done" =>
        \E q \in OrdersOf(call.ops, {i \in DOMAIN call.ops : ~Overwritten(i)}) :
            Result(q) = db']_vars

ParentMay ==
    LET R == ParentRules(call.op)
    IN call.val = None
       \/ Decides(R, ParentTrue(R, IF call.op = "create" THEN call.val
                                   ELSE db.parent[call.parent]))

\* each child is named by one nested write, and only by name
OneWriteEach ==
    \A i, j \in DOMAIN call.ops :
        /\ call.ops[i].kind \notin {"updateMany", "deleteMany"}
        /\ i # j => call.ops[i].child # call.ops[j].child

\* The refusals no rule of the rows asks for: tryReject in the callback of a
\* nested update asks for the parents' model, and connected children are
\* checked as created when others are created beside them.
MistakenRefusal ==
    \/ Asks({"update"}) /\ Never("update", ParentRules("update"))
    \/ call.op = "create" /\ Asks({"connect"}) /\ Asks(CreateOps \ {"connect"})

\* A call is refused only for a change that some rule refuses: of its own row
\* or of a child it names, as it would be if the writes were done unchecked.
RefusalsHaveReason ==
    [][outcome' = "refused" /\ outcome = "none" /\ OneWriteEach /\ ~MistakenRefusal =>
        \/ ~ParentMay
        \/ \E q \in Orders(call.ops) : Result(q) = None
        \/ \E q \in Orders(call.ops), i \in DOMAIN call.ops :
            ~MayBecome(call.ops[i].child, db, Result(q))]_vars

\* A committed update satisfies every deny rule of update.
DeniesAreEnforced ==
    [][\A k \in Kids : Exists(k, db) /\ Exists(k, db') /\ db'.child[k] # db.child[k]
        => Denies(Rules("update")) \cap True(Rules("update"), k, db, db') = {}]_vars
=============================================================================
