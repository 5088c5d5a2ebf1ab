---------------------------- MODULE MCNestedWrite ----------------------------
(***************************************************************************)
(* Three parents and two children; policies with each kind of rule, calls  *)
(* with every pair of nested writes on the same or on different children.  *)
(***************************************************************************)
EXTENDS PolicyRead

CONSTANTS p1, p2, p3, k1, k2

\* the condition decides the shape the compiler sees
R(denies, condition) ==
    [deny |-> denies, literal |-> condition = "true",
     fields |-> condition \notin {"true", "user"}, future |-> condition = "willBeLow",
     cross |-> condition = "match", onInput |-> condition \in {"true", "user", "low", "high"},
     when |-> condition]
Allow(condition) == {R(FALSE, condition)}
Deny(condition) == {R(TRUE, condition)}

ChildPolicy(create, read, update, delete) ==
    [child |-> [create |-> create, read |-> read, update |-> update, delete |-> delete],
     parent |-> [create |-> Allow("true"), read |-> Allow("true"), update |-> Allow("true")],
     field |-> [read |-> {}, override |-> {}]]

Everything == ChildPolicy(Allow("true"), Allow("true"), Allow("true"), Allow("true"))

ReadOf(p, parent, field, override) ==
    [p EXCEPT !.parent.read = parent, !.field = [read |-> field, override |-> override]]

MCPolicies == {
    Everything,
    [ReadOf(Everything, Allow("low"), Allow("low"), {}) EXCEPT
        !.parent.create = Allow("low"), !.parent.update = Allow("user")],
    \* by the row, by its owner
    ReadOf(ChildPolicy(Allow("low"), Allow("low"), Allow("low"), Allow("low")),
           Allow("low"), {}, Allow("high")),
    ReadOf(ChildPolicy(Allow("mine"), Allow("mine"), Allow("mine"), Allow("mine") \cup Deny("low")),
           Allow("true"), Allow("high"), {}),
    \* a row that may go once it has been updated, unseen by the user
    ChildPolicy(Allow("low"), Allow("high"), Allow("low"), Allow("high")),
    \* by the result, with a denial that is deferred with the allowance
    ReadOf(ChildPolicy(Allow("true"), Allow("mine"), Allow("willBeLow"), Allow("user")),
           Allow("true"), Allow("match") \cup Deny("low"), {}),
    ReadOf(ChildPolicy(Allow("true"), Allow("high") \cup Deny("user"),
                       Allow("willBeLow") \cup Allow("mine"), Allow("true")),
           Allow("true") \cup Deny("low"), Allow("notMine"), {}),
    ReadOf(ChildPolicy(Allow("true"), Allow("true"), Allow("low") \cup Deny("willBeLow"), Allow("true")),
           Allow("low"), Allow("match"), {}),
    \* by both rows
    ReadOf(ChildPolicy(Allow("match"), Allow("true"), Allow("match"), Allow("match")),
           Allow("true"), Deny("match"), Allow("mine")),
    ReadOf(ChildPolicy(Allow("true"), Allow("user") \cup Allow("high"),
                       Allow("true") \cup Deny("match"), Allow("true")),
           Allow("low"), {}, Allow("match")),
    \* by the policy of the owner, and by what a constraint cannot express
    [ReadOf(ChildPolicy(Allow("high"), Allow("notMine"), Allow("kept"), Allow("low") \cup Deny("notMine")),
            Allow("low"), Allow("user"), {}) EXCEPT !.parent.update = Allow("low")],
    ReadOf(ChildPolicy(Allow("low") \cup Deny("user"), Allow("kept"),
                       Allow("lowKept") \cup Allow("user"), Allow("kept") \cup Deny("low")),
           Allow("low"), Allow("true") \cup Deny("notMine"), {})}

\* an allowance that is deferred and a denial that is not
MixedPolicies ==
    {ChildPolicy(Allow("true"), Allow("true"), Allow("willBeLow") \cup Deny("low"), Allow("true"))}

\* What the theorems about nested writes ask of the policies holds of all
\* but the mixed ones.
ASSUME PoliciesAreFaithful ==
    /\ \A p \in MCPolicies : Faithful(p.child.update)
    /\ \A p \in MixedPolicies : ~Faithful(p.child.update)

Children == {None} \cup [owner : {None, p1, p2}, val : {0, 1}]
MCStarts ==
    {[parent |-> (p1 :> v) @@ (p2 :> 1) @@ (p3 :> None), child |-> (k1 :> c) @@ (k2 :> d)] :
        v \in {0, 1}, c \in Children,
        d \in {None, [owner |-> p1, val |-> 0], [owner |-> p1, val |-> 1],
               [owner |-> p2, val |-> 1]}}

O(k, kind) == [kind |-> kind, child |-> k, val |-> 1]
CallOf(op, p, val, ops) == [op |-> op, parent |-> p, val |-> val, ops |-> ops]
MCUpdates ==
    {CallOf("update", p3, 1, <<>>)}
    \cup {CallOf("update", p1, 1, <<O(k1, a)>>) : a \in UpdateOps}
    \cup {CallOf("update", p1, None, <<O(k1, a), O(k, b)>>) :
            a \in UpdateOps, b \in UpdateOps, k \in {k1, k2}}
\* deletes with different filters, alone and in an array, before and after
\* another write
DeleteLow == [O(k1, "deleteMany") EXCEPT !.val = 0]
MCDeletes ==
    UNION {UNION {{CallOf("update", p1, None, deletes \o <<O(k2, a)>>),
                   CallOf("update", p1, 0, <<O(k2, a)>> \o deletes)} :
                deletes \in {<<DeleteLow>>, <<DeleteLow, O(k1, "deleteMany")>>}} :
        a \in {"create", "updateMany", "deleteMany", "disconnect"}}
MCCreates ==
    {CallOf("create", p3, v, <<>>) : v \in {0, 1}}
    \cup {CallOf("create", p3, v, <<O(k1, a)>>) : v \in {0, 1}, a \in CreateOps}
    \cup {CallOf("create", p3, 0, <<O(k1, a), O(k2, b)>>) : a \in CreateOps, b \in CreateOps}
    \cup {CallOf("create", p1, 0, <<>>)}
MCQuestions ==
    [operation : {"create", "read", "update", "delete"}, where : Vals \cup {None, Unusable}]
MCCalls == MCUpdates \cup MCDeletes \cup MCCreates

V(x) == "val" :> x
OwnerIs(op, c) == "owner" :> (op :> c)
OfChildren(op, c) == "children" :> (op :> c)
Either(a, b) == "OR" :> Group(TRUE, <<a, b>>)
ChildFilters == {
    NoFilter, V(0), V(1), OwnerIs("is", V(1)), OwnerIs("isNot", V(0)), "owner" :> V(0),
    "owner" :> Nothing, "NOT" :> Group(FALSE, <<V(1)>>),
    "NOT" :> Group(FALSE, <<MakeTrue>>), "OR" :> Group(TRUE, <<Nothing>>),
    Either(V(0), OwnerIs("is", V(1))), "NOT" :> Group(FALSE, <<OwnerIs("is", V(1))>>),
    "AND" :> Group(FALSE, <<"owner" :> V(1)>>),
    ("AND" :> Group(FALSE, <<V(1)>>)) @@ OwnerIs("is", Nothing)}
ParentFilters == {
    NoFilter, V(1), OfChildren("some", V(1)), OfChildren("none", V(1)), OfChildren("every", V(1)),
    "children" :> (("every" :> V(1)) @@ ("none" :> Nothing)),
    OfChildren("some", Nothing), OfChildren("every", OwnerIs("is", V(0))),
    V(0) @@ OfChildren("some", "owner" :> OfChildren("none", V(0)))}

Include(of) == Args(NoFilter, "include", of)
Select(of) == Args(NoFilter, "select", of)
OnlyVal == Select("val" :> None)
ChildFields == {Default, OnlyVal, Include("owner" :> None), Include("owner" :> Select("id" :> None)),
                Select([f \in {"val", "owner"} |-> None])}
ParentFields == {
    Default, Include("children" :> None), Include("children" :> OnlyVal),
    Include("children" :> Where(Default, V(1))), Include("_count" :> None),
    Include("children" :> Include("owner" :> None))}

Q(model, action, args, required) ==
    [model |-> model, action |-> action, args |-> args, required |-> required]
MCReads ==
    {Q("child", "find", Where(a, w), FALSE) : a \in ChildFields, w \in ChildFilters}
    \cup {Q("child", "find", Where(a, w), TRUE) : a \in ChildFields, w \in {NoFilter, V(1)}}
    \cup {Q("parent", "find", Where(a, w), FALSE) : a \in ParentFields, w \in {NoFilter, V(1)}}
    \cup {Q("parent", "find", Where(Default, w), FALSE) : w \in ParentFilters}
    \cup {Q("parent", "find", Include("children" :> Include("owner" :> None)), TRUE)}
    \cup {Q("child", "count", Where(Default, w), FALSE) : w \in ChildFilters}
    \cup {Q("parent", "count", Where(Default, w), FALSE) : w \in ParentFilters}
MCReadStarts == {s \in MCStarts : s.child[k2] # None /\ (s.child[k2].val = 1 \/ s.parent[p1] = 0)}
=============================================================================
