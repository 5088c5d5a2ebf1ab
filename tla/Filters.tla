------------------------------- MODULE Filters -------------------------------
(***************************************************************************)
(* The algebra of query conditions (policy-utils.ts, Logical operators),   *)
(* which merges what the user asks for with what the policy admits.        *)
(*                                                                         *)
(* A condition is a function from keys to values, the conjunction of its   *)
(* keys.  The values of AND, OR and NOT are groups: a list of conditions   *)
(* or a single one, which the code tells apart.  The keys in Opaque hold    *)
(* values it does not look into, every other key holds a condition, on a   *)
(* related row.  An absent condition (undefined) is NoFilter.              *)
(***************************************************************************)
EXTENDS Sequences, SequencesExt, TLC

CONSTANTS NoFilter, Opaque

Logical == {"AND", "OR", "NOT"}
Group(list, of) == [list |-> list, of |-> of]
Nothing == [k \in {} |-> NoFilter]                   \* {}
MakeTrue == "AND" :> Group(TRUE, <<>>)
MakeFalse == "OR" :> Group(TRUE, <<>>)
Literal(b) == IF b THEN MakeTrue ELSE MakeFalse

OnlyKey(c, k) == DOMAIN c = {k}
One(c, k) == OnlyKey(c, k) /\ ~c[k].list
Empty(c, k) == OnlyKey(c, k) /\ c[k].list /\ c[k].of = <<>>

RECURSIVE IsTrue(_), IsFalse(_)
IsTrue(c) ==
    \/ c = Nothing
    \/ Empty(c, "AND")
    \/ One(c, "OR") /\ IsTrue(c["OR"].of[1])
    \/ One(c, "NOT") /\ IsFalse(c["NOT"].of[1])
IsFalse(c) ==
    \/ Empty(c, "OR")
    \/ One(c, "AND") /\ IsFalse(c["AND"].of[1])
    \/ One(c, "NOT") /\ IsTrue(c["NOT"].of[1])

\* a group without the members that do not matter, or the one that decides
Shortened(g, cs, decided, decision) ==
    IF decided THEN Group(FALSE, <<decision>>)
    ELSE Group(g.list \/ Len(cs) # 1, cs)

Conjoined(g, cs) == Shortened(g, cs, \E i \in DOMAIN cs : IsFalse(cs[i]), MakeFalse)
Disjoined(g, cs) == Shortened(g, cs, \E i \in DOMAIN cs : IsTrue(cs[i]), MakeTrue)
Negated(g, cs) == Shortened(g, cs, FALSE, MakeFalse)

Normalized(c) == IF IsTrue(c) THEN MakeTrue ELSE IF IsFalse(c) THEN MakeFalse ELSE c

RECURSIVE Reduce(_)
Reduce(c) ==
    LET Members(g) == [i \in DOMAIN g.of |-> Reduce(g.of[i])]
        Reduced(k, v) ==
            CASE k = "AND" -> Conjoined(v, SelectSeq(Members(v), LAMBDA m : ~IsTrue(m)))
              [] k = "OR" -> Disjoined(v, SelectSeq(Members(v), LAMBDA m : ~IsFalse(m)))
              [] k = "NOT" -> Negated(v, Members(v))
              [] k \in Opaque -> v
              [] OTHER -> Reduce(v)
    IN Normalized([k \in DOMAIN c |-> Reduced(k, c[k])])

\* The members of a list that are given, combined.
Combine(op, cs, none) ==
    LET q == SelectSeq(cs, LAMBDA c : c # NoFilter)
    IN IF q = <<>> THEN none
       ELSE Reduce(IF Len(q) = 1 THEN q[1] ELSE op :> Group(TRUE, q))
And(cs) == Combine("AND", cs, MakeTrue)
Or(cs) == Combine("OR", cs, MakeFalse)
Negation(c) == Reduce("NOT" :> Group(FALSE, <<c>>))

Conjunction(where, all) ==
    ("AND" :> IF "AND" \in DOMAIN all THEN all["AND"] ELSE Group(FALSE, <<all>>)) @@ where

\* mergeWhereClause: keeps the keys of where, by which a unique row is found.
MergeWhere(where, extra) ==
    IF IsTrue(extra) THEN where
    ELSE IF IsFalse(extra) THEN MakeFalse
    ELSE IF "AND" \notin DOMAIN where
         THEN ("AND" :> Group(TRUE, <<extra>>)) @@ where
    ELSE Conjunction(where, And(Append(where["AND"].of, extra)))
=============================================================================
