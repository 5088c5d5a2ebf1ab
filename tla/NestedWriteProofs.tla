------------------------- MODULE NestedWriteProofs -------------------------
(***************************************************************************)
(* Proofs about the policy of a model and about nested writes under it,    *)
(* for any rows, policies, databases and calls.                            *)
(*                                                                         *)
(*   1. The compiled policy against what the rules say, for every set of   *)
(*      rules (PolicyCompile).  Sound: what it lets through the rules      *)
(*      allow.  Complete: what the rules allow it lets through.            *)
(*   2. TypeOK.                                                            *)
(*   3. ChangesObeyRules, from WriteInv: for each child, why the change    *)
(*      made of it so far, and the one the payload will make, is allowed   *)
(*      already or recorded to be checked against the rows the call found. *)
(*   4. EachWriteAppliesOnce, from AppliedInv: the nested writes done at   *)
(*      once and those left are a split of the ones the visitor has met,   *)
(*      in their order, but for a deleteMany that a later one has taken    *)
(*      the place of; and a run of the first and one of the second is a    *)
(*      run of both.                                                       *)
(***************************************************************************)
EXTENDS NestedWrite, TLAPS, FiniteSetTheorems, WellFoundedInduction

-----------------------------------------------------------------------------
(* 1. The compiled policy. *)

\* The operations whose rules are compiled as they stand.
Plain == {"create", "read", "delete"}

LEMMA PlainRules ==
    ASSUME NEW kind \in Plain, NEW X
    PROVE  RulesFor(kind, X) = X /\ kind # "update" /\ kind # "postUpdate"
BY DEF Plain, RulesFor

\* Without cross-model rules in the way a guard says: no denial holds, and
\* an allowance does or is left to the checker.
LEMMA GuardRefuses ==
    ASSUME NEW kind, NEW A, NEW D, NEW T, QueryGuard(kind, A, D, T)
    PROVE  /\ (D \ Cross(D)) \cap T = {}
           /\ \/ (A \ Cross(A)) \cap T # {}
              \/ Cross(A) \cap A # {}
              \/ A = {}
              \/ kind = "postUpdate"
BY DEF QueryGuard, Cross

LEMMA GuardAccepts ==
    ASSUME NEW kind, NEW A, NEW D, NEW T,
           (D \ Cross(D)) \cap T = {},
           (A \ Cross(A)) \cap T # {} \/ (A \cap Cross(A) = A /\ (A # {} \/ kind = "postUpdate"))
    PROVE  QueryGuard(kind, A, D, T)
<1>1. CASE (A \ Cross(A)) \cap T # {}
  BY <1>1 DEF QueryGuard
<1>2. CASE A \cap Cross(A) = A /\ (A # {} \/ kind = "postUpdate")
  <2>1. A \ Cross(A) = {}
    BY <1>2
  <2> QED BY <2>1, <1>2 DEF QueryGuard
<1> QED BY <1>1, <1>2

\* Compiled create, read and delete policies let nothing through that the
\* rules do not allow (generateQueryGuardFunction, the checkers and the
\* constants of writePolicyGuard together).
THEOREM PlainPolicyIsSound ==
    ASSUME NEW kind \in Plain, NEW R, NEW T, LiteralsHold(R, T),
           Passes(kind, R, T)
    PROVE  Decides(R, T)
<1> DEFINE A == Allows(R)
           D == Denies(R)
<1>1. /\ RulesFor(kind, A) = A /\ RulesFor(kind, D) = D
      /\ RulesFor(kind, Cross(A)) = Cross(A) /\ RulesFor(kind, Cross(D)) = Cross(D)
      /\ kind # "update" /\ kind # "postUpdate"
  BY PlainRules
<1>2. ~StaticNo(R) /\ (StaticYes(R) \/ QueryGuard(kind, A, D, T))
  BY <1>1 DEF Passes, Guard
<1>3. A # {}
  BY <1>2 DEF StaticNo
<1>4. CASE StaticYes(R)
  BY <1>4 DEF StaticYes, Decides, LiteralsHold, Allows
<1>5. CASE QueryGuard(kind, A, D, T)
  <2>1. CASE Cross(A) \cup Cross(D) = {}
    <3>1. A \ Cross(A) = A /\ D \ Cross(D) = D /\ Cross(A) \cap A = {}
      BY <2>1
    <3> QED BY <1>1, <1>3, <1>5, <3>1, GuardRefuses DEF Decides
  <2>2. CASE Cross(A) \cup Cross(D) # {}
    <3>1. Checker(kind, R, T)
      BY <1>1, <2>2 DEF Passes, HasChecker
    <3> QED BY <1>1, <3>1 DEF Checker, Decides
  <2> QED BY <2>1, <2>2
<1> QED BY <1>2, <1>4, <1>5

\* They refuse nothing that the rules allow, provided that the allow rules
\* are all for the query or all for the checker.
THEOREM PlainPolicyIsComplete ==
    ASSUME NEW kind \in Plain, NEW R, NEW T, LiteralsHold(R, T),
           OneSortOfAllow(R), Decides(R, T)
    PROVE  Passes(kind, R, T)
<1> DEFINE A == Allows(R)
           D == Denies(R)
<1>1. /\ RulesFor(kind, A) = A /\ RulesFor(kind, D) = D
      /\ kind # "update" /\ kind # "postUpdate"
  BY PlainRules
<1>2. A \cap T # {} /\ D \cap T = {} /\ D \subseteq R
  BY DEF Decides, Denies
<1>3. ~StaticNo(R)
  BY <1>2 DEF StaticNo, LiteralsHold
<1>4. (A \ Cross(A)) \cap T # {} \/ (A \cap Cross(A) = A /\ A # {})
  BY <1>2 DEF OneSortOfAllow
<1>5. QueryGuard(kind, A, D, T)
  BY <1>2, <1>4, GuardAccepts
<1>6. Guard(kind, R, T)
  BY <1>1, <1>3, <1>5 DEF Guard
<1>7. Checker(kind, R, T)
  BY <1>1, <1>2 DEF Checker
<1> QED BY <1>6, <1>7 DEF Passes

-----------------------------------------------------------------------------
\* Compiled update policies, the guard before and the check after the update
\* together, let nothing through that the rules do not allow, provided that
\* processUpdatePolicies moves the denials whenever it moves the allowances,
\* and cross-model rules with the others.  Each proviso is necessary.
THEOREM UpdatePolicyIsSound ==
    ASSUME NEW R, NEW T, LiteralsHold(R, T), FutureReadsFields(R),
           DeniesFollowAllows(R), NoLateCrossAllow(R), CrossDeniesFollowDenies(R),
           MayUpdate(R, T)
    PROVE  Decides(R, T)
<1> DEFINE A == Allows(R)
           D == Denies(R)
<1>p. /\ Guard("update", R, T) /\ (HasChecker("update", R) => Checker("update", R, T))
      /\ Guard("postUpdate", R, T)
      /\ HasChecker("postUpdate", R) => Checker("postUpdate", R, T)
  BY DEF MayUpdate, Passes
<1>1. ASSUME RulesFor("postUpdate", D) = D, D # {},
             QueryGuard("postUpdate", RulesFor("postUpdate", A), D, T)
      PROVE  D \cap T = {}
  \* the denials are all checked after the update
  <2>1. (D \ Cross(D)) \cap T = {}
    BY <1>1, GuardRefuses
  <2>2. CASE Cross(D) = {}
    BY <2>1, <2>2
  <2>3. CASE Cross(D) # {}
    <3>1. HasFuture(D)
      BY <1>1 DEF RulesFor
    <3>2. RulesFor("postUpdate", Cross(D)) = Cross(D)
      BY <2>3, <3>1 DEF CrossDeniesFollowDenies, RulesFor
    <3>3. Checker("postUpdate", R, T)
      BY <1>p, <2>3, <3>2 DEF HasChecker
    <3> QED BY <1>1, <3>3 DEF Checker
  <2> QED BY <2>2, <2>3
<1>2. CASE HasFuture(A)
  <2>1. /\ RulesFor("update", A) = {} /\ RulesFor("postUpdate", A) = A
        /\ Cross(A) = {} /\ A \ Cross(A) = A /\ A # {}
    BY <1>2 DEF RulesFor, NoLateCrossAllow, HasFuture
  <2>2. RulesFor("postUpdate", D) = D
    BY <1>2 DEF RulesFor, DeniesFollowAllows
  <2>3. QueryGuard("postUpdate", A, D, T)
    BY <1>p, <2>1, <2>2 DEF Guard
  <2>4. PICK r \in A : r.fields
    BY <1>2 DEF HasFuture, FutureReadsFields, Allows
  <2>5. A \cap T # {}
    BY <2>1, <2>3, <2>4 DEF QueryGuard
  <2>6. D \cap T = {}
    <3> HIDE DEF A, D
    <3> QED BY <1>1, <2>1, <2>2, <2>3
  <2> QED BY <2>5, <2>6 DEF Decides
<1>3. CASE ~HasFuture(A)
  <2>1. RulesFor("update", A) = A /\ RulesFor("postUpdate", A) = {} /\ ~HasFuture(Cross(A))
    BY <1>3 DEF RulesFor, HasFuture, Cross
  <2>2. RulesFor("update", Cross(A)) = Cross(A)
    BY <2>1 DEF RulesFor
  <2>3. /\ A # {} /\ ~StaticNo(R)
        /\ StaticYes(R) \/ QueryGuard("update", A, RulesFor("update", D), T)
    BY <1>p, <2>1 DEF Guard
  <2>4. A \cap T # {}
    <3>1. CASE Cross(A) # {}
      BY <1>p, <2>1, <2>2, <3>1 DEF HasChecker, Checker
    <3>2. CASE Cross(A) = {} /\ StaticYes(R)
      BY <3>2 DEF StaticYes, LiteralsHold, Allows
    <3>3. CASE Cross(A) = {} /\ QueryGuard("update", A, RulesFor("update", D), T)
      <4>1. A \ Cross(A) = A /\ Cross(A) \cap A = {}
        BY <3>3
      <4> HIDE DEF A, D
      <4> QED BY <2>3, <3>3, <4>1, GuardRefuses
    <3> QED BY <2>3, <3>1, <3>2, <3>3
  <2>5. D \cap T = {}
    <3>1. CASE D = {}
      BY <3>1
    <3>2. CASE D # {} /\ HasFuture(D)
      <4>1. RulesFor("postUpdate", D) = D
        BY <3>2 DEF RulesFor
      <4>2. QueryGuard("postUpdate", {}, D, T)
        BY <1>p, <2>1, <3>2, <4>1 DEF Guard
      <4> HIDE DEF A, D
      <4> QED BY <1>1, <2>1, <3>2, <4>1, <4>2
    <3>3. CASE D # {} /\ ~HasFuture(D)
      <4>1. RulesFor("update", D) = D /\ RulesFor("update", Cross(D)) = Cross(D)
        BY <3>3 DEF RulesFor, HasFuture, Cross
      <4>2. QueryGuard("update", A, D, T)
        BY <2>3, <3>3, <4>1 DEF StaticYes
      <4>3. (D \ Cross(D)) \cap T = {}
        BY <4>2, GuardRefuses
      <4>4. CASE Cross(D) = {}
        BY <4>3, <4>4
      <4>5. CASE Cross(D) # {}
        BY <1>p, <4>1, <4>5 DEF HasChecker, Checker
      <4> QED BY <4>4, <4>5
    <3> QED BY <3>1, <3>2, <3>3
  <2> QED BY <2>4, <2>5 DEF Decides
<1> QED BY <1>2, <1>3

\* Under the same provisos, and with the allow rules all of one sort, they
\* refuse no update that the rules allow.
THEOREM UpdatePolicyIsComplete ==
    ASSUME NEW R, NEW T, LiteralsHold(R, T), OneSortOfAllow(R),
           DeniesFollowAllows(R), NoLateCrossAllow(R), CrossDeniesFollowDenies(R),
           Decides(R, T)
    PROVE  MayUpdate(R, T)
<1> DEFINE A == Allows(R)
           D == Denies(R)
<1>1. A \cap T # {} /\ D \cap T = {} /\ D \subseteq R
  BY DEF Decides, Denies
<1>2. ~StaticNo(R)
  BY <1>1 DEF StaticNo, LiteralsHold
<1>3. (A \ Cross(A)) \cap T # {} \/ (A \cap Cross(A) = A /\ A # {})
  BY <1>1 DEF OneSortOfAllow
<1>4. ASSUME NEW kind, NEW E, E \subseteq D
      PROVE  /\ (E \ Cross(E)) \cap T = {}
             /\ QueryGuard(kind, A, E, T)
             /\ QueryGuard("postUpdate", {}, E, T)
  <2>1. (E \ Cross(E)) \cap T = {}
    BY <1>1, <1>4
  <2>2. {} \cap Cross({}) = {}
    OBVIOUS
  <2> HIDE DEF A, D
  <2>3. QueryGuard(kind, A, E, T)
    BY <1>3, <2>1, GuardAccepts
  <2>4. QueryGuard("postUpdate", {}, E, T)
    BY <2>1, <2>2, GuardAccepts
  <2> QED BY <2>1, <2>3, <2>4
<1>5. RulesFor("update", D) \subseteq D /\ RulesFor("postUpdate", D) \subseteq D
  BY DEF RulesFor
<1>6. CASE HasFuture(A)
  <2>1. RulesFor("update", A) = {} /\ RulesFor("postUpdate", A) = A /\ A # {} /\ Cross(A) = {}
    BY <1>6 DEF RulesFor, NoLateCrossAllow, HasFuture
  <2>2. Guard("update", R, T)
    BY <2>1 DEF Guard
  <2>3. Guard("postUpdate", R, T)
    <3>1. QueryGuard("postUpdate", A, RulesFor("postUpdate", D), T)
      BY <1>4, <1>5
    <3> QED BY <2>1, <3>1 DEF Guard
  <2>4. ~HasChecker("update", R)
    <3>1. RulesFor("update", Cross(A)) = {}
      BY <2>1 DEF RulesFor
    <3>2. RulesFor("update", Cross(D)) = {}
      <4>1. CASE Cross(D) = {}
        BY <4>1 DEF RulesFor
      <4>2. CASE Cross(D) # {}
        BY <1>6, <4>2 DEF RulesFor, DeniesFollowAllows, CrossDeniesFollowDenies, Cross
      <4> QED BY <4>1, <4>2
    <3> QED BY <3>1, <3>2 DEF HasChecker
  <2>5. Checker("postUpdate", R, T)
    BY <1>1, <1>5 DEF Checker
  <2> QED BY <2>2, <2>3, <2>4, <2>5 DEF MayUpdate, Passes
<1>7. CASE ~HasFuture(A)
  <2>1. RulesFor("update", A) = A /\ RulesFor("postUpdate", A) = {}
    BY <1>7 DEF RulesFor
  <2>2. Guard("update", R, T)
    <3>1. QueryGuard("update", A, RulesFor("update", D), T)
      BY <1>4, <1>5
    <3> QED BY <1>1, <1>2, <2>1, <3>1 DEF Guard
  <2>3. Guard("postUpdate", R, T)
    <3>1. QueryGuard("postUpdate", {}, RulesFor("postUpdate", D), T)
      BY <1>4, <1>5
    <3> QED BY <2>1, <3>1 DEF Guard
  <2>4. Checker("update", R, T)
    BY <1>1, <1>5, <2>1 DEF Checker
  <2>5. Checker("postUpdate", R, T)
    BY <1>1, <1>5 DEF Checker
  <2> QED BY <2>2, <2>3, <2>4, <2>5 DEF MayUpdate, Passes
<1> QED BY <1>6, <1>7

-----------------------------------------------------------------------------
\* What the guard and the checker of a field let through its rules allow.
THEOREM FieldPolicyIsSound ==
    ASSUME NEW R, NEW T, FieldPasses(R, T)
    PROVE  FieldDecides(R, T)
<1> DEFINE A == Allows(R)
           D == Denies(R)
<1>1. CASE Cross(R) # {}
  BY <1>1 DEF FieldPasses, FieldChecker, FieldDecides
<1>2. CASE Cross(R) = {}
  <2>1. Cross(A) = {} /\ Cross(D) = {} /\ A \ Cross(A) = A /\ D \ Cross(D) = D
    BY <1>2 DEF Cross, Allows, Denies
  <2> QED BY <2>1 DEF FieldPasses, FieldGuard, FieldDecides
<1> QED BY <1>1, <1>2

\* A guard that is known beforehand can be asked without a row: the rules that
\* read fields do not change its answer (tryReject and the constant guards of
\* nested updateMany and deleteMany).
THEOREM KnownBeforehand ==
    ASSUME NEW kind, NEW R, NEW T, NEW S,
           SameForEveryRow(kind, R),
           {r \in T : ~r.fields} = {r \in S : ~r.fields}
    PROVE  Guard(kind, R, T) <=> Guard(kind, R, S)
<1> DEFINE A == RulesFor(kind, Allows(R))
           D == RulesFor(kind, Denies(R))
<1>1. CASE kind = "update" /\ A = {}
  BY <1>1 DEF Guard
<1>2. CASE ~(kind = "update" /\ A = {}) /\ kind # "postUpdate" /\ (StaticNo(R) \/ StaticYes(R))
  BY <1>2 DEF Guard
<1>3. CASE ~(kind = "update" /\ A = {}) /\ \A r \in (A \cup D) \ Cross(R) : ~r.fields
  <2>1. /\ Cross(A) = A \cap Cross(R) /\ Cross(D) = D \cap Cross(R)
    BY DEF Cross, RulesFor, Allows, Denies
  <2>2. /\ A \ Cross(A) = A \ Cross(R) /\ D \ Cross(D) = D \ Cross(R)
    BY <2>1
  <2> HIDE DEF A, D
  <2>3. \A r \in (A \ Cross(A)) \cup (D \ Cross(D)) : ~r.fields /\ (r \in T <=> r \in S)
    BY <1>3, <2>2
  <2>4. QueryGuard(kind, A, D, T) <=> QueryGuard(kind, A, D, S)
    BY <2>3 DEF QueryGuard
  <2> USE DEF A, D
  <2> QED BY <1>3, <2>4 DEF Guard
<1> QED BY <1>1, <1>2, <1>3 DEF SameForEveryRow

-----------------------------------------------------------------------------
(* 2. Rows, databases and nested writes, and their types. *)

LEMMA DatabaseType ==
    ASSUME NEW s
    PROVE  s \in Database <=>
             /\ s = [parent |-> s.parent, child |-> s.child]
             /\ s.parent \in [Parents -> Vals \cup {None}]
             /\ s.child \in [Kids -> Row \cup {None}]
BY DEF Database

\* Names for the changed rows and databases, to be kept unexpanded.
Valued(r, v) == [r EXCEPT !.val = v]
Owned(r, o) == [r EXCEPT !.owner = o]
WithChild(s, c, r) == [s EXCEPT !.child[c] = r]
WithChildren(s, f) == [s EXCEPT !.child = f]

LEMMA RowType ==
    /\ \A r \in Row : r # None /\ r.owner \in Parents \cup {None} /\ r.val \in Vals
    /\ \A o \in Parents \cup {None}, v \in Vals : [owner |-> o, val |-> v] \in Row
    /\ None \notin Parents /\ None \notin Vals
BY NestedWriteAssumption DEF Row

LEMMA ValuedIs ==
    ASSUME NEW r \in Row, NEW v \in Vals
    PROVE  Valued(r, v) \in Row /\ Valued(r, v).val = v /\ Valued(r, v).owner = r.owner
BY DEF Valued, Row

LEMMA OwnedIs ==
    ASSUME NEW r \in Row, NEW o \in Parents \cup {None}
    PROVE  Owned(r, o) \in Row /\ Owned(r, o).val = r.val /\ Owned(r, o).owner = o
BY DEF Owned, Row

LEMMA OpType ==
    ASSUME NEW op \in Op
    PROVE  op.kind \in UpdateOps /\ op.child \in Kids /\ op.val \in Vals
BY DEF Op

\* What one nested write may do to child k of s, in t.
Touches(p, op, K, k, s, t) ==
    \/ /\ op.kind \in {"create", "createMany", "upsert", "connectOrCreate"}
       /\ k = op.child /\ ~Exists(k, s) /\ t.child[k] = Made(p, op)
    \/ /\ op.kind \in {"update", "upsert"}
       /\ k = op.child /\ Under(p, k, s) /\ t.child[k] = Valued(s.child[k], op.val)
    \/ /\ op.kind \in {"connect", "connectOrCreate", "set"}
       /\ k = op.child /\ Exists(k, s) /\ t.child[k] = Owned(s.child[k], p)
    \/ /\ op.kind \in {"disconnect", "set"} /\ (k = op.child <=> op.kind = "disconnect")
       /\ Under(p, k, s) /\ t.child[k] = Owned(s.child[k], None)
    \/ /\ op.kind = "delete"
       /\ k = op.child /\ Under(p, k, s) /\ t.child[k] = None
    \/ /\ op.kind = "updateMany"
       /\ k \in Selected(p, op, s) \cap K /\ t.child[k] = Valued(s.child[k], op.val)
    \/ /\ op.kind = "deleteMany"
       /\ k \in Selected(p, op, s) \cap K /\ t.child[k] = None

LEMMA SetChild ==
    ASSUME NEW s \in Database, NEW c \in Kids, NEW r \in Row \cup {None}
    PROVE  /\ WithChild(s, c, r) \in Database /\ WithChild(s, c, r).parent = s.parent
           /\ \A k \in Kids : WithChild(s, c, r).child[k] = IF k = c THEN r ELSE s.child[k]
BY DEF Database, WithChild

LEMMA SetChildren ==
    ASSUME NEW s \in Database, NEW f \in [Kids -> Row \cup {None}]
    PROVE  /\ WithChildren(s, f) \in Database /\ WithChildren(s, f).parent = s.parent
           /\ WithChildren(s, f).child = f
BY DEF Database, WithChildren

LEMMA WriteIs ==
    ASSUME NEW s \in Database, NEW op \in Op, Exists(op.child, s)
    PROVE  /\ Write(op, s) \in Database /\ Write(op, s).parent = s.parent
           /\ \A k \in Kids : Write(op, s).child[k] =
                IF k = op.child THEN Valued(s.child[k], op.val) ELSE s.child[k]
<1> DEFINE r == Valued(s.child[op.child], op.val)
<1>1. r \in Row
  BY DatabaseType, ValuedIs, OpType DEF Exists
<1>2. Write(op, s) = WithChild(s, op.child, r)
  BY DEF Write, WithChild, Valued
<1> QED BY <1>1, <1>2, OpType, SetChild

LEMMA MoveIs ==
    ASSUME NEW s \in Database, NEW c \in Kids, Exists(c, s), NEW p \in Parents \cup {None}
    PROVE  /\ Move(c, p, s) \in Database /\ Move(c, p, s).parent = s.parent
           /\ \A k \in Kids : Move(c, p, s).child[k] =
                IF k = c THEN Owned(s.child[k], p) ELSE s.child[k]
<1> DEFINE r == Owned(s.child[c], p)
<1>1. r \in Row
  BY DatabaseType, OwnedIs DEF Exists
<1>2. Move(c, p, s) = WithChild(s, c, r)
  BY DEF Move, WithChild, Owned
<1> QED BY <1>1, <1>2, SetChild

LEMMA CreateIs ==
    ASSUME NEW s \in Database, NEW op \in Op, NEW p \in Parents
    PROVE  /\ Create(p, op, s) \in Database /\ Create(p, op, s).parent = s.parent
           /\ Made(p, op) \in Row
           /\ \A k \in Kids : Create(p, op, s).child[k] =
                IF k = op.child THEN Made(p, op) ELSE s.child[k]
<1>1. Made(p, op) \in Row
  BY RowType, OpType DEF Made
<1>2. Create(p, op, s) = WithChild(s, op.child, Made(p, op))
  BY DEF Create, WithChild
<1> QED BY <1>1, <1>2, OpType, SetChild

LEMMA WriteManyIs ==
    ASSUME NEW s \in Database, NEW op \in Op, NEW K \in SUBSET Kids,
           op.kind \in {"updateMany", "deleteMany"},
           \A k \in K : Exists(k, s)
    PROVE  /\ WriteMany(op, K, s) \in Database /\ WriteMany(op, K, s).parent = s.parent
           /\ \A k \in Kids : WriteMany(op, K, s).child[k] =
                 IF k \notin K THEN s.child[k]
                 ELSE IF op.kind = "deleteMany" THEN None ELSE Valued(s.child[k], op.val)
<1> DEFINE f == [k \in Kids |-> IF k \notin K THEN s.child[k]
                                ELSE IF op.kind = "deleteMany" THEN None
                                ELSE Valued(s.child[k], op.val)]
<1>1. ASSUME NEW k \in Kids PROVE f[k] \in Row \cup {None}
  <2>1. s.child[k] \in Row \cup {None} /\ op.val \in Vals
    BY DatabaseType, OpType
  <2>2. k \in K => s.child[k] # None
    BY DEF Exists
  <2>3. k \in K => Valued(s.child[k], op.val) \in Row
    BY <2>1, <2>2, ValuedIs
  <2> QED BY <2>1, <2>3
<1>2. f \in [Kids -> Row \cup {None}]
  BY <1>1
<1>3. WriteMany(op, K, s) = WithChildren(s, f)
  BY DEF WriteMany, WithChildren, Valued
<1>5. \A k \in Kids : f[k] = IF k \notin K THEN s.child[k]
                                ELSE IF op.kind = "deleteMany" THEN None
                                ELSE Valued(s.child[k], op.val)
  OBVIOUS
<1> HIDE DEF f
<1>4. /\ WriteMany(op, K, s) \in Database /\ WriteMany(op, K, s).parent = s.parent
      /\ WriteMany(op, K, s).child = f
  BY <1>2, <1>3, SetChildren
<1> QED BY <1>4, <1>5

\* The effect of one nested write: it leaves the parents alone, and what it
\* does to a child is one of the above.
LEMMA EffectIs ==
    ASSUME NEW s \in Database, NEW op \in Op, NEW p \in Parents, NEW K,
           Possible(p, op, s), NEW t, t = Effect(p, op, K, s)
    PROVE  /\ t \in Database /\ t.parent = s.parent
           /\ \A k \in Kids : t.child[k] # s.child[k] => Touches(p, op, K, k, s, t)
<1> USE OpType, RowType
<1>1. CASE op.kind = "create"
  <2>1. t = Create(p, op, s)
    BY <1>1 DEF Effect
  <2> QED BY <1>1, <2>1, CreateIs DEF Touches, Possible
<1>2. CASE op.kind = "createMany"
  <2>1. t = IF Exists(op.child, s) THEN s ELSE Create(p, op, s)
    BY <1>2 DEF Effect
  <2> QED BY <1>2, <2>1, CreateIs DEF Touches
<1>3. CASE op.kind = "update"
  <2>1. t = Write(op, s) /\ Exists(op.child, s)
    BY <1>3 DEF Effect, Possible, Under, Exists
  <2> QED BY <1>3, <2>1, WriteIs DEF Touches, Possible
<1>4. CASE op.kind = "upsert"
  <2>1. t = IF Exists(op.child, s) THEN Write(op, s) ELSE Create(p, op, s)
    BY <1>4 DEF Effect
  <2> QED BY <1>4, <2>1, WriteIs, CreateIs DEF Touches, Possible
<1>5. CASE op.kind = "connect"
  <2>1. t = Move(op.child, p, s) /\ Exists(op.child, s)
    BY <1>5 DEF Effect, Possible
  <2> QED BY <1>5, <2>1, MoveIs DEF Touches
<1>6. CASE op.kind = "connectOrCreate"
  <2>1. t = IF Exists(op.child, s) THEN Move(op.child, p, s) ELSE Create(p, op, s)
    BY <1>6 DEF Effect
  <2> QED BY <1>6, <2>1, MoveIs, CreateIs DEF Touches
<1>7. CASE op.kind = "disconnect"
  <2>1. t = IF Under(p, op.child, s) THEN Move(op.child, None, s) ELSE s
    BY <1>7 DEF Effect
  <2>2. Under(p, op.child, s) => Exists(op.child, s)
    BY DEF Under, Exists
  <2>3. CASE Under(p, op.child, s)
    <3>1. /\ t \in Database /\ t.parent = s.parent
          /\ \A k \in Kids : t.child[k] =
                IF k = op.child THEN Owned(s.child[k], None) ELSE s.child[k]
      BY <2>1, <2>2, <2>3, MoveIs
    <3> QED BY <1>7, <2>3, <3>1 DEF Touches
  <2> QED BY <2>1, <2>3
<1>8. CASE op.kind = "set"
  <2> DEFINE f == [c \in Kids |->
                  IF c = op.child THEN Owned(s.child[c], p)
                  ELSE IF Under(p, c, s) THEN Owned(s.child[c], None)
                  ELSE s.child[c]]
  <2>1. t = WithChildren(s, f) /\ Exists(op.child, s)
    BY <1>8 DEF Effect, Possible, WithChildren, Owned
  <2>2. ASSUME NEW c \in Kids PROVE f[c] \in Row \cup {None}
    <3>1. s.child[c] \in Row \cup {None}
      BY DatabaseType
    <3>2. c = op.child \/ Under(p, c, s) => s.child[c] # None
      BY <2>1 DEF Under, Exists
    <3> QED BY <3>1, <3>2, OwnedIs
  <2>3. f \in [Kids -> Row \cup {None}]
    BY <2>2
  <2>4. \A c \in Kids : f[c] = IF c = op.child THEN Owned(s.child[c], p)
                  ELSE IF Under(p, c, s) THEN Owned(s.child[c], None)
                  ELSE s.child[c]
    OBVIOUS
  <2> HIDE DEF f
  <2>5. t \in Database /\ t.parent = s.parent /\ t.child = f
    BY <2>1, <2>3, SetChildren
  <2> QED BY <1>8, <2>1, <2>4, <2>5 DEF Touches
<1>9. CASE op.kind = "delete"
  <2>1. t = WithChild(s, op.child, None)
    BY <1>9 DEF Effect, WithChild
  <2> QED BY <1>9, <2>1, SetChild DEF Touches, Possible
<1>10. CASE op.kind \in {"updateMany", "deleteMany"}
  <2>1. t = WriteMany(op, Selected(p, op, s) \cap K, s)
    BY <1>10 DEF Effect
  <2>2. /\ t \in Database /\ t.parent = s.parent
        /\ \A k \in Kids : t.child[k] =
              IF k \notin Selected(p, op, s) \cap K THEN s.child[k]
              ELSE IF op.kind = "deleteMany" THEN None ELSE Valued(s.child[k], op.val)
    <3>1. /\ Selected(p, op, s) \cap K \in SUBSET Kids
          /\ \A k \in Selected(p, op, s) \cap K : Exists(k, s)
      BY DEF Selected, Under, Exists
    <3> QED BY <1>10, <2>1, <3>1, WriteManyIs
  <2> QED BY <1>10, <2>2 DEF Touches
<1>11. \/ op.kind \in {"create", "createMany", "update", "upsert", "connect"}
       \/ op.kind \in {"connectOrCreate", "disconnect", "set", "delete"}
       \/ op.kind \in {"updateMany", "deleteMany"}
  BY DEF UpdateOps
<1> HIDE RowType, OpType
<1> QED BY <1>1, <1>2, <1>3, <1>4, <1>5, <1>6, <1>7, <1>8, <1>9, <1>10, <1>11, Zenon

-----------------------------------------------------------------------------
(* A payload is carried out write by write. *)

Filter(apart, op, t) == IF apart THEN ByGuard(op, t) ELSE ByConstant(op, t)
CarryOne(p, op, apart, t) ==
    IF t = None \/ ~Possible(p, op, t) THEN None
    ELSE Effect(p, op, Filter(apart, op, t), t)

\* f is the states that carrying out q, from s on, goes through.
Run(f, p, q, apart, s) ==
    f = [n \in 0 .. Len(q) |-> IF n = 0 THEN s ELSE CarryOne(p, q[n], apart, f[n - 1])]

LEMMA RunExists ==
    ASSUME NEW p, NEW q \in Seq(Op), NEW apart, NEW s
    PROVE  \E f : Run(f, p, q, apart, s)
<1> DEFINE Upto(f, m) ==
        f = [n \in 0 .. m |-> IF n = 0 THEN s ELSE CarryOne(p, q[n], apart, f[n - 1])]
    Failing == {m \in Nat : ~ \E f : Upto(f, m)}
<1>1. ASSUME NEW m \in Failing, \A n \in Failing : ~(n < m) PROVE FALSE
  <2>1. CASE m = 0
    <3>1. 0 .. m = {0}
      BY <2>1
    <3> DEFINE g == [n \in 0 .. m |-> s]
    <3>2. g = [n \in 0 .. m |-> IF n = 0 THEN s ELSE CarryOne(p, q[n], apart, g[n - 1])]
      BY <3>1
    <3> HIDE DEF g
    <3>3. Upto(g, m)
      BY <3>2
    <3>4. m \notin Failing
      BY <3>3
    <3> QED BY <1>1, <3>4
  <2>2. CASE m # 0
    <3>1. m - 1 \in Nat /\ m - 1 < m /\ m \in Nat
      BY <1>1, <2>2
    <3>0. m - 1 \notin Failing
      <4> HIDE DEF Failing
      <4> QED BY <1>1, <3>1
    <3>2. PICK f : Upto(f, m - 1)
      BY <3>0, <3>1
    <3> DEFINE g == [n \in 0 .. m |-> IF n < m THEN f[n] ELSE CarryOne(p, q[m], apart, f[m - 1])]
    <3>3. ASSUME NEW n \in 0 .. m
          PROVE  g[n] = IF n = 0 THEN s ELSE CarryOne(p, q[n], apart, g[n - 1])
      <4>1. CASE n = 0
        BY <3>1, <3>2, <4>1
      <4>2. CASE n # 0 /\ n < m
        BY <3>1, <3>2, <4>2
      <4>3. CASE n = m
        BY <2>2, <3>1, <4>3
      <4> QED BY <4>1, <4>2, <4>3
    <3>4. g = [n \in 0 .. m |-> IF n = 0 THEN s ELSE CarryOne(p, q[n], apart, g[n - 1])]
      BY <3>3
    <3> HIDE DEF g
    <3>5. Upto(g, m)
      BY <3>4
    <3>6. m \notin Failing
      BY <3>5
    <3> QED BY <1>1, <3>6
  <2> QED BY <2>1, <2>2
<1>2. Failing = {}
  <2> SUFFICES ASSUME Failing # {} PROVE FALSE
    OBVIOUS
  <2>1. PICK m \in Failing : \A n \in Failing : <<n, m>> \notin OpToRel(<, Nat)
    BY NatLessThanWellFounded, WFMin
  <2>2. \A i, k \in Nat : i < k => <<i, k>> \in OpToRel(<, Nat)
    BY DEF OpToRel
  <2>3. \A n \in Failing : ~(n < m)
    BY <2>1, <2>2
  <2> HIDE DEF Failing
  <2> QED BY <1>1, <2>1, <2>3
<1>3. Len(q) \in Nat
  OBVIOUS
<1>4. PICK f : Upto(f, Len(q))
  BY <1>2, <1>3
<1> QED BY <1>4 DEF Run

LEMMA CarriedIs ==
    ASSUME NEW p, NEW q \in Seq(Op), NEW apart, NEW s
    PROVE  \E f : Run(f, p, q, apart, s) /\ Carried(p, q, apart, s) = f[Len(q)]
<1> DEFINE f == CHOOSE g : Run(g, p, q, apart, s)
<1>1. Run(f, p, q, apart, s)
  BY RunExists
<1>2. Carried(p, q, apart, s) = f[Len(q)]
  BY DEF Carried, Run, CarryOne, Filter
<1> HIDE DEF f
<1> QED BY <1>1, <1>2

LEMMA RunSteps ==
    ASSUME NEW p, NEW q \in Seq(Op), NEW apart, NEW s, NEW f, Run(f, p, q, apart, s)
    PROVE  /\ f[0] = s
           /\ \A n \in 1 .. Len(q) :
                f[n] = CarryOne(p, q[n], apart, f[n - 1]) /\ q[n] \in Op /\ n \in DOMAIN q
<1>1. Len(q) \in Nat /\ DOMAIN q = 1 .. Len(q)
  OBVIOUS
<1>2. \A n \in 0 .. Len(q) : f[n] = IF n = 0 THEN s ELSE CarryOne(p, q[n], apart, f[n - 1])
  BY DEF Run
<1> QED BY <1>1, <1>2

\* What holds of the first n states for the least n for which it fails of the
\* next: the induction on runs, for a set of the states for which it holds.
LEMMA RunInduction ==
    ASSUME NEW m \in Nat, NEW f, NEW Good,
           f[0] \in Good,
           \A n \in 1 .. m : f[n - 1] \in Good => f[n] \in Good
    PROVE  f[m] \in Good
<1> DEFINE Failing == {n \in 0 .. m : f[n] \notin Good}
<1> SUFFICES ASSUME Failing # {} PROVE FALSE
  OBVIOUS
<1>1. PICK n \in Failing : \A i \in Failing : <<i, n>> \notin OpToRel(<, Nat)
  <2>1. Failing \subseteq Nat
    OBVIOUS
  <2> QED BY <2>1, NatLessThanWellFounded, WFMin
<1>2. \A i, k \in Nat : i < k => <<i, k>> \in OpToRel(<, Nat)
  BY DEF OpToRel
<1>3. n # 0 /\ n - 1 \in 0 .. m /\ n - 1 < n
  OBVIOUS
<1>4. n - 1 \notin Failing
  <2> HIDE DEF Failing
  <2>1. n \in Nat /\ n - 1 \in Nat
    BY <1>3 DEF Failing
  <2> QED BY <1>1, <1>2, <1>3, <2>1
<1> QED BY <1>3, <1>4

LEMMA CarriedInduction ==
    ASSUME NEW p, NEW q \in Seq(Op), NEW apart, NEW s, NEW Good, s \in Good,
           \A t \in Good, i \in DOMAIN q : CarryOne(p, q[i], apart, t) \in Good
    PROVE  Carried(p, q, apart, s) \in Good
<1>1. PICK f : Run(f, p, q, apart, s) /\ Carried(p, q, apart, s) = f[Len(q)]
  BY CarriedIs
<1>2. /\ f[0] = s /\ Len(q) \in Nat
      /\ \A n \in 1 .. Len(q) : f[n] = CarryOne(p, q[n], apart, f[n - 1]) /\ n \in DOMAIN q
  BY <1>1, RunSteps
<1>3. \A n \in 1 .. Len(q) : f[n - 1] \in Good => f[n] \in Good
  BY <1>2
<1> QED BY <1>1, <1>2, <1>3, RunInduction

LEMMA CarriedType ==
    ASSUME NEW p \in Parents, NEW q \in Seq(Op), NEW apart, NEW s \in Database,
           NEW t, t = Carried(p, q, apart, s)
    PROVE  t # None => t \in Database /\ t.parent = s.parent
<1> DEFINE Good == {u \in Database \cup {None} : u # None => u.parent = s.parent}
<1>1. ASSUME NEW u \in Good, NEW i \in DOMAIN q PROVE CarryOne(p, q[i], apart, u) \in Good
  <2> DEFINE after == Effect(p, q[i], Filter(apart, q[i], u), u)
  <2>1. CASE u = None \/ ~Possible(p, q[i], u)
    BY <2>1 DEF CarryOne
  <2>2. CASE u # None /\ Possible(p, q[i], u)
    <3>1. CarryOne(p, q[i], apart, u) = after
      BY <2>2 DEF CarryOne
    <3>2. u \in Database /\ u.parent = s.parent /\ q[i] \in Op
      BY <2>2
    <3>3. after \in Database /\ after.parent = u.parent
      BY <2>2, <3>2, EffectIs
    <3> QED BY <3>1, <3>2, <3>3
  <2> QED BY <2>1, <2>2
<1>2. s \in Good
  OBVIOUS
<1>3. Carried(p, q, apart, s) \in Good
  <2> HIDE DEF Good
  <2> QED BY <1>1, <1>2, CarriedInduction
<1> QED BY <1>3

LEMMA OrdersIs ==
    ASSUME NEW q \in Seq(Op), NEW r \in Orders(q)
    PROVE  r \in Seq(Op) /\ \A i \in DOMAIN r : \E j \in DOMAIN q : r[i] = q[j]
<1>1. PICK f \in [DOMAIN q -> DOMAIN q] : r = [i \in DOMAIN q |-> q[f[i]]]
  BY DEF Orders
<1>2. \A i \in DOMAIN q : q[i] \in Op
  OBVIOUS
<1>3. Len(q) \in Nat /\ DOMAIN q = 1 .. Len(q)
  OBVIOUS
<1>4. r \in [1 .. Len(q) -> Op]
  BY <1>1, <1>2, <1>3
<1>5. r \in Seq(Op)
  BY <1>3, <1>4
<1> QED BY <1>1, <1>5

LEMMA OrdersOfIs ==
    ASSUME NEW q \in Seq(Op), NEW places \in SUBSET DOMAIN q, NEW r \in OrdersOf(q, places)
    PROVE  r \in Seq(Op)
<1>1. PICK m \in 0 .. Len(q) :
            r \in {[n \in 1 .. m |-> q[f[n]]] : f \in Bijection(1 .. m, places)}
  BY DEF OrdersOf
<1>2. PICK f \in [1 .. m -> places] : r = [n \in 1 .. m |-> q[f[n]]]
  BY <1>1 DEF Bijection, Injection
<1>3. m \in Nat /\ \A i \in DOMAIN q : q[i] \in Op
  OBVIOUS
<1>4. r \in [1 .. m -> Op]
  BY <1>2, <1>3
<1> QED BY <1>3, <1>4

-----------------------------------------------------------------------------
(* Type correctness: one lemma per step of a call. *)

\* what is known of a call that has not been made, and of one that has
CallOK ==
    IF pc = "idle"
    THEN view = db /\ payload = <<>> /\ checks = {} /\ connected = {} /\ outcome = "none"
    ELSE call \in Calls

LEMMA CallType ==
    ASSUME NEW c \in Calls
    PROVE  /\ c.op \in {"create", "update"} /\ c.parent \in Parents
           /\ c.val \in Vals \cup {None} /\ c.ops \in Seq(Op)
           /\ c.op = "create" => c.val # None /\ \A i \in DOMAIN c.ops : c.ops[i].kind \in CreateOps
BY NestedWriteAssumption

LEMMA SetParent ==
    ASSUME NEW s \in Database, NEW p \in Parents, NEW v \in Vals \cup {None}, NEW t,
           t = [s EXCEPT !.parent[p] = v]
    PROVE  t \in Database /\ t.child = s.child
BY DEF Database

LEMMA HeadTail ==
    ASSUME NEW q \in Seq(Op), q # <<>>
    PROVE  Head(q) \in Op /\ Tail(q) \in Seq(Op)
OBVIOUS

LEMMA Kinded ==
    ASSUME NEW op \in Op, NEW kind \in UpdateOps
    PROVE  /\ [op EXCEPT !.kind = kind] \in Op /\ [op EXCEPT !.kind = kind].kind = kind
           /\ [op EXCEPT !.kind = kind].child = op.child /\ [op EXCEPT !.kind = kind].val = op.val
BY DEF Op

LEMMA LeavesType ==
    ASSUME TypeOK, pc = "visit", todo # <<>>, NEW op \in Op, NEW more \in SUBSET CheckType,
           Leaves(op, more), CallOK
    PROVE  TypeOK' /\ CallOK'
<1>1. Append(payload, op) \in Seq(Op) /\ Tail(todo) \in Seq(Op)
  BY HeadTail DEF TypeOK
<1> QED BY <1>1 DEF TypeOK, Leaves, CallOK

LEMMA OverwritesIs ==
    ASSUME TypeOK, NEW op \in Op, Overwrites(op)
    PROVE  /\ payload' \in Seq(Op)
           /\ \/ payload' = Append(payload, op) /\ \A i \in DOMAIN payload : payload[i].kind # op.kind
              \/ /\ DOMAIN payload' = DOMAIN payload
                 /\ \A i \in DOMAIN payload :
                        payload'[i] = IF payload[i].kind = op.kind THEN op ELSE payload[i]
                 /\ \E i \in DOMAIN payload : payload[i].kind = op.kind
<1> DEFINE places == {i \in DOMAIN payload : payload[i].kind = op.kind}
           changed == [i \in DOMAIN payload |-> IF i \in places THEN op ELSE payload[i]]
<1>1. payload' = IF places = {} THEN Append(payload, op) ELSE changed
  BY DEF Overwrites
<1>2. payload \in Seq(Op) /\ Append(payload, op) \in Seq(Op)
  BY DEF TypeOK
<1>3. Len(payload) \in Nat /\ DOMAIN payload = 1 .. Len(payload) /\ \A i \in 1 .. Len(payload) : payload[i] \in Op
  BY <1>2
<1>4. changed \in Seq(Op)
  <2>1. changed \in [1 .. Len(payload) -> Op]
    BY <1>3
  <2> QED BY <1>3, <2>1
<1> QED BY <1>1, <1>2, <1>4

LEMMA OverwritesType ==
    ASSUME TypeOK, pc = "visit", todo # <<>>, NEW op \in Op, Overwrites(op), CallOK
    PROVE  TypeOK' /\ CallOK'
<1>1. Tail(todo) \in Seq(Op) /\ payload' \in Seq(Op)
  BY HeadTail, OverwritesIs DEF TypeOK
<1> QED BY <1>1 DEF TypeOK, Overwrites, CallOK

LEMMA RemovesType ==
    ASSUME TypeOK, pc = "visit", todo # <<>>, NEW s \in Database, NEW more \in SUBSET CheckType,
           Removes(s, more), CallOK
    PROVE  TypeOK' /\ CallOK'
<1>1. Tail(todo) \in Seq(Op)
  BY HeadTail DEF TypeOK
<1> QED BY <1>1 DEF TypeOK, Removes, CallOK

LEMMA EndsType ==
    ASSUME TypeOK, pc # "idle", CallOK, NEW how \in {"done", "refused", "failed"}, Ends(how)
    PROVE  TypeOK' /\ CallOK'
BY DEF TypeOK, Ends, CallOK

LEMMA CheckIs ==
    ASSUME TypeOK, NEW k \in Kids, NEW kind \in {"create", "postUpdate"}
    PROVE  /\ ChildCheck(k, kind) \in CheckType
           /\ [ChildCheck(k, kind) EXCEPT !.exact = TRUE] \in CheckType
BY DEF TypeOK, ChildCheck, CheckType

LEMMA CreatesType ==
    ASSUME TypeOK, CallOK, pc = "visit", todo # <<>>, NEW op \in Op, Creates(op)
    PROVE  TypeOK' /\ CallOK'
<1>1. CASE Exists(op.child, view)
  BY <1>1, EndsType DEF Creates
<1>2. CASE ~Exists(op.child, view)
  <2>1. Create(call.parent, op, view) \in Database /\ ChildCheck(op.child, "create") \in CheckType
    BY CreateIs, CallType, OpType, CheckIs DEF TypeOK, CallOK
  <2> QED BY <1>2, <2>1, RemovesType DEF Creates
<1> QED BY <1>1, <1>2

LEMMA LeavesUpdateType ==
    ASSUME TypeOK, CallOK, pc = "visit", todo # <<>>, NEW op \in Op, LeavesUpdate(op)
    PROVE  TypeOK' /\ CallOK'
<1>1. ChildCheck(op.child, "postUpdate") \in CheckType
  BY OpType, CheckIs
<1>2. CASE Allowed("update", op.child, view, view)
  BY <1>1, <1>2, LeavesType DEF LeavesUpdate
<1>3. CASE ~Allowed("update", op.child, view, view)
  BY <1>3, EndsType DEF LeavesUpdate
<1> QED BY <1>2, <1>3

LEMMA VisitType ==
    ASSUME TypeOK, CallOK, Visit
    PROVE  TypeOK' /\ CallOK'
<1> DEFINE op == Head(todo)
<1>a. /\ pc = "visit" /\ todo # <<>> /\ op \in Op /\ op.child \in Kids
      /\ call \in Calls /\ call.parent \in Parents /\ view \in Database
  BY HeadTail, OpType, CallType DEF Visit, TypeOK, CallOK
<1>b. [op EXCEPT !.kind = "update"] \in Op
  BY <1>a, Kinded DEF UpdateOps
<1> HIDE DEF op
<1> USE DEF At
<1>many. ASSUME op.kind \in {"updateMany", "deleteMany"}
         PROVE  /\ WriteMany(op, Selected(call.parent, op, view) \cap ByGuard(op, view), view) \in Database
                /\ {[ChildCheck(k, "postUpdate") EXCEPT !.exact = TRUE] :
                        k \in {c \in Selected(call.parent, op, view) : Admits("read", c, view)}}
                     \in SUBSET CheckType
  <2>1. \A k \in Selected(call.parent, op, view) : k \in Kids /\ Exists(k, view)
    BY DEF Selected, Under, Exists
  <2>2. WriteMany(op, Selected(call.parent, op, view) \cap ByGuard(op, view), view) \in Database
    BY <1>a, <1>many, <2>1, WriteManyIs
  <2> QED BY <2>1, <2>2, CheckIs
<1>1. CASE VisitCreate
  BY <1>a, <1>1, CreatesType DEF VisitCreate, op
<1>2. CASE VisitCreateMany
  BY <1>a, <1>2, CreatesType, RemovesType DEF VisitCreateMany, op
<1>3. CASE VisitUpdate
  BY <1>a, <1>3, LeavesUpdateType, EndsType DEF VisitUpdate, op
<1>4. CASE VisitUpsert
  BY <1>a, <1>b, <1>4, LeavesUpdateType, CreatesType DEF VisitUpsert, op
<1>5. CASE VisitConnect
  BY <1>a, <1>5, LeavesUpdateType DEF VisitConnect, op
<1>6. CASE VisitConnectOrCreate
  BY <1>a, <1>6, LeavesUpdateType, CreatesType DEF VisitConnectOrCreate, op
<1>7. CASE VisitDisconnect
  BY <1>a, <1>7, LeavesUpdateType, LeavesType DEF VisitDisconnect, op
<1>8. CASE VisitSet
  BY <1>a, <1>8, LeavesUpdateType DEF VisitSet, op
<1>9. CASE VisitDelete
  BY <1>a, <1>9, LeavesType, EndsType DEF VisitDelete, op
<1>10. CASE VisitUpdateMany
  BY <1>a, <1>10, <1>many, LeavesType, RemovesType DEF VisitUpdateMany, op
<1>11. CASE VisitDeleteMany
  BY <1>a, <1>11, <1>many, OverwritesType, RemovesType DEF VisitDeleteMany, op
<1>12. CASE VisitNewChild
  BY <1>a, <1>12, LeavesType DEF VisitNewChild, op
<1>13. CASE VisitNewConnect
  BY <1>a, <1>13, LeavesType, EndsType DEF VisitNewConnect, op
<1>14. CASE VisitNewConnectOrCreate
  <2> DEFINE there == Exists(op.child, view)
             left == [op EXCEPT !.kind = IF there THEN "connect" ELSE "create"]
  <2>1. left \in Op
    BY <1>a, Kinded DEF UpdateOps
  <2>2. Append(payload, left) \in Seq(Op) /\ Tail(todo) \in Seq(Op)
    BY <1>a, <2>1, HeadTail DEF TypeOK
  <2>3. CASE there /\ ~Allowed("update", op.child, view, view)
    BY <1>a, <1>14, <2>3, EndsType DEF VisitNewConnectOrCreate, op
  <2>4. CASE ~(there /\ ~Allowed("update", op.child, view, view))
    <3>1. /\ todo' = Tail(todo) /\ payload' = Append(payload, left)
          /\ connected' = (IF there THEN connected \cup {op.child} ELSE connected)
          /\ UNCHANGED <<policy, db, view, pc, call, checks, outcome>>
      BY <1>14, <2>4 DEF VisitNewConnectOrCreate, op
    <3>2. connected' \subseteq Kids
      BY <1>a, <3>1 DEF TypeOK
    <3> QED BY <1>a, <2>2, <3>1, <3>2 DEF TypeOK, CallOK
  <2> QED BY <2>3, <2>4
<1> QED BY <1>1, <1>2, <1>3, <1>4, <1>5, <1>6, <1>7, <1>8, <1>9, <1>10, <1>11, <1>12, <1>13,
           <1>14 DEF Visit

LEMMA WriteUpdateType ==
    ASSUME TypeOK, CallOK, WriteUpdate
    PROVE  TypeOK' /\ CallOK'
<1>1. /\ pc = "visit" /\ call \in Calls /\ call.parent \in Parents /\ view \in Database
      /\ payload \in Seq(Op) /\ call.val \in Vals \cup {None}
  BY CallType DEF WriteUpdate, TypeOK, CallOK
<1>2. PICK q \in Orders(payload) :
        LET s == Carried(call.parent, q, FALSE, view)
        IN IF s = None THEN Ends("failed")
           ELSE /\ view' = IF call.val = None THEN s
                           ELSE [s EXCEPT !.parent[call.parent] = call.val]
                /\ pc' = "check"
                /\ UNCHANGED <<policy, db, call, todo, payload, checks, connected, outcome>>
  BY DEF WriteUpdate
<1> DEFINE s == Carried(call.parent, q, FALSE, view)
<1>3. q \in Seq(Op)
  BY <1>1, OrdersIs
<1>4. s # None => s \in Database
  BY <1>1, <1>3, CarriedType
<1> HIDE DEF s
<1>5. CASE s = None
  BY <1>1, <1>2, <1>5, EndsType DEF s
<1>6. CASE s # None
  <2>1. /\ view' = IF call.val = None THEN s ELSE [s EXCEPT !.parent[call.parent] = call.val]
        /\ pc' = "check"
        /\ UNCHANGED <<policy, db, call, todo, payload, checks, connected, outcome>>
    BY <1>2, <1>6 DEF s
  <2>2. view' \in Database
    BY <1>1, <1>4, <1>6, <2>1, SetParent
  <2> QED BY <1>1, <2>1, <2>2 DEF TypeOK, CallOK
<1> QED BY <1>5, <1>6

LEMMA WriteCreateType ==
    ASSUME TypeOK, CallOK, WriteCreate
    PROVE  TypeOK' /\ CallOK'
<1>1. /\ pc = "visit" /\ call \in Calls /\ call.parent \in Parents /\ view \in Database
      /\ payload \in Seq(Op) /\ call.val \in Vals \cup {None}
  BY CallType DEF WriteCreate, TypeOK, CallOK
<1>2. CASE view.parent[call.parent] # None
  BY <1>1, <1>2, EndsType DEF WriteCreate
<1>3. CASE view.parent[call.parent] = None
  <2> DEFINE from == [view EXCEPT !.parent[call.parent] = call.val]
             after(q) == Carried(call.parent, q, FALSE, from)
  <2>0. from \in Database
    BY <1>1, SetParent
  <2> HIDE DEF from
  <2>1. PICK q \in Orders(payload), returned \in SUBSET Kids :
            IF after(q) = None THEN Ends("failed")
            ELSE /\ view' = after(q) /\ pc' = "check"
                 /\ checks' = checks \cup {ChildCheck(k, "create") : k \in returned}
                 /\ UNCHANGED <<policy, db, call, todo, payload, connected, outcome>>
    BY <1>3 DEF WriteCreate, from
  <2>2. after(q) # None => after(q) \in Database
    BY <1>1, <2>0, OrdersIs, CarriedType
  <2> HIDE DEF after
  <2>3. {ChildCheck(k, "create") : k \in returned} \subseteq CheckType
    BY CheckIs
  <2>4. CASE after(q) = None
    BY <1>1, <2>1, <2>4, EndsType
  <2>5. CASE after(q) # None
    BY <1>1, <2>1, <2>2, <2>3, <2>5 DEF TypeOK, CallOK
  <2> QED BY <2>4, <2>5
<1> QED BY <1>2, <1>3

LEMMA NestedTypeStep ==
    ASSUME TypeOK, CallOK, [Next]_vars
    PROVE  TypeOK' /\ CallOK'
<1>1. CASE Start
  <2>1. call' \in Calls /\ todo' \in Seq(Op) /\ pc' = "top"
    BY <1>1, CallType DEF Start
  <2> QED BY <1>1, <2>1 DEF TypeOK, CallOK, Start
<1>2. CASE UpdateTop
  <2>1. call \in Calls /\ call.parent \in Parents /\ pc = "top"
    BY <1>2, CallType DEF UpdateTop, CallOK
  <2>2. {ParentCheck(call.parent, "postUpdate")} \subseteq CheckType
    BY <2>1 DEF TypeOK, ParentCheck, CheckType
  <2> QED BY <1>2, <2>1, <2>2, EndsType DEF TypeOK, CallOK, UpdateTop
<1>3. CASE CreateTop
  <2>1. call \in Calls /\ call.parent \in Parents /\ pc = "top"
    BY <1>3, CallType DEF CreateTop, CallOK
  <2>2. {ParentCheck(call.parent, "create")} \subseteq CheckType
    BY <2>1 DEF TypeOK, ParentCheck, CheckType
  <2> QED BY <1>3, <2>1, <2>2, EndsType DEF TypeOK, CallOK, CreateTop
<1>4. CASE Visit
  BY <1>4, VisitType
<1>5. CASE WriteUpdate
  BY <1>5, WriteUpdateType
<1>6. CASE WriteCreate
  BY <1>6, WriteCreateType
<1>7. CASE RunPostWriteChecks
  <2>1. CASE Ends("refused")
    BY <1>7, <2>1, EndsType DEF RunPostWriteChecks
  <2>2. CASE ~Ends("refused")
    BY <1>7, <2>2 DEF TypeOK, CallOK, RunPostWriteChecks
  <2> QED BY <2>1, <2>2
<1>8. CASE UNCHANGED vars
  BY <1>8 DEF vars, TypeOK, CallOK
<1> QED BY <1>1, <1>2, <1>3, <1>4, <1>5, <1>6, <1>7, <1>8 DEF Next

\* The rows a call and its policy are about stay in shape through every step
\* of doUpdate and doCreate, in whatever order the database takes the writes.
THEOREM NestedTypeCorrect == Spec => []TypeOK
<1>1. Init => TypeOK /\ CallOK
  BY NestedWriteAssumption DEF Init, TypeOK, CallOK
<1>2. TypeOK /\ CallOK /\ [Next]_vars => TypeOK' /\ CallOK'
  BY NestedTypeStep
<1> QED BY <1>1, <1>2, PTL DEF Spec

\* The database changes where the transaction commits, and nowhere else.
LEMMA OnlyChecksCommit ==
    ASSUME Next, ~RunPostWriteChecks
    PROVE  db' = db
BY DEF Next, Start, UpdateTop, CreateTop, Visit, WriteUpdate, WriteCreate, Ends, Leaves, Overwrites,
    Removes, Creates, LeavesUpdate, VisitCreate, VisitCreateMany, VisitUpdate, VisitUpsert, VisitConnect,
    VisitConnectOrCreate, VisitDisconnect, VisitSet, VisitDelete, VisitUpdateMany, VisitDeleteMany,
    VisitNewChild, VisitNewConnect, VisitNewConnectOrCreate

-----------------------------------------------------------------------------
(* 3. What the compiled rules of the children say of a row. *)

LEMMA RulesAre ==
    ASSUME TypeOK
    PROVE  /\ \A kind \in {"create", "read", "update", "delete"} : Rules(kind) \in SUBSET Rule
           /\ Rules("postUpdate") = Rules("update")
<1>1. policy.child \in [create : SUBSET Rule, read : SUBSET Rule, update : SUBSET Rule,
                        delete : SUBSET Rule]
  BY DEF TypeOK, PolicyType
<1>2. /\ policy.child.create \in SUBSET Rule /\ policy.child.read \in SUBSET Rule
      /\ policy.child.update \in SUBSET Rule /\ policy.child.delete \in SUBSET Rule
  BY <1>1
<1>3. /\ policy.child["create"] \in SUBSET Rule /\ policy.child["read"] \in SUBSET Rule
      /\ policy.child["update"] \in SUBSET Rule /\ policy.child["delete"] \in SUBSET Rule
  BY <1>2
<1> QED BY <1>3 DEF Rules

LEMMA RuleShape ==
    ASSUME NEW r \in Rule
    PROVE  /\ r.literal <=> r.when = "true"
           /\ r.fields <=> r.when \notin {"true", "user"}
           /\ r.future <=> r.when = "willBeLow"
BY DEF Rule

LEMMA TruthShape ==
    ASSUME NEW R \in SUBSET Rule, NEW k, NEW pre, NEW now
    PROVE  /\ LiteralsHold(R, True(R, k, pre, now)) /\ FutureReadsFields(R)
           /\ {r \in True(R, k, pre, now) : ~r.fields} = {r \in Unconditional(R) : ~r.fields}
<1>1. \A r \in R : /\ r.literal => Holds(r, k, pre, now)
                   /\ r.future => r.fields
                   /\ ~r.fields => (Holds(r, k, pre, now) <=> r.when = "true")
  BY RuleShape DEF Holds
<1> QED BY <1>1 DEF LiteralsHold, FutureReadsFields, True, Unconditional

\* A guard that always lets writes pass lets this one pass.
LEMMA AlwaysGuards ==
    ASSUME NEW kind, NEW R \in SUBSET Rule, NEW k, NEW pre, NEW now, Always(kind, R)
    PROVE  Guard(kind, R, True(R, k, pre, now))
BY TruthShape, KnownBeforehand DEF Always

LEMMA AllowedPasses ==
    ASSUME TypeOK, NEW kind \in {"create", "update", "delete", "postUpdate"},
           NEW k, NEW pre, NEW now, Allowed(kind, k, pre, now)
    PROVE  Passes(kind, Rules(kind), True(Rules(kind), k, pre, now))
<1>1. Rules(kind) \in SUBSET Rule
  BY RulesAre
<1>2. CASE Always(kind, Rules(kind)) /\ ~HasChecker(kind, Rules(kind))
  BY <1>1, <1>2, AlwaysGuards DEF Passes
<1> QED BY <1>2 DEF Allowed

\* What holds of a child depends on its row, the parents and its new row.
LEMMA TrueDepends ==
    ASSUME NEW R, NEW k, NEW pre, NEW now, NEW before, NEW after,
           pre.child[k] = before.child[k], pre.parent = before.parent,
           now.child[k] = after.child[k]
    PROVE  True(R, k, pre, now) = True(R, k, before, after)
<1>1. OwnerVal(pre, k) = OwnerVal(before, k) /\ (Kept(k, pre) <=> Kept(k, before))
  BY DEF OwnerVal, Kept, ParentAllowed
<1>2. \A r \in R : Holds(r, k, pre, now) <=> Holds(r, k, before, after)
  BY <1>1 DEF Holds
<1> QED BY <1>2 DEF True

\* The check before an update does not depend on its result.
LEMMA EarlyGuard ==
    ASSUME NEW R, NEW T, NEW S, \A r \in R : ~r.future => (r \in T <=> r \in S)
    PROVE  Passes("update", R, T) <=> Passes("update", R, S)
<1> DEFINE A == RulesFor("update", Allows(R))
           D == RulesFor("update", Denies(R))
<1>1. \A r \in A \cup D : r \in R /\ ~r.future
  BY DEF RulesFor, HasFuture, Allows, Denies
<1> HIDE DEF A, D
<1>2. A \cap T = A \cap S /\ D \cap T = D \cap S
  BY <1>1
<1>3. /\ (A \ Cross(A)) \cap T = (A \ Cross(A)) \cap S
      /\ (D \ Cross(D)) \cap T = (D \ Cross(D)) \cap S
  BY <1>2
<1>4. QueryGuard("update", A, D, T) <=> QueryGuard("update", A, D, S)
  BY <1>3 DEF QueryGuard
<1> USE DEF A, D
<1>5. Guard("update", R, T) <=> Guard("update", R, S)
  BY <1>4 DEF Guard
<1>6. Checker("update", R, T) <=> Checker("update", R, S)
  BY <1>2 DEF Checker
<1> QED BY <1>5, <1>6 DEF Passes

LEMMA UpdateIgnoresResult ==
    ASSUME NEW R \in SUBSET Rule, NEW k, NEW pre, NEW now, NEW after
    PROVE  Passes("update", R, True(R, k, pre, now)) <=> Passes("update", R, True(R, k, pre, after))
<1>1. \A r \in R : ~r.future => (Holds(r, k, pre, now) <=> Holds(r, k, pre, after))
  BY RuleShape DEF Holds
<1> QED BY <1>1, EarlyGuard DEF True

LEMMA NothingIsLate ==
    ASSUME NEW R, NEW T, RulesFor("postUpdate", R) = {}
    PROVE  Passes("postUpdate", R, T)
<1>1. \A r \in R : ~r.future
  BY DEF RulesFor, HasFuture
<1>2. /\ RulesFor("postUpdate", Allows(R)) = {} /\ RulesFor("postUpdate", Denies(R)) = {}
      /\ RulesFor("postUpdate", Cross(Allows(R))) = {}
      /\ RulesFor("postUpdate", Cross(Denies(R))) = {}
  BY <1>1 DEF RulesFor, HasFuture, Allows, Denies, Cross
<1> QED BY <1>2 DEF Passes, Guard, HasChecker

\* The guard is all there is to it when no rule is for the checker.
LEMMA GuardSuffices ==
    ASSUME NEW kind, NEW R, NEW T, Cross(R) = {}, Guard(kind, R, T)
    PROVE  Passes(kind, R, T)
<1>1. Cross(Allows(R)) = {} /\ Cross(Denies(R)) = {}
  BY DEF Cross, Allows, Denies
<1> QED BY <1>1 DEF Passes, HasChecker, RulesFor

LEMMA PlainDecided ==
    ASSUME TypeOK, NEW kind \in {"create", "delete"}, NEW k, NEW s, NEW t,
           Passes(kind, Rules(kind), True(Rules(kind), k, s, t))
    PROVE  Decided(kind, k, s, t)
BY RulesAre, TruthShape, PlainPolicyIsSound DEF Decided, Plain

LEMMA UpdateDecided ==
    ASSUME TypeOK, Faithful(Rules("update")), NEW k, NEW s, NEW now, NEW t,
           Passes("update", Rules("update"), True(Rules("update"), k, s, now)),
           Passes("postUpdate", Rules("update"), True(Rules("update"), k, s, t))
    PROVE  Decided("update", k, s, t)
<1>1. Rules("update") \in SUBSET Rule
  BY RulesAre
<1>2. Passes("update", Rules("update"), True(Rules("update"), k, s, t))
  BY <1>1, UpdateIgnoresResult
<1> QED BY <1>1, <1>2, TruthShape, UpdatePolicyIsSound DEF Decided, Faithful, MayUpdate

-----------------------------------------------------------------------------
(* The invariant of a call: why each write that has been done, and each that *)
(* is left to the last statement, will stand the checks.                     *)

\* The child may be updated as the call found it; and it is checked once more.
PassesUpdate(k) == Passes("update", Rules("update"), True(Rules("update"), k, db, db))
Recorded(k, exact) ==
    \E c \in checks : /\ c.model = "child" /\ c.row = k /\ c.kind = "postUpdate"
                      /\ c.pre.child[k] = db.child[k] /\ c.pre.parent = db.parent
                      /\ exact => c.exact
\* Then the rules of update allow whatever becomes of it.
Cleared(k, exact) == PassesUpdate(k) /\ (PostRules = {} \/ Recorded(k, exact))
\* It will be checked as a row that was created.
Remade(k) == \E c \in checks : c.model = "child" /\ c.row = k /\ c.kind = "create"
\* It may be deleted, as the call found it or as a nested updateMany made it.
Removable(k) == MayGo(k, db) \/ (PassesUpdate(k) /\ Recorded(k, TRUE))
Replaced(k) == Removable(k) /\ Remade(k) /\ Asks({"deleteMany"})
\* Whatever becomes of the child is either allowed or recorded to be checked.
Licensed(k) == IF Exists(k, db) THEN Cleared(k, FALSE) \/ Replaced(k) ELSE Remade(k)

\* What the statements run at once have made of a child: a nested updateMany
\* has written its val, a create has made it, a nested deleteMany removed it.
Rewritten(k) ==
    /\ \E i \in DOMAIN call.ops : /\ call.ops[i].kind = "updateMany"
                                  /\ view.child[k] = Valued(db.child[k], call.ops[i].val)
    /\ Cleared(k, TRUE)
Seen(k) ==
    IF Exists(k, db)
    THEN \/ view.child[k] = db.child[k]
         \/ Rewritten(k)
         \/ ~Exists(k, view) /\ Removable(k) /\ Asks({"deleteMany"})
         \/ Exists(k, view) /\ Replaced(k)
    ELSE Exists(k, view) => Remade(k)
\* A write left in the payload that comes upon a missing child fails the call.
IfThere(k) == Exists(k, view) => Licensed(k)

LeftKinds == {"update", "connect", "connectOrCreate", "disconnect", "set", "delete", "updateMany", "deleteMany"}
\* what is known of child k when op stays in the payload
Left(op, k) ==
    /\ op.kind \in LeftKinds
    /\ op.kind \in {"update", "connectOrCreate"} /\ op.child = k => Licensed(k)
    /\ op.kind \in {"connect", "set"} /\ op.child = k => IfThere(k)
    /\ op.kind = "disconnect" /\ op.child = k => IfThere(k) \/ ~Under(call.parent, k, db)
    /\ op.kind = "delete" /\ op.child = k /\ Exists(k, db) => Removable(k)
    /\ op.kind = "updateMany" /\ Always("update", Rules("update"))
         /\ Under(call.parent, k, db) /\ db.child[k].val # op.val => IfThere(k)
    /\ op.kind \in {"set", "deleteMany"} => Asks({op.kind})
\* The callback of a set has looked at k, or is yet to come.
SetSeen(k) ==
    AsksFor(k, {"set"}) =>
        IfThere(k) \/ \E op \in Range(todo) : op.kind = "set" /\ op.child = k
\* Before the last statement of an update,
UpdateInv ==
    /\ view.parent = db.parent
    /\ Range(todo) \subseteq Range(call.ops)
    /\ \A k \in Kids : ~Unchecked(k) =>
        /\ Seen(k) /\ SetSeen(k)
        /\ \A op \in Range(payload) : Left(op, k)
\* of a create, whose callbacks write nothing,
NewLeft(op) ==
    /\ op.kind \in {"create", "createMany", "connect"}
    /\ op.kind = "connect" =>
        /\ Exists(op.child, db) /\ Allowed("update", op.child, db, db)
        /\ AsksFor(op.child, {"connect", "connectOrCreate"})
CreateInv ==
    /\ view = db /\ \A k \in connected : Exists(k, db)
    /\ Range(todo) \subseteq Range(call.ops)
    /\ \A op \in Range(payload) : NewLeft(op)
\* and after it: what has changed was allowed or is among the checks.
CheckInv ==
    \A k \in Kids : ~Unchecked(k) =>
        /\ Exists(k, db) /\ ~Exists(k, view) => Removable(k)
        /\ Exists(k, view) /\ view.child[k] # db.child[k] => Licensed(k)
WriteInv ==
    /\ policy \in Policies
    /\ pc = "top" => view = db /\ payload = <<>> /\ todo = call.ops /\ connected = {}
    /\ pc = "visit" => IF call.op = "update" THEN UpdateInv ELSE CreateInv
    /\ pc = "check" => CheckInv

LEMMA SameRules ==
    ASSUME policy' = policy
    PROVE  /\ \A kind : Rules(kind)' = Rules(kind)
           /\ \A R, k, s, t : True(R, k, s, t)' = True(R, k, s, t)
<1>1. \A kind : Rules(kind)' = Rules(kind)
  BY DEF Rules
<1>2. \A r, k, s, t : Holds(r, k, s, t)' <=> Holds(r, k, s, t)
  BY DEF Holds, OwnerVal, Kept, ParentAllowed, ParentRules, ParentTrue, ParentHolds
<1>3. \A R, k, s, t : True(R, k, s, t)' = True(R, k, s, t)
  BY <1>2 DEF True
<1> QED BY <1>1, <1>3

LEMMA SameDecisions ==
    ASSUME policy' = policy, db' = db, call' = call, NEW k
    PROVE  /\ PassesUpdate(k)' <=> PassesUpdate(k)
           /\ MayGo(k, db)' <=> MayGo(k, db)
           /\ Unchecked(k)' <=> Unchecked(k)
           /\ PostRules' = PostRules
<1>1. PassesUpdate(k)' <=> PassesUpdate(k)
  BY SameRules DEF PassesUpdate
<1>2. MayGo(k, db)' <=> MayGo(k, db)
  BY SameRules DEF MayGo, Decided
<1>3. PostRules' = PostRules
  BY SameRules DEF PostRules
<1>4. Unchecked(k)' <=> Unchecked(k)
  BY SameRules, <1>3 DEF Unchecked, Admits, Asks, AsksFor
<1> QED BY <1>1, <1>2, <1>3, <1>4

LEMMA ChecksGrow ==
    ASSUME policy' = policy, db' = db, call' = call, checks \subseteq checks', NEW k
    PROVE  /\ \A e \in BOOLEAN : /\ Recorded(k, e) => Recorded(k, e)'
                                 /\ Cleared(k, e) => Cleared(k, e)'
           /\ Remade(k) => Remade(k)'
           /\ Removable(k) => Removable(k)'
           /\ Replaced(k) => Replaced(k)'
           /\ Licensed(k) => Licensed(k)'
<1>1. \A e : Recorded(k, e) => Recorded(k, e)'
  BY DEF Recorded
<1>2. \A e : Cleared(k, e) => Cleared(k, e)'
  BY <1>1, SameDecisions DEF Cleared
<1>3. Remade(k) => Remade(k)'
  BY DEF Remade
<1>4. Removable(k) => Removable(k)'
  BY <1>1, SameDecisions DEF Removable
<1>5. Replaced(k) => Replaced(k)'
  BY <1>3, <1>4 DEF Replaced, Asks
<1>6. Licensed(k) => Licensed(k)'
  BY <1>2, <1>3, <1>5 DEF Licensed, Exists
<1> QED BY <1>1, <1>2, <1>3, <1>4, <1>5, <1>6

LEMMA ExactClears ==
    ASSUME NEW k, Cleared(k, TRUE)
    PROVE  Cleared(k, FALSE)
BY DEF Cleared, Recorded

LEMMA RewrittenExists ==
    ASSUME TypeOK, call \in Calls, NEW k \in Kids, Exists(k, db), Rewritten(k)
    PROVE  Exists(k, view)
<1>1. PICK i \in DOMAIN call.ops : view.child[k] = Valued(db.child[k], call.ops[i].val)
  BY DEF Rewritten
<1>2. call.ops[i].val \in Vals
  BY CallType, OpType
<1>3. db.child[k] \in Row
  BY DatabaseType DEF TypeOK, Exists
<1> QED BY <1>1, <1>2, <1>3, ValuedIs, RowType DEF Exists

\* A callback that looks at a child's rows sees what was there or what the call
\* has been licensed to make of it.
LEMMA UpdateIsLicensed ==
    ASSUME TypeOK, call \in Calls, view.parent = db.parent, NEW k \in Kids, Seen(k),
           Exists(k, view), Allowed("update", k, view, view),
           policy' = policy, db' = db, call' = call, checks \subseteq checks',
           ChildCheck(k, "postUpdate") \in checks'
    PROVE  Licensed(k)'
<1>0. Licensed(k) => Licensed(k)'
  BY ChecksGrow
<1>1. CASE ~Exists(k, db)
  BY <1>0, <1>1 DEF Seen, Licensed
<1>2. CASE Exists(k, db) /\ view.child[k] = db.child[k]
  <2>1. PassesUpdate(k)
    BY <1>2, AllowedPasses, TrueDepends DEF PassesUpdate
  <2>2. Recorded(k, FALSE)'
    <3> DEFINE c == ChildCheck(k, "postUpdate")
    <3>1. c.model = "child" /\ c.row = k /\ c.kind = "postUpdate" /\ c.pre = view
      BY DEF ChildCheck
    <3> QED BY <1>2, <3>1 DEF Recorded
  <2>3. Cleared(k, FALSE)'
    BY <2>1, <2>2, SameDecisions DEF Cleared
  <2> QED BY <1>2, <2>3 DEF Licensed, Exists
<1>3. CASE Exists(k, db) /\ Rewritten(k)
  <2>1. Licensed(k)
    BY <1>3, ExactClears DEF Rewritten, Licensed
  <2> QED BY <1>0, <2>1
<1>4. CASE Exists(k, db) /\ Replaced(k)
  BY <1>0, <1>4 DEF Licensed
<1> QED BY <1>1, <1>2, <1>3, <1>4 DEF Seen

\* What may be deleted as it has become might be deleted in the first place,
\* or had an update that made it so.
LEMMA DeleteIsLicensed ==
    ASSUME TypeOK, call \in Calls, Faithful(Rules("update")),
           view.parent = db.parent, NEW k \in Kids, Seen(k), Exists(k, db),
           Exists(k, view), Passes("delete", Rules("delete"), True(Rules("delete"), k, view, view))
    PROVE  Removable(k)
<1>1. CASE view.child[k] = db.child[k]
  <2>1. True(Rules("delete"), k, view, view) = True(Rules("delete"), k, db, db)
    BY <1>1, TrueDepends
  <2>2. Decided("delete", k, db, db)
    BY <2>1, PlainDecided
  <2> QED BY <2>2 DEF Removable, MayGo
<1>2. CASE Rewritten(k) /\ Recorded(k, TRUE)
  BY <1>2 DEF Rewritten, Cleared, Removable
<1>3. CASE Rewritten(k) /\ PostRules = {}
  <2>1. PICK i \in DOMAIN call.ops : /\ call.ops[i].kind = "updateMany"
                                     /\ view.child[k] = Valued(db.child[k], call.ops[i].val)
    BY <1>3 DEF Rewritten
  <2> DEFINE op == [call.ops[i] EXCEPT !.child = k]
             t == Write(op, db)
  <2>2. op \in Op /\ op.child = k /\ op.val = call.ops[i].val
    <3>1. call.ops[i] \in Op
      BY CallType
    <3> QED BY <3>1 DEF Op
  <2> HIDE DEF op
  <2>3. t.parent = view.parent /\ t.child[k] = view.child[k]
    BY <2>1, <2>2, WriteIs DEF TypeOK
  <2> HIDE DEF t
  <2>4. Decided("update", k, db, t)
    <3>1. PassesUpdate(k)
      BY <1>3 DEF Rewritten, Cleared
    <3>2. Passes("postUpdate", Rules("update"), True(Rules("update"), k, db, t))
      BY <1>3, NothingIsLate DEF PostRules
    <3> QED BY <3>1, <3>2, UpdateDecided DEF PassesUpdate
  <2>5. Decided("delete", k, t, t)
    <3>1. True(Rules("delete"), k, view, view) = True(Rules("delete"), k, t, t)
      BY <2>3, TrueDepends
    <3> QED BY <3>1, PlainDecided
  <2> QED BY <2>1, <2>4, <2>5 DEF Removable, MayGo, op, t
<1>4. CASE Replaced(k)
  BY <1>4 DEF Replaced
<1> QED BY <1>1, <1>2, <1>3, <1>4 DEF Seen, Rewritten, Cleared

\* The rows a nested updateMany looks at: every change of them is recorded.
LEMMA ManyIsCleared ==
    ASSUME TypeOK, view.parent = db.parent, NEW k \in Kids, Exists(k, db),
           view.child[k] = db.child[k], ~Unchecked(k), Asks({"updateMany"}),
           Guard("update", Rules("update"), True(Rules("update"), k, db, db)),
           policy' = policy, db' = db, call' = call,
           Admits("read", k, view) => [ChildCheck(k, "postUpdate") EXCEPT !.exact = TRUE] \in checks'
    PROVE  Cleared(k, TRUE)'
<1>1. Cross(Rules("update")) = {} /\ (PostRules = {} \/ Admits("read", k, db))
  BY DEF Unchecked
<1>2. PassesUpdate(k)
  BY <1>1, GuardSuffices DEF PassesUpdate
<1>3. CASE PostRules = {}
  BY <1>2, <1>3, SameDecisions DEF Cleared
<1>4. CASE Admits("read", k, db)
  <2>1. Admits("read", k, view)
    BY <1>4, TrueDepends DEF Admits
  <2> DEFINE c == [ChildCheck(k, "postUpdate") EXCEPT !.exact = TRUE]
  <2>2. /\ c.model = "child" /\ c.row = k /\ c.kind = "postUpdate" /\ c.pre = view
        /\ c.exact = TRUE
    BY DEF ChildCheck
  <2>3. c \in checks'
    BY <2>1
  <2> HIDE DEF c
  <2>4. Recorded(k, TRUE)'
    BY <2>2, <2>3 DEF Recorded
  <2> QED BY <1>2, <2>4, SameDecisions DEF Cleared
<1> QED BY <1>1, <1>3, <1>4

\* Without a change of the child, what is seen of it stays explained.
LEMMA SeenStays ==
    ASSUME policy' = policy, db' = db, call' = call, checks \subseteq checks', NEW k,
           view'.child[k] = view.child[k], Seen(k)
    PROVE  Seen(k)'
<1>1. /\ Cleared(k, TRUE) => Cleared(k, TRUE)'
      /\ Remade(k) => Remade(k)'
      /\ Removable(k) => Removable(k)'
      /\ Replaced(k) => Replaced(k)'
  BY ChecksGrow
<1>2. Rewritten(k) => Rewritten(k)'
  BY <1>1 DEF Rewritten
<1>3. Asks({"deleteMany"}) <=> Asks({"deleteMany"})'
  BY DEF Asks
<1> QED BY <1>1, <1>2, <1>3 DEF Seen, Exists

LEMMA LeftStays ==
    ASSUME policy' = policy, db' = db, call' = call, checks \subseteq checks', NEW k, NEW op,
           ~Exists(k, view) /\ Exists(k, view') => Licensed(k)', Left(op, k)
    PROVE  Left(op, k)'
<1>1. (Licensed(k) => Licensed(k)') /\ (Removable(k) => Removable(k)')
  BY ChecksGrow
<1>2. IfThere(k) => IfThere(k)'
  BY <1>1 DEF IfThere
<1>3. Rules("update")' = Rules("update")
  BY SameRules
<1> QED BY <1>1, <1>2, <1>3 DEF Left, Under, Exists, Asks, LeftKinds

LEMMA RangeTail ==
    ASSUME NEW q \in Seq(Op), q # <<>>
    PROVE  Range(q) = {Head(q)} \cup Range(Tail(q))
<1>1. \A i \in DOMAIN Tail(q) : i + 1 \in DOMAIN q /\ Tail(q)[i] = q[i + 1]
  OBVIOUS
<1>2. \A i \in DOMAIN q : i # 1 => i - 1 \in DOMAIN Tail(q) /\ Tail(q)[i - 1] = q[i]
  OBVIOUS
<1>3. 1 \in DOMAIN q /\ Head(q) = q[1]
  OBVIOUS
<1> QED BY <1>1, <1>2, <1>3 DEF Range

LEMMA RangeAppend ==
    ASSUME NEW q \in Seq(Op), NEW op
    PROVE  Range(Append(q, op)) = Range(q) \cup {op}
<1>1. DOMAIN q = 1 .. Len(q) /\ Len(q) \in Nat
  OBVIOUS
<1>2. DOMAIN Append(q, op) = 1 .. Len(q) + 1
  OBVIOUS
<1>3. \A i \in 1 .. Len(q) : Append(q, op)[i] = q[i]
  OBVIOUS
<1>4. Append(q, op)[Len(q) + 1] = op
  OBVIOUS
<1> QED BY <1>1, <1>2, <1>3, <1>4 DEF Range

LEMMA RangeOverwrites ==
    ASSUME TypeOK, NEW op \in Op, Overwrites(op)
    PROVE  Range(payload') \subseteq Range(payload) \cup {op}
<1>1. payload \in Seq(Op)
  BY DEF TypeOK
<1>2. CASE payload' = Append(payload, op)
  BY <1>1, <1>2, RangeAppend
<1>3. CASE /\ DOMAIN payload' = DOMAIN payload
           /\ \A i \in DOMAIN payload :
                  payload'[i] = IF payload[i].kind = op.kind THEN op ELSE payload[i]
  BY <1>3 DEF Range
<1> QED BY <1>2, <1>3, OverwritesIs

\* What a callback must do to keep the invariant.
LEMMA Advance ==
    ASSUME TypeOK, UpdateInv, todo # <<>>,
           policy' = policy, db' = db, call' = call, checks \subseteq checks', todo' = Tail(todo),
           view'.parent = view.parent,
           \/ payload' = payload
           \/ \E op : /\ Range(payload') \subseteq Range(payload) \cup {op}
                      /\ \A k \in Kids : ~Unchecked(k) => Left(op, k)',
           \A k \in Kids : ~Unchecked(k) =>
                /\ Seen(k)'
                /\ ~Exists(k, view) /\ Exists(k, view') => Licensed(k)'
                /\ Head(todo).kind = "set" /\ Head(todo).child = k => IfThere(k)'
    PROVE  UpdateInv'
<1>1. Range(todo) = {Head(todo)} \cup Range(todo')
  BY RangeTail DEF TypeOK
<1>2. view'.parent = db'.parent /\ Range(todo') \subseteq Range(call'.ops)
  BY <1>1 DEF UpdateInv
<1>3. ASSUME NEW k \in Kids, ~Unchecked(k)
      PROVE  Seen(k)' /\ SetSeen(k)' /\ \A op \in Range(payload') : Left(op, k)'
  <2>1. /\ Seen(k)'
        /\ ~Exists(k, view) /\ Exists(k, view') => Licensed(k)'
        /\ Head(todo).kind = "set" /\ Head(todo).child = k => IfThere(k)'
    BY <1>3
  <2>2. SetSeen(k) /\ \A op \in Range(payload) : Left(op, k)
    BY <1>3 DEF UpdateInv
  <2>3. IfThere(k) => IfThere(k)'
    <3>1. Licensed(k) => Licensed(k)'
      BY ChecksGrow
    <3> QED BY <2>1, <3>1 DEF IfThere
  <2>4. SetSeen(k)'
    BY <1>1, <2>1, <2>2, <2>3 DEF SetSeen, AsksFor
  <2>5. ASSUME NEW op \in Range(payload) PROVE Left(op, k)'
    BY <2>1, <2>2, LeftStays
  <2>6. CASE payload' = payload
    BY <2>1, <2>4, <2>5, <2>6
  <2>7. CASE payload' # payload
    <3>1. PICK new : /\ Range(payload') \subseteq Range(payload) \cup {new}
                     /\ \A c \in Kids : ~Unchecked(c) => Left(new, c)'
      BY <2>7
    <3>2. Left(new, k)'
      BY <1>3, <3>1
    <3> QED BY <2>1, <2>4, <2>5, <3>1, <3>2
  <2> QED BY <2>6, <2>7
<1>4. ASSUME NEW k \in Kids, ~Unchecked(k)'
      PROVE  ~Unchecked(k)
  BY <1>4, SameDecisions
<1> QED BY <1>2, <1>3, <1>4 DEF UpdateInv

-----------------------------------------------------------------------------
(* The callbacks of an update. *)

\* where a callback of an update finds a call
InUpdate ==
    /\ TypeOK /\ WriteInv /\ pc = "visit" /\ call.op = "update" /\ call \in Calls /\ todo # <<>>
    /\ Faithful(Rules("update"))

LEMMA EndedInv ==
    ASSUME WriteInv, NEW how, Ends(how)
    PROVE  WriteInv'
BY DEF WriteInv, Ends

LEMMA HeadAsked ==
    ASSUME InUpdate
    PROVE  /\ UpdateInv /\ Head(todo) \in Op /\ Asks({Head(todo).kind})
           /\ policy \in Policies /\ view.parent = db.parent
<1>1. UpdateInv /\ policy \in Policies
  BY DEF InUpdate, WriteInv
<1>2. todo \in Seq(Op) /\ todo # <<>>
  BY DEF InUpdate, TypeOK
<1>3. Head(todo) \in Range(call.ops)
  BY <1>1, <1>2, RangeTail DEF UpdateInv
<1>4. Asks({Head(todo).kind})
  BY <1>3 DEF Asks, Range
<1> QED BY <1>1, <1>2, <1>4, HeadTail DEF UpdateInv

LEMMA LeavesInv ==
    ASSUME InUpdate, NEW op, NEW more, Leaves(op, more),
           \A k \in Kids : ~Unchecked(k) =>
                /\ Left(op, k)'
                /\ Head(todo).kind = "set" /\ Head(todo).child = k => IfThere(k)'
    PROVE  WriteInv'
<1>1. /\ policy' = policy /\ db' = db /\ call' = call /\ view' = view /\ checks \subseteq checks'
      /\ todo' = Tail(todo) /\ payload' = Append(payload, op) /\ pc' = pc
  BY DEF Leaves
<1>2. ASSUME NEW k \in Kids, ~Unchecked(k) PROVE Seen(k)'
  BY <1>1, <1>2, HeadAsked, SeenStays DEF UpdateInv
<1>3. Range(payload') \subseteq Range(payload) \cup {op}
  BY <1>1, RangeAppend DEF InUpdate, TypeOK
<1>4. UpdateInv'
  BY <1>1, <1>2, <1>3, HeadAsked, Advance DEF InUpdate
<1> QED BY <1>1, <1>4, HeadAsked DEF WriteInv, InUpdate

LEMMA OverwritesInv ==
    ASSUME InUpdate, NEW op \in Op, Overwrites(op), Head(todo).kind # "set",
           \A k \in Kids : Left(op, k)'
    PROVE  WriteInv'
<1>1. /\ policy' = policy /\ db' = db /\ call' = call /\ view' = view /\ checks' = checks
      /\ todo' = Tail(todo) /\ pc' = pc
  BY DEF Overwrites
<1>2. Range(payload') \subseteq Range(payload) \cup {op}
  BY RangeOverwrites DEF InUpdate
<1>3. ASSUME NEW k \in Kids, ~Unchecked(k) PROVE Seen(k)'
  BY <1>1, <1>3, HeadAsked, SeenStays DEF UpdateInv
<1>4. UpdateInv'
  BY <1>1, <1>2, <1>3, HeadAsked, Advance DEF InUpdate
<1> QED BY <1>1, <1>4, HeadAsked DEF WriteInv, InUpdate

LEMMA LeavesUpdateInv ==
    ASSUME InUpdate, NEW op \in Op, LeavesUpdate(op), op.child = Head(todo).child,
           op.kind \in {"update", "connect", "connectOrCreate", "disconnect", "set"},
           op.kind \in {"update", "connectOrCreate", "disconnect"} => Exists(op.child, view),
           op.kind = "set" => Head(todo).kind = "set"
    PROVE  WriteInv'
<1>1. CASE ~Allowed("update", op.child, view, view)
  BY <1>1, EndedInv DEF LeavesUpdate, InUpdate
<1>2. CASE Allowed("update", op.child, view, view)
  <2> DEFINE more == {ChildCheck(op.child, "postUpdate")}
  <2>1. Leaves(op, more)
    BY <1>2 DEF LeavesUpdate
  <2>2. /\ policy' = policy /\ db' = db /\ call' = call /\ view' = view
        /\ checks \subseteq checks' /\ ChildCheck(op.child, "postUpdate") \in checks'
    BY <2>1 DEF Leaves
  <2>3. op.child \in Kids
    BY OpType
  <2>4. ASSUME ~Unchecked(op.child) PROVE IfThere(op.child)'
    <3>1. CASE ~Exists(op.child, view)
      BY <2>2, <3>1 DEF IfThere, Exists
    <3>2. CASE Exists(op.child, view)
      <4>1. Seen(op.child)
        BY <2>3, <2>4, HeadAsked DEF UpdateInv
      <4>2. Licensed(op.child)'
        BY <1>2, <2>2, <2>3, <3>2, <4>1, HeadAsked, UpdateIsLicensed DEF InUpdate
      <4> QED BY <4>2 DEF IfThere
    <3> QED BY <3>1, <3>2
  <2>5. ASSUME NEW k \in Kids, ~Unchecked(k) PROVE Left(op, k)'
    <3>1. op.kind = "set" => Asks({op.kind})'
      BY <2>2, HeadAsked DEF Asks
    <3>2. op.child = k /\ op.kind \in {"update", "connectOrCreate", "disconnect"} => Licensed(k)'
      BY <2>2, <2>4, <2>5 DEF IfThere, Exists
    <3>3. op.child = k => IfThere(k)'
      BY <2>4, <2>5
    <3> QED BY <3>1, <3>2, <3>3 DEF Left, LeftKinds
  <2> HIDE DEF more
  <2> QED BY <2>1, <2>4, <2>5, LeavesInv
<1> QED BY <1>1, <1>2

LEMMA CreatesInv ==
    ASSUME InUpdate, NEW op, op = Head(todo), Creates(op), op.kind # "set"
    PROVE  WriteInv'
<1> DEFINE c == op.child
           check == ChildCheck(c, "create")
<1>1. CASE Exists(c, view)
  BY <1>1, EndedInv DEF Creates, InUpdate
<1>2. CASE ~Exists(c, view)
  <2>1. /\ policy' = policy /\ db' = db /\ call' = call /\ pc' = pc /\ payload' = payload
        /\ checks' = checks \cup {check}
        /\ view' = Create(call.parent, op, view) /\ todo' = Tail(todo)
    BY <1>2 DEF Creates, Removes
  <2>2. op \in Op /\ c \in Kids /\ view \in Database /\ call.parent \in Parents
    BY HeadAsked, OpType, CallType DEF InUpdate, TypeOK
  <2> HIDE DEF check
  <2>3. /\ view'.parent = view.parent
        /\ \A k \in Kids : k # c => view'.child[k] = view.child[k]
        /\ Exists(c, view')
    <3>1. /\ view'.parent = view.parent
          /\ \A k \in Kids : view'.child[k] = IF k = c THEN Made(call.parent, op) ELSE view.child[k]
          /\ Made(call.parent, op) \in Row
      BY <2>1, <2>2, CreateIs
    <3> QED BY <2>2, <3>1, RowType DEF Exists
  <2>4. Remade(c)'
    <3>1. check.model = "child" /\ check.row = c /\ check.kind = "create"
      BY DEF check, ChildCheck
    <3> QED BY <2>1, <3>1 DEF Remade
  <2>5. ASSUME NEW k \in Kids, ~Unchecked(k)
        PROVE  Seen(k)' /\ (~Exists(k, view) /\ Exists(k, view') => Licensed(k)')
    <3>1. Seen(k) /\ checks \subseteq checks'
      BY <2>1, <2>5, HeadAsked DEF UpdateInv
    <3>2. CASE k # c
      <4>1. view'.child[k] = view.child[k]
        BY <2>3, <3>2
      <4> QED BY <2>1, <3>1, <4>1, SeenStays DEF Exists
    <3>3. CASE k = c /\ ~Exists(k, db)
      BY <2>1, <2>4, <3>3 DEF Seen, Licensed, Exists
    <3>4. CASE k = c /\ Exists(k, db)
      <4>1. ~Rewritten(k)
        BY <1>2, <3>4, RewrittenExists DEF InUpdate
      <4>2. Removable(k) /\ Asks({"deleteMany"})
        BY <1>2, <3>1, <3>4, <4>1 DEF Seen, Exists
      <4>3. Removable(k)'
        BY <2>1, <3>1, <4>2, ChecksGrow
      <4>4. Replaced(k)'
        BY <2>1, <2>4, <3>4, <4>2, <4>3 DEF Replaced, Asks
      <4>5. Exists(k, view') /\ Exists(k, db')
        BY <2>1, <2>3, <3>4
      <4> QED BY <4>4, <4>5 DEF Seen, Licensed, Exists
    <3> QED BY <3>2, <3>3, <3>4
  <2>6. UpdateInv'
    <3>1. checks \subseteq checks'
      BY <2>1
    <3>2. Head(todo).kind # "set" /\ todo # <<>> /\ TypeOK
      BY DEF InUpdate
    <3> QED BY <2>1, <2>3, <2>5, <3>1, <3>2, HeadAsked, Advance
  <2> QED BY <2>1, <2>6, HeadAsked DEF WriteInv, InUpdate
<1> QED BY <1>1, <1>2

LEMMA UpdateManyInv ==
    ASSUME InUpdate, NEW op, op = Head(todo), op.kind = "updateMany", VisitUpdateMany
    PROVE  WriteInv'
<1> DEFINE p == call.parent
           exactly(k) == [ChildCheck(k, "postUpdate") EXCEPT !.exact = TRUE]
           more == {exactly(k) : k \in {c \in Selected(p, op, view) : Admits("read", c, view)}}
           chosen == Selected(p, op, view) \cap ByGuard(op, view)
<1>1. IF SameForEveryRow("update", Rules("update")) THEN Leaves(op, more)
      ELSE Removes(WriteMany(op, chosen, view), more)
  BY DEF VisitUpdateMany
<1>2. /\ policy' = policy /\ db' = db /\ call' = call /\ checks \subseteq checks'
      /\ \A k \in Selected(p, op, view) : Admits("read", k, view) => exactly(k) \in checks'
  BY <1>1 DEF Leaves, Removes
<1>3. /\ op \in Op /\ Asks({"updateMany"}) /\ UpdateInv /\ view.parent = db.parent
      /\ TypeOK /\ view \in Database /\ call \in Calls
  BY HeadAsked DEF InUpdate, TypeOK
<1> HIDE DEF more
\* a selected child whose row is still the one the call found
<1>4. ASSUME NEW k \in Selected(p, op, view), ~Unchecked(k), Exists(k, db),
             view.child[k] = db.child[k],
             Guard("update", Rules("update"), True(Rules("update"), k, db, db))
      PROVE  Cleared(k, TRUE)'
  <2>1. k \in Kids
    BY DEF Selected
  <2>2. Admits("read", k, view) => exactly(k) \in checks'
    BY <1>2
  <2> QED BY <1>2, <1>3, <1>4, <2>1, <2>2, ManyIsCleared
<1>5. CASE SameForEveryRow("update", Rules("update"))
  <2>1. Leaves(op, more)
    BY <1>1, <1>5
  <2>2. view' = view
    BY <2>1 DEF Leaves
  <2>3. ASSUME NEW k \in Kids, ~Unchecked(k) PROVE Left(op, k)'
    <3>1. ASSUME Always("update", Rules("update")), Under(p, k, db), db.child[k].val # op.val,
                 Exists(k, view)
          PROVE  Licensed(k)'
      <4>1. Seen(k) /\ Exists(k, db)
        BY <1>3, <2>3, <3>1 DEF UpdateInv, Under, Exists
      <4>2. CASE view.child[k] = db.child[k]
        <5>1. k \in Selected(p, op, view)
          BY <3>1, <4>2, <2>3 DEF Selected, Under
        <5>2. Guard("update", Rules("update"), True(Rules("update"), k, db, db))
          BY <1>3, <3>1, RulesAre, AlwaysGuards
        <5>3. Cleared(k, TRUE)'
          BY <1>4, <2>3, <4>1, <4>2, <5>1, <5>2
        <5>4. Cleared(k, FALSE)'
          BY <5>3 DEF Cleared, Recorded
        <5> QED BY <1>2, <4>1, <5>4 DEF Licensed, Exists
      <4>3. CASE Rewritten(k) \/ Replaced(k)
        <5>1. Licensed(k)
          BY <4>1, <4>3, ExactClears DEF Licensed, Rewritten
        <5> QED BY <1>2, <5>1, ChecksGrow
      <4> QED BY <3>1, <4>1, <4>2, <4>3 DEF Seen
    <3>2. Rules("update")' = Rules("update")
      BY <1>2, SameRules
    <3> QED BY <1>2, <2>2, <3>1, <3>2 DEF Left, LeftKinds, IfThere, Under, Exists
  <2> QED BY <2>1, <2>3, LeavesInv
<1>6. CASE ~SameForEveryRow("update", Rules("update"))
  <2>1. /\ view' = WriteMany(op, chosen, view) /\ todo' = Tail(todo)
        /\ payload' = payload /\ pc' = pc
    BY <1>1, <1>6 DEF Removes
  <2>2. /\ \A k \in chosen : k \in Kids /\ Exists(k, view)
        /\ chosen \in SUBSET Kids
    BY DEF Selected, Under, Exists
  <2>3. \A k \in chosen : Guard("update", Rules("update"), True(Rules("update"), k, view, view))
    BY DEF ByGuard, Admits, RuleOf
  <2> HIDE DEF chosen
  <2>4. /\ view'.parent = view.parent
        /\ \A k \in Kids : view'.child[k] =
              IF k \notin chosen THEN view.child[k] ELSE Valued(view.child[k], op.val)
    BY <1>3, <2>1, <2>2, WriteManyIs
  <2>5. ASSUME NEW k \in Kids, ~Unchecked(k)
        PROVE  Seen(k)' /\ (Exists(k, view') => Exists(k, view))
    <3>1. Seen(k)
      BY <1>3, <2>5 DEF UpdateInv
    <3>2. CASE k \notin chosen
      BY <1>2, <2>4, <3>1, <3>2, SeenStays DEF Exists
    <3>3. CASE k \in chosen
      <4>0. k \in Selected(p, op, view) /\ Exists(k, view)
        BY <2>2, <3>3 DEF chosen
      <4>1. view'.child[k] = Valued(view.child[k], op.val) /\ Exists(k, view')
        <5>1. view'.child[k] = Valued(view.child[k], op.val)
          BY <2>4, <3>3
        <5>2. Valued(view.child[k], op.val) # None
          BY <1>3, <4>0, DatabaseType, OpType, ValuedIs, RowType DEF Exists
        <5> QED BY <5>1, <5>2 DEF Exists
      <4>2. CASE ~Exists(k, db)
        BY <1>2, <3>1, <4>0, <4>2, ChecksGrow DEF Seen, Exists
      <4>3. CASE Exists(k, db) /\ Replaced(k)
        BY <1>2, <4>0, <4>1, <4>3, ChecksGrow DEF Seen, Exists
      <4>4. CASE Exists(k, db) /\ ~Replaced(k)
        <5>1. Cleared(k, TRUE)'
          <6>1. CASE view.child[k] = db.child[k]
            <7>1. Guard("update", Rules("update"), True(Rules("update"), k, db, db))
              BY <1>3, <2>3, <3>3, <6>1, TrueDepends
            <7> QED BY <1>4, <2>5, <4>0, <4>4, <6>1, <7>1
          <6>2. CASE Rewritten(k)
            BY <1>2, <6>2, ChecksGrow DEF Rewritten
          <6> QED BY <3>1, <4>0, <4>4, <6>1, <6>2 DEF Seen
        <5>2. \E i \in DOMAIN call.ops : op.val = call.ops[i].val /\ call.ops[i].kind = "updateMany"
          <6>1. op \in Range(call.ops)
            BY <1>3, RangeTail DEF UpdateInv, InUpdate, TypeOK
          <6> QED BY <6>1 DEF Range
        <5>3. Valued(view.child[k], op.val) = Valued(db.child[k], op.val)
          <6>1. CASE view.child[k] = db.child[k]
            BY <6>1
          <6>2. CASE Rewritten(k)
            <7>1. PICK v : view.child[k] = Valued(db.child[k], v)
              BY <6>2 DEF Rewritten
            <7>2. db.child[k] \in Row
              BY <1>3, <4>4, DatabaseType DEF TypeOK, Exists
            <7> QED BY <7>1, <7>2 DEF Valued, Row
          <6> QED BY <3>1, <4>0, <4>4, <6>1, <6>2 DEF Seen
        <5>4. Rewritten(k)'
          BY <1>2, <4>1, <5>1, <5>2, <5>3 DEF Rewritten
        <5> QED BY <1>2, <4>0, <4>4, <5>4 DEF Seen, Exists
      <4> QED BY <4>2, <4>3, <4>4
    <3> QED BY <3>2, <3>3
  <2>6. UpdateInv'
    <3>1. op.kind # "set" /\ todo # <<>>
      BY DEF InUpdate
    <3> QED BY <1>2, <1>3, <2>1, <2>4, <2>5, <3>1, Advance
  <2> QED BY <1>2, <2>1, <2>6, HeadAsked DEF WriteInv, InUpdate
<1> QED BY <1>5, <1>6

LEMMA DeleteManyInv ==
    ASSUME InUpdate, NEW op, op = Head(todo), op.kind = "deleteMany", VisitDeleteMany
    PROVE  WriteInv'
<1> DEFINE p == call.parent
           chosen == Selected(p, op, view) \cap ByGuard(op, view)
<1>1. IF SameForEveryRow("delete", Rules("delete")) THEN Overwrites(op)
      ELSE Removes(WriteMany(op, chosen, view), {})
  BY DEF VisitDeleteMany
<1>2. policy' = policy /\ db' = db /\ call' = call /\ checks' = checks
  BY <1>1 DEF Overwrites, Removes
<1>3. /\ op \in Op /\ Asks({"deleteMany"}) /\ UpdateInv /\ view.parent = db.parent
      /\ TypeOK /\ view \in Database /\ call \in Calls /\ Faithful(Rules("update"))
  BY HeadAsked DEF InUpdate, TypeOK
<1>4. CASE SameForEveryRow("delete", Rules("delete"))
  <2>1. Overwrites(op)
    BY <1>1, <1>4
  <2>2. ASSUME NEW k \in Kids PROVE Left(op, k)'
    BY <1>2, <1>3 DEF Left, LeftKinds, Asks
  <2> QED BY <1>3, <2>1, <2>2, OverwritesInv
<1>5. CASE ~SameForEveryRow("delete", Rules("delete"))
  <2>1. /\ view' = WriteMany(op, chosen, view) /\ todo' = Tail(todo)
        /\ payload' = payload /\ pc' = pc
    BY <1>1, <1>5 DEF Removes
  <2>2. /\ \A k \in chosen : k \in Kids /\ Exists(k, view)
        /\ chosen \in SUBSET Kids
    BY DEF Selected, Under, Exists
  <2>3. \A k \in chosen : Guard("delete", Rules("delete"), True(Rules("delete"), k, view, view))
    BY DEF ByGuard, Admits, RuleOf
  <2> HIDE DEF chosen
  <2>4. /\ view'.parent = view.parent
        /\ \A k \in Kids : view'.child[k] = IF k \notin chosen THEN view.child[k] ELSE None
    BY <1>3, <2>1, <2>2, WriteManyIs
  <2>5. ASSUME NEW k \in Kids, ~Unchecked(k)
        PROVE  Seen(k)' /\ (Exists(k, view') => Exists(k, view))
    <3>1. Seen(k)
      BY <1>3, <2>5 DEF UpdateInv
    <3>2. CASE k \notin chosen
      BY <1>2, <2>4, <3>1, <3>2, SeenStays DEF Exists
    <3>3. CASE k \in chosen
      <4>1. ~Exists(k, view') /\ Exists(k, view)
        BY <2>2, <2>4, <3>3 DEF Exists
      <4>2. CASE Exists(k, db)
        <5>1. Cross(Rules("delete")) = {}
          BY <1>3, <2>5 DEF Unchecked
        <5>2. Passes("delete", Rules("delete"), True(Rules("delete"), k, view, view))
          BY <2>3, <3>3, <5>1, GuardSuffices
        <5>3. Removable(k)
          BY <1>3, <3>1, <4>1, <4>2, <5>2, DeleteIsLicensed
        <5>4. Removable(k)' /\ Asks({"deleteMany"})'
          BY <1>2, <1>3, <5>3, ChecksGrow DEF Asks
        <5> QED BY <1>2, <4>1, <4>2, <5>4 DEF Seen, Exists
      <4>3. CASE ~Exists(k, db)
        BY <1>2, <4>1, <4>3 DEF Seen, Exists
      <4> QED BY <4>2, <4>3
    <3> QED BY <3>2, <3>3
  <2>6. UpdateInv'
    <3>1. op.kind # "set" /\ todo # <<>>
      BY DEF InUpdate
    <3> QED BY <1>2, <1>3, <2>1, <2>4, <2>5, <3>1, Advance
  <2> QED BY <1>2, <2>1, <2>6, HeadAsked DEF WriteInv, InUpdate
<1> QED BY <1>4, <1>5

\* A nested disconnect of a child that is not connected, and a nested delete,
\* are checked before they are left, and not again.
LEMMA DisconnectInv ==
    ASSUME InUpdate, NEW op, op = Head(todo), op.kind = "disconnect", Leaves(op, {}),
           ~Under(call.parent, op.child, view)
    PROVE  WriteInv'
<1>1. policy' = policy /\ db' = db /\ call' = call /\ checks' = checks /\ view' = view
  BY DEF Leaves
<1>2. ASSUME NEW k \in Kids, ~Unchecked(k) PROVE Left(op, k)'
  <2>1. ASSUME op.child = k, Under(call.parent, k, db) PROVE IfThere(k)'
    <3>1. Seen(k) /\ Exists(k, db) /\ view.child[k] # db.child[k]
      BY <1>2, <2>1, HeadAsked DEF UpdateInv, Under, Exists
    <3>2. CASE Rewritten(k) \/ Replaced(k)
      <4>1. Licensed(k)
        BY <3>1, <3>2, ExactClears DEF Licensed, Rewritten
      <4> QED BY <1>1, <4>1, ChecksGrow DEF IfThere
    <3>3. CASE ~Exists(k, view)
      BY <1>1, <3>3 DEF IfThere, Exists
    <3> QED BY <3>1, <3>2, <3>3 DEF Seen
  <2> QED BY <1>1, <2>1 DEF Left, LeftKinds, Under
<1> QED BY <1>2, LeavesInv

LEMMA DeleteInv ==
    ASSUME InUpdate, NEW op, op = Head(todo), op.kind = "delete", Leaves(op, {}),
           Under(call.parent, op.child, view), Allowed("delete", op.child, view, view)
    PROVE  WriteInv'
<1>1. policy' = policy /\ db' = db /\ call' = call /\ checks \subseteq checks'
  BY DEF Leaves
<1>2. ASSUME NEW k \in Kids, ~Unchecked(k) PROVE Left(op, k)'
  <2>1. ASSUME op.child = k, Exists(k, db) PROVE Removable(k)'
    <3>1. Seen(k) /\ Exists(k, view)
      BY <1>2, <2>1, HeadAsked DEF UpdateInv, Under, Exists
    <3>2. Passes("delete", Rules("delete"), True(Rules("delete"), k, view, view))
      BY <2>1, AllowedPasses DEF InUpdate
    <3>3. Removable(k)
      BY <2>1, <3>1, <3>2, HeadAsked, DeleteIsLicensed DEF InUpdate
    <3> QED BY <1>1, <3>3, ChecksGrow
  <2> QED BY <1>1, <2>1 DEF Left, LeftKinds, Exists
<1> QED BY <1>2, LeavesInv

LEMMA RemovesNothingInv ==
    ASSUME InUpdate, Removes(view, {}), Head(todo).kind # "set"
    PROVE  WriteInv'
<1>1. /\ policy' = policy /\ db' = db /\ call' = call /\ checks \subseteq checks' /\ view' = view
      /\ payload' = payload /\ todo' = Tail(todo) /\ pc' = pc
  BY DEF Removes
<1>2. ASSUME NEW k \in Kids, ~Unchecked(k) PROVE Seen(k)'
  BY <1>1, <1>2, HeadAsked, SeenStays DEF UpdateInv
<1>3. UpdateInv'
  BY <1>1, <1>2, HeadAsked, Advance DEF InUpdate
<1> QED BY <1>1, <1>3, HeadAsked DEF WriteInv, InUpdate

LEMMA VisitUpdateInv ==
    ASSUME InUpdate, Visit
    PROVE  WriteInv'
<1> DEFINE op == Head(todo)
<1>a. /\ op \in Op /\ op.kind \in UpdateOps /\ WriteInv /\ call.op # "create"
      /\ Under(call.parent, op.child, view) => Exists(op.child, view)
  BY HeadAsked, OpType DEF InUpdate, Under, Exists
<1>b. /\ [op EXCEPT !.kind = "update"] \in Op
      /\ [op EXCEPT !.kind = "update"].child = op.child
      /\ [op EXCEPT !.kind = "update"].kind = "update"
  BY <1>a, Kinded DEF UpdateOps
<1> HIDE DEF op
<1> USE DEF At
<1>1. CASE VisitCreate
  BY <1>1, CreatesInv DEF VisitCreate, op
<1>2. CASE VisitCreateMany
  BY <1>2, CreatesInv, RemovesNothingInv DEF VisitCreateMany, op
<1>3. CASE VisitUpdate
  BY <1>a, <1>3, LeavesUpdateInv, EndedInv DEF VisitUpdate, op
<1>4. CASE VisitUpsert
  BY <1>a, <1>b, <1>4, LeavesUpdateInv, CreatesInv DEF VisitUpsert, op
<1>5. CASE VisitConnect
  BY <1>a, <1>5, LeavesUpdateInv DEF VisitConnect, op
<1>6. CASE VisitConnectOrCreate
  BY <1>a, <1>6, LeavesUpdateInv, CreatesInv DEF VisitConnectOrCreate, op
<1>7. CASE VisitDisconnect
  BY <1>a, <1>7, LeavesUpdateInv, DisconnectInv DEF VisitDisconnect, op
<1>8. CASE VisitSet
  BY <1>a, <1>8, LeavesUpdateInv DEF VisitSet, op
<1>9. CASE VisitDelete
  BY <1>a, <1>9, DeleteInv, EndedInv DEF VisitDelete, op
<1>10. CASE VisitUpdateMany
  BY <1>10, UpdateManyInv DEF VisitUpdateMany
<1>11. CASE VisitDeleteMany
  BY <1>11, DeleteManyInv DEF VisitDeleteMany
<1>12. ~VisitNewChild /\ ~VisitNewConnect /\ ~VisitNewConnectOrCreate
  BY <1>a DEF VisitNewChild, VisitNewConnect, VisitNewConnectOrCreate
<1> QED BY <1>1, <1>2, <1>3, <1>4, <1>5, <1>6, <1>7, <1>8, <1>9, <1>10, <1>11, <1>12 DEF Visit

-----------------------------------------------------------------------------
(* The callbacks of a create. *)

LEMMA NewLeftStays ==
    ASSUME policy' = policy, db' = db, call' = call, NEW op, NewLeft(op)
    PROVE  NewLeft(op)'
<1>1. Allowed("update", op.child, db, db) <=> Allowed("update", op.child, db, db)'
  BY SameRules DEF Allowed
<1> QED BY <1>1 DEF NewLeft, Exists, AsksFor

LEMMA VisitCreateInv ==
    ASSUME TypeOK, WriteInv, pc = "visit", call.op = "create", Visit
    PROVE  WriteInv'
<1> DEFINE op == Head(todo)
<1>a. /\ CreateInv /\ view = db /\ policy \in Policies /\ todo # <<>> /\ call.op # "update"
      /\ op \in Op /\ todo \in Seq(Op)
  BY HeadTail DEF WriteInv, CreateInv, TypeOK, Visit
<1>b. Range(todo) = {op} \cup Range(Tail(todo))
  BY <1>a, RangeTail
<1>c. AsksFor(op.child, {op.kind})
  BY <1>a, <1>b DEF CreateInv, AsksFor, Range
<1> HIDE DEF op
<1>1. ASSUME NEW left, NewLeft(left), todo' = Tail(todo), payload' = Append(payload, left),
             \A k \in connected' : Exists(k, db),
             UNCHANGED <<policy, db, view, pc, call>>
      PROVE  WriteInv'
  <2>1. Range(payload') = Range(payload) \cup {left}
    BY <1>1, RangeAppend DEF TypeOK
  <2>2. \A o \in Range(payload') : NewLeft(o)'
    BY <1>a, <1>1, <2>1, NewLeftStays DEF CreateInv
  <2>3. Range(todo') \subseteq Range(call'.ops)
    BY <1>a, <1>b, <1>1 DEF CreateInv
  <2> QED BY <1>a, <1>1, <2>2, <2>3 DEF WriteInv, CreateInv, Exists
<1>2. CASE VisitNewChild
  <2>1. Leaves(op, {}) /\ NewLeft(op)
    BY <1>2 DEF VisitNewChild, At, NewLeft, op
  <2> QED BY <1>1, <1>a, <2>1 DEF Leaves, CreateInv
<1>3. CASE VisitNewConnect
  <2>1. CASE \E how : Ends(how)
    BY <2>1, EndedInv
  <2>2. CASE ~ \E how : Ends(how)
    <3>1. /\ Leaves(op, {}) /\ Exists(op.child, view) /\ Allowed("update", op.child, view, view)
          /\ op.kind = "connect"
      BY <1>3, <2>2 DEF VisitNewConnect, At, op
    <3>2. NewLeft(op)
      BY <1>a, <1>c, <3>1 DEF NewLeft, AsksFor
    <3> QED BY <1>1, <1>a, <3>1, <3>2 DEF Leaves, CreateInv
  <2> QED BY <2>1, <2>2
<1>4. CASE VisitNewConnectOrCreate
  <2> DEFINE there == Exists(op.child, view)
             left == [op EXCEPT !.kind = IF there THEN "connect" ELSE "create"]
  <2>0. left.kind = (IF there THEN "connect" ELSE "create") /\ left.child = op.child
    BY <1>a, Kinded DEF UpdateOps
  <2>1. CASE Ends("refused")
    BY <2>1, EndedInv
  <2>2. CASE ~Ends("refused")
    <3>1. /\ ~(there /\ ~Allowed("update", op.child, view, view)) /\ op.kind = "connectOrCreate"
          /\ todo' = Tail(todo) /\ payload' = Append(payload, left)
          /\ connected' = IF there THEN connected \cup {op.child} ELSE connected
          /\ UNCHANGED <<policy, db, view, pc, call>>
      BY <1>4, <2>2 DEF VisitNewConnectOrCreate, At, op
    <3>2. NewLeft(left)
      BY <1>a, <1>c, <2>0, <3>1 DEF NewLeft, AsksFor
    <3>3. \A k \in connected' : Exists(k, db)
      BY <1>a, <3>1 DEF CreateInv
    <3> HIDE DEF left
    <3> QED BY <1>1, <3>1, <3>2, <3>3
  <2> QED BY <2>1, <2>2
<1>5. VisitNewChild \/ VisitNewConnect \/ VisitNewConnectOrCreate
  BY <1>a DEF Visit, At, VisitCreate, VisitCreateMany, VisitUpdate, VisitUpsert, VisitConnect,
      VisitConnectOrCreate, VisitDisconnect, VisitSet, VisitDelete, VisitUpdateMany, VisitDeleteMany
<1> QED BY <1>2, <1>3, <1>4, <1>5

-----------------------------------------------------------------------------
(* The statement that ends the call, write by write. *)

\* what is known of child k after some writes of the payload of an update
Stands(k, s) ==
    /\ Exists(k, db) /\ ~Exists(k, s) => Removable(k)
    /\ Exists(k, s) /\ s.child[k] # view.child[k] => Licensed(k)

LEMMA ViewStands ==
    ASSUME TypeOK, call \in Calls, NEW k \in Kids, Seen(k)
    PROVE  /\ Stands(k, view)
           /\ Exists(k, view) /\ view.child[k] # db.child[k] => Licensed(k)
<1>1. CASE ~Exists(k, db)
  BY <1>1 DEF Stands, Seen, Licensed
<1>2. CASE Exists(k, db) /\ view.child[k] = db.child[k]
  BY <1>2 DEF Stands, Exists
<1>3. CASE Exists(k, db) /\ Rewritten(k)
  BY <1>3, RewrittenExists, ExactClears DEF Stands, Rewritten, Licensed
<1>4. CASE Exists(k, db) /\ ~Exists(k, view) /\ Removable(k)
  BY <1>4 DEF Stands
<1>5. CASE Exists(k, db) /\ Exists(k, view) /\ Replaced(k)
  BY <1>5 DEF Stands, Licensed
<1> QED BY <1>1, <1>2, <1>3, <1>4, <1>5 DEF Seen

LEMMA WriteStands ==
    ASSUME TypeOK, UpdateInv, call \in Calls, todo = <<>>, NEW k \in Kids, ~Unchecked(k),
           NEW s \in Database, Stands(k, s), NEW op \in Op, op \in Range(payload),
           Possible(call.parent, op, s), NEW t,
           t = Effect(call.parent, op, ByConstant(op, s), s)
    PROVE  t \in Database /\ Stands(k, t)
<1> DEFINE p == call.parent
           K == ByConstant(op, s)
<1>1. /\ t \in Database /\ p \in Parents
      /\ t.child[k] # s.child[k] => Touches(p, op, K, k, s, t)
  BY CallType, EffectIs
<1>2. Seen(k) /\ SetSeen(k) /\ Left(op, k)
  BY DEF UpdateInv
<1>3. CASE t.child[k] = s.child[k]
  BY <1>1, <1>3 DEF Stands, Exists
<1>4. CASE Touches(p, op, K, k, s, t)
  <2> HIDE DEF K
  \* a child that is still as the callbacks saw it
  <2>a. Exists(k, s) => Licensed(k) \/ (s.child[k] = view.child[k] /\ s.child[k] = db.child[k])
    BY <1>2, ViewStands DEF Stands, Exists
  <2>b. Exists(k, s) /\ IfThere(k) => Licensed(k)
    BY <2>a DEF IfThere, Exists
  <2>c. Licensed(k) /\ t.child[k] # None => Stands(k, t)
    BY DEF Stands, Exists
  <2>d. ~Exists(k, t) /\ (Exists(k, db) => Removable(k)) => Stands(k, t)
    BY DEF Stands
  <2>e. /\ Made(p, op) # None
        /\ Exists(k, s) => Valued(s.child[k], op.val) # None
        /\ \A o \in Parents \cup {None} : Exists(k, s) => Owned(s.child[k], o) # None
    BY <1>1, CreateIs, OpType, DatabaseType, ValuedIs, OwnedIs, RowType DEF Exists
  <2>f. op.kind \notin {"create", "createMany", "upsert"}
    BY <1>2 DEF Left, LeftKinds
  <2>g. Under(p, k, s) => Exists(k, s)
    BY DEF Under, Exists
  <2>h. k \in Selected(p, op, s) => Under(p, k, s)
    BY DEF Selected
  <2>1. CASE op.kind = "connectOrCreate" /\ k = op.child
    BY <1>1, <1>2, <1>4, <2>1, <2>c, <2>e DEF Left, Touches
  <2>2. CASE op.kind = "update" /\ k = op.child
    BY <1>1, <1>2, <1>4, <2>2, <2>c, <2>e, <2>g DEF Left, Touches
  <2>3. CASE op.kind \in {"connect", "set"} /\ k = op.child
    BY <1>1, <1>2, <1>4, <2>3, <2>b, <2>c, <2>e DEF Left, Touches
  <2>4. CASE op.kind = "disconnect" /\ k = op.child
    <3>1. t.child[k] = Owned(s.child[k], None) /\ Under(p, k, s)
      BY <1>4, <2>4 DEF Touches
    <3>2. Licensed(k)
      BY <1>2, <2>4, <2>a, <2>b, <2>g, <3>1 DEF Left, Under
    <3> QED BY <1>1, <2>c, <2>e, <2>g, <3>1, <3>2
  <2>5. CASE op.kind = "set" /\ k # op.child
    <3>1. t.child[k] = Owned(s.child[k], None) /\ Under(p, k, s)
      BY <1>4, <2>5 DEF Touches
    <3>2. AsksFor(k, {"set"})
      BY <1>2, <2>5 DEF Left, Unchecked
    <3>3. IfThere(k)
      BY <1>2, <3>2 DEF SetSeen, Range
    <3> QED BY <1>1, <2>b, <2>c, <2>e, <2>g, <3>1, <3>3
  <2>6. CASE op.kind = "delete" /\ k = op.child
    BY <1>1, <1>2, <1>4, <2>6, <2>d DEF Left, Touches, Exists
  <2>7. CASE op.kind = "updateMany" /\ k \in Selected(p, op, s) \cap K
    <3>1. t.child[k] = Valued(s.child[k], op.val) /\ Under(p, k, s)
      BY <1>4, <2>7, <2>h DEF Touches
    <3>2. Always("update", Rules("update"))
      BY <2>7 DEF K, ByConstant, RuleOf
    <3>3. s.child[k].val # op.val
      BY <2>7 DEF Selected
    <3>4. Licensed(k)
      BY <1>2, <2>7, <2>a, <2>b, <2>g, <3>1, <3>2, <3>3 DEF Left, Under
    <3> QED BY <1>1, <2>c, <2>e, <2>g, <3>1, <3>4
  <2>8. CASE op.kind = "deleteMany" /\ k \in Selected(p, op, s) \cap K
    <3>1. ~Exists(k, t)
      BY <1>4, <2>8 DEF Touches, Exists
    <3>2. Always("delete", Rules("delete")) /\ Cross(Rules("delete")) = {}
      BY <1>2, <2>8 DEF K, ByConstant, RuleOf, Left, Unchecked
    <3>3. Passes("delete", Rules("delete"), True(Rules("delete"), k, db, db))
      BY <3>2, RulesAre, AlwaysGuards, GuardSuffices
    <3>4. Removable(k)
      BY <3>3, PlainDecided DEF Removable, MayGo
    <3> QED BY <1>1, <2>d, <3>1, <3>4
  <2> QED BY <1>4, <2>f, <2>1, <2>2, <2>3, <2>4, <2>5, <2>6, <2>7, <2>8 DEF Touches
<1> QED BY <1>1, <1>3, <1>4

LEMMA UpdateStands ==
    ASSUME TypeOK, UpdateInv, call \in Calls, todo = <<>>, NEW q \in Orders(payload),
           NEW k \in Kids, ~Unchecked(k)
    PROVE  Carried(call.parent, q, FALSE, view) # None =>
                Stands(k, Carried(call.parent, q, FALSE, view))
<1> DEFINE p == call.parent
           Good == {u \in Database \cup {None} : u # None => Stands(k, u)}
<1>1. /\ q \in Seq(Op) /\ \A i \in DOMAIN q : q[i] \in Op /\ q[i] \in Range(payload)
  BY OrdersIs DEF TypeOK, Range
<1>2. ASSUME NEW u \in Good, NEW i \in DOMAIN q PROVE CarryOne(p, q[i], FALSE, u) \in Good
  <2>1. CASE u = None \/ ~Possible(p, q[i], u)
    BY <2>1 DEF CarryOne
  <2>2. CASE u # None /\ Possible(p, q[i], u)
    <3>1. CarryOne(p, q[i], FALSE, u) = Effect(p, q[i], ByConstant(q[i], u), u)
      BY <2>2 DEF CarryOne, Filter
    <3>2. u \in Database /\ Stands(k, u) /\ q[i] \in Op /\ q[i] \in Range(payload)
      BY <1>1, <2>2
    <3>3. CarryOne(p, q[i], FALSE, u) \in Database /\ Stands(k, CarryOne(p, q[i], FALSE, u))
      BY <2>2, <3>1, <3>2, WriteStands
    <3> QED BY <3>3
  <2> QED BY <2>1, <2>2
<1>3. view \in Good
  BY ViewStands DEF TypeOK, UpdateInv
<1>4. Carried(p, q, FALSE, view) \in Good
  <2> HIDE DEF Good
  <2> QED BY <1>1, <1>2, <1>3, CarriedInduction
<1> QED BY <1>4

LEMMA WriteUpdateInv ==
    ASSUME TypeOK, CallOK, WriteInv, WriteUpdate
    PROVE  WriteInv'
<1>1. /\ pc = "visit" /\ call \in Calls /\ call.parent \in Parents /\ view \in Database
      /\ UpdateInv /\ todo = <<>> /\ call.val \in Vals \cup {None} /\ payload \in Seq(Op)
  BY CallType DEF WriteUpdate, TypeOK, CallOK, WriteInv
<1>2. PICK q \in Orders(payload) :
        LET s == Carried(call.parent, q, FALSE, view)
        IN IF s = None THEN Ends("failed")
           ELSE /\ view' = IF call.val = None THEN s
                           ELSE [s EXCEPT !.parent[call.parent] = call.val]
                /\ pc' = "check"
                /\ UNCHANGED <<policy, db, call, todo, payload, checks, connected, outcome>>
  BY DEF WriteUpdate
<1>3. PICK s : s = Carried(call.parent, q, FALSE, view)
  OBVIOUS
<1>4. CASE s = None
  BY <1>2, <1>3, <1>4, EndedInv
<1>5. CASE s # None
  <2>1. /\ view' = IF call.val = None THEN s ELSE [s EXCEPT !.parent[call.parent] = call.val]
        /\ pc' = "check"
        /\ UNCHANGED <<policy, db, call, todo, payload, checks, connected, outcome>>
    BY <1>2, <1>3, <1>5
  <2>2. s \in Database
    BY <1>1, <1>3, <1>5, OrdersIs, CarriedType
  <2>3. view'.child = s.child
    BY <1>1, <2>1, <2>2, SetParent
  <2>4. ASSUME NEW k \in Kids, ~Unchecked(k)
        PROVE  /\ Exists(k, db) /\ ~Exists(k, s) => Removable(k)
               /\ Exists(k, s) /\ s.child[k] # db.child[k] => Licensed(k)
    <3>1. Seen(k)
      BY <1>1, <2>4 DEF UpdateInv
    <3>2. Stands(k, s)
      BY <1>1, <1>3, <1>5, <2>4, UpdateStands
    <3> QED BY <1>1, <3>1, <3>2, ViewStands DEF Stands, Exists
  <2>5. CheckInv'
    <3> SUFFICES ASSUME NEW k \in Kids, ~Unchecked(k)'
                 PROVE  (/\ Exists(k, db) /\ ~Exists(k, view) => Removable(k)
                         /\ Exists(k, view) /\ view.child[k] # db.child[k] => Licensed(k))'
      BY DEF CheckInv
    <3>1. ~Unchecked(k) /\ checks \subseteq checks'
      BY <2>1, SameDecisions
    <3>2. (Removable(k) => Removable(k)') /\ (Licensed(k) => Licensed(k)')
      BY <2>1, <3>1, ChecksGrow
    <3> QED BY <2>1, <2>3, <2>4, <3>1, <3>2 DEF Exists
  <2> QED BY <2>1, <2>5 DEF WriteInv
<1> QED BY <1>4, <1>5

\* what is known of child k after some writes of the payload of a create
NewStands(k, s) ==
    /\ Exists(k, db) => Exists(k, s) /\ (s.child[k] # db.child[k] => Cleared(k, FALSE))
    /\ ~Exists(k, db) /\ Exists(k, s) =>
        /\ Under(call.parent, k, s)
        /\ \E op \in Range(payload) : op.kind \in {"create", "createMany"}

LEMMA NewWriteStands ==
    ASSUME TypeOK, CreateInv, call \in Calls, call.op = "create", NEW k \in Kids, ~Unchecked(k),
           NEW s \in Database, NewStands(k, s), NEW op \in Op, op \in Range(payload),
           Possible(call.parent, op, s), NEW t,
           t = Effect(call.parent, op, ByConstant(op, s), s)
    PROVE  t \in Database /\ NewStands(k, t)
<1> DEFINE p == call.parent
           K == ByConstant(op, s)
<1>1. /\ t \in Database /\ p \in Parents
      /\ t.child[k] # s.child[k] => Touches(p, op, K, k, s, t)
  BY CallType, EffectIs
<1>2. NewLeft(op) /\ op.kind \in {"create", "createMany", "connect"}
  BY DEF CreateInv, NewLeft
<1>3. CASE t.child[k] = s.child[k]
  BY <1>1, <1>3 DEF NewStands, Exists, Under
<1>4. CASE Touches(p, op, K, k, s, t)
  <2> HIDE DEF K
  <2>1. CASE op.kind \in {"create", "createMany"}
    <3>1. t.child[k] = Made(p, op) /\ ~Exists(k, s)
      BY <1>4, <2>1 DEF Touches
    <3>2. Made(p, op) # None /\ Made(p, op).owner = p
      BY <1>1, CreateIs, RowType DEF Made
    <3> QED BY <1>1, <2>1, <3>1, <3>2 DEF NewStands, Exists, Under
  <2>2. CASE op.kind = "connect"
    <3>1. t.child[k] = Owned(s.child[k], p) /\ k = op.child /\ Exists(k, s)
      BY <1>4, <2>2 DEF Touches
    <3>2. Owned(s.child[k], p) # None
      BY <1>1, <3>1, DatabaseType, OwnedIs, RowType DEF Exists
    <3>3. Exists(k, db) /\ Allowed("update", k, db, db) /\ PostRules = {}
      BY <1>2, <2>2, <3>1 DEF NewLeft, Unchecked
    <3>4. Cleared(k, FALSE)
      BY <3>3, AllowedPasses DEF Cleared, PassesUpdate
    <3> QED BY <1>1, <3>1, <3>2, <3>3, <3>4 DEF NewStands, Exists
  <2> QED BY <1>2, <2>1, <2>2
<1> QED BY <1>1, <1>3, <1>4

\* the children the call found
SameChildren(s) == s \in Database /\ s.child = db.child

LEMMA CreateStands ==
    ASSUME TypeOK, CreateInv, call \in Calls, call.op = "create", NEW q \in Orders(payload),
           NEW from, SameChildren(from), NEW k \in Kids, ~Unchecked(k)
    PROVE  Carried(call.parent, q, FALSE, from) # None =>
                NewStands(k, Carried(call.parent, q, FALSE, from))
<1> DEFINE p == call.parent
           Good == {u \in Database \cup {None} : u # None => NewStands(k, u)}
<1>1. /\ q \in Seq(Op) /\ \A i \in DOMAIN q : q[i] \in Op /\ q[i] \in Range(payload)
  BY OrdersIs DEF TypeOK, Range
<1>2. ASSUME NEW u \in Good, NEW i \in DOMAIN q PROVE CarryOne(p, q[i], FALSE, u) \in Good
  <2>1. CASE u = None \/ ~Possible(p, q[i], u)
    BY <2>1 DEF CarryOne
  <2>2. CASE u # None /\ Possible(p, q[i], u)
    <3>1. CarryOne(p, q[i], FALSE, u) = Effect(p, q[i], ByConstant(q[i], u), u)
      BY <2>2 DEF CarryOne, Filter
    <3>2. u \in Database /\ NewStands(k, u) /\ q[i] \in Op /\ q[i] \in Range(payload)
      BY <1>1, <2>2
    <3>3. CarryOne(p, q[i], FALSE, u) \in Database /\ NewStands(k, CarryOne(p, q[i], FALSE, u))
      BY <2>2, <3>1, <3>2, NewWriteStands
    <3> QED BY <3>3
  <2> QED BY <2>1, <2>2
<1>3. from \in Good
  BY DEF NewStands, Exists, SameChildren
<1>4. Carried(p, q, FALSE, from) \in Good
  <2> HIDE DEF Good
  <2> QED BY <1>1, <1>2, <1>3, CarriedInduction
<1> QED BY <1>4

LEMMA WriteCreateInv ==
    ASSUME TypeOK, CallOK, WriteInv, WriteCreate
    PROVE  WriteInv'
<1>1. /\ pc = "visit" /\ call \in Calls /\ call.parent \in Parents /\ view = db /\ call.op = "create"
      /\ CreateInv /\ call.val \in Vals \cup {None} /\ payload \in Seq(Op) /\ db \in Database
  BY CallType DEF WriteCreate, TypeOK, CallOK, WriteInv, CreateInv
<1>2. CASE view.parent[call.parent] # None
  BY <1>2, EndedInv DEF WriteCreate
<1>3. CASE view.parent[call.parent] = None
  <2> DEFINE from == [view EXCEPT !.parent[call.parent] = call.val]
             after(q) == Carried(call.parent, q, FALSE, from)
             returned(s) == IF \E i \in DOMAIN payload : payload[i].kind \in {"create", "createMany"}
                            THEN {k \in Kids : s # None /\ Under(call.parent, k, s)} \ connected
                            ELSE {}
  <2>0. from \in Database /\ from.child = db.child
    <3>1. view \in Database /\ call.parent \in Parents /\ call.val \in Vals \cup {None}
      BY <1>1
    <3>2. from \in Database /\ from.child = view.child
      BY <3>1, SetParent
    <3> QED BY <1>1, <3>2
  <2> HIDE DEF from
  <2>1. PICK q \in Orders(payload) :
            IF after(q) = None THEN Ends("failed")
            ELSE /\ view' = after(q) /\ pc' = "check"
                 /\ checks' = checks \cup {ChildCheck(k, "create") : k \in returned(after(q))}
                 /\ UNCHANGED <<policy, db, call, todo, payload, connected, outcome>>
    BY <1>3 DEF WriteCreate, from
  <2>2. PICK s : s = after(q)
    OBVIOUS
  <2>3. CASE s = None
    BY <2>1, <2>2, <2>3, EndedInv
  <2>4. CASE s # None
    <3>1. /\ view' = s /\ pc' = "check"
          /\ checks' = checks \cup {ChildCheck(k, "create") : k \in returned(s)}
          /\ UNCHANGED <<policy, db, call, todo, payload, connected, outcome>>
      BY <2>1, <2>2, <2>4
    <3> HIDE DEF after
    <3>2. ASSUME NEW k \in Kids, ~Unchecked(k) PROVE NewStands(k, s)
      <4>1. SameChildren(from)
        BY <2>0 DEF SameChildren
      <4> QED BY <1>1, <2>2, <2>4, <3>2, <4>1, CreateStands DEF after
    <3>3. CheckInv'
      <4> SUFFICES ASSUME NEW k \in Kids, ~Unchecked(k)'
                   PROVE  (/\ Exists(k, db) /\ ~Exists(k, view) => Removable(k)
                           /\ Exists(k, view) /\ view.child[k] # db.child[k] => Licensed(k))'
        BY DEF CheckInv
      <4>1. ~Unchecked(k) /\ checks \subseteq checks'
        BY <3>1, SameDecisions
      <4>2. NewStands(k, s)
        BY <3>2, <4>1
      <4>3. CASE Exists(k, db)
        <5>1. Cleared(k, FALSE) => Cleared(k, FALSE)'
          BY <3>1, <4>1, ChecksGrow
        <5> QED BY <3>1, <4>2, <4>3, <5>1 DEF NewStands, Licensed, Exists
      <4>4. CASE ~Exists(k, db) /\ Exists(k, s)
        <5>1. k \in returned(s)
          BY <1>1, <2>4, <4>2, <4>4 DEF NewStands, CreateInv, Range
        <5>2. PICK c \in checks' : c = ChildCheck(k, "create")
          BY <3>1, <5>1
        <5>3. c.model = "child" /\ c.row = k /\ c.kind = "create"
          BY <5>2 DEF ChildCheck
        <5>4. Remade(k)'
          BY <5>2, <5>3 DEF Remade
        <5> QED BY <3>1, <4>4, <5>4 DEF Licensed, Exists
      <4>5. CASE ~Exists(k, db) /\ ~Exists(k, s)
        BY <3>1, <4>5 DEF Exists
      <4> QED BY <4>3, <4>4, <4>5
    <3> QED BY <3>1, <3>3 DEF WriteInv
  <2> QED BY <2>3, <2>4
<1> QED BY <1>2, <1>3

-----------------------------------------------------------------------------
(* What the checks at the end establish. *)

\* the checks that are recorded hold, so that the rules decide for the change
LEMMA ChecksDecide ==
    ASSUME TypeOK, Faithful(Rules("update")), CheckInv, \A c \in checks : CheckHolds(c),
           NEW k \in Kids, ~Unchecked(k), view.child[k] # db.child[k]
    PROVE  MayBecome(k, db, view) \/ MayBeReplaced(k, db, view)
<1>1. /\ Exists(k, db) /\ ~Exists(k, view) => Removable(k)
      /\ Exists(k, view) => Licensed(k)
  BY DEF CheckInv
<1>2. Recorded(k, TRUE) => Exists(k, view)
  BY DEF Recorded, CheckHolds
<1>3. ASSUME Cleared(k, FALSE), Exists(k, view) PROVE Decided("update", k, db, view)
  <2>1. Passes("postUpdate", Rules("update"), True(Rules("update"), k, db, view))
    <3>1. CASE PostRules = {}
      BY <3>1, NothingIsLate DEF PostRules
    <3>2. CASE Recorded(k, FALSE)
      <4>1. PICK c \in checks : /\ c.model = "child" /\ c.row = k /\ c.kind = "postUpdate"
                                /\ c.pre.child[k] = db.child[k] /\ c.pre.parent = db.parent
        BY <3>2 DEF Recorded
      <4>2. Allowed("postUpdate", k, c.pre, view)
        BY <4>1 DEF CheckHolds
      <4>3. Passes("postUpdate", Rules("postUpdate"), True(Rules("postUpdate"), k, c.pre, view))
        BY <4>2, AllowedPasses
      <4>4. True(Rules("postUpdate"), k, c.pre, view) = True(Rules("postUpdate"), k, db, view)
        BY <4>1, TrueDepends
      <4> QED BY <4>3, <4>4, RulesAre
    <3> QED BY <1>3, <3>1, <3>2 DEF Cleared
  <2>2. PassesUpdate(k)
    BY <1>3 DEF Cleared
  <2> QED BY <2>1, <2>2, UpdateDecided DEF PassesUpdate
<1>4. ASSUME Remade(k) PROVE Decided("create", k, view, view)
  <2>1. PICK c \in checks : c.model = "child" /\ c.row = k /\ c.kind = "create"
    BY <1>4 DEF Remade
  <2>2. Allowed("create", k, view, view)
    BY <2>1 DEF CheckHolds
  <2> QED BY <2>2, AllowedPasses, PlainDecided
<1>5. CASE Exists(k, db) /\ ~Exists(k, view)
  <2>1. MayGo(k, db)
    BY <1>1, <1>2, <1>5 DEF Removable
  <2> QED BY <1>5, <2>1 DEF MayBecome
<1>6. CASE Exists(k, db) /\ Exists(k, view)
  <2>1. CASE Cleared(k, FALSE)
    BY <1>3, <1>6, <2>1 DEF MayBecome
  <2>2. CASE Replaced(k)
    <3>1. CASE MayGo(k, db)
      BY <1>4, <2>2, <3>1 DEF Replaced, MayBeReplaced
    <3>2. CASE PassesUpdate(k) /\ Recorded(k, TRUE)
      <4>1. Cleared(k, FALSE)
        BY <3>2 DEF Cleared, Recorded
      <4> QED BY <1>3, <1>6, <4>1 DEF MayBecome
    <3> QED BY <2>2, <3>1, <3>2 DEF Replaced, Removable
  <2> QED BY <1>1, <1>6, <2>1, <2>2 DEF Licensed
<1>7. CASE ~Exists(k, db) /\ Exists(k, view)
  <2>1. Decided("create", k, view, view)
    BY <1>1, <1>4, <1>7 DEF Licensed
  <2> QED BY <1>7, <2>1 DEF MayBecome
<1>8. CASE ~Exists(k, db) /\ ~Exists(k, view)
  BY <1>8 DEF Exists
<1> QED BY <1>5, <1>6, <1>7, <1>8

FaithfulPolicies == \A p \in Policies : Faithful(p.child.update)

LEMMA PolicyFaithful ==
    ASSUME FaithfulPolicies, WriteInv
    PROVE  Faithful(Rules("update"))
BY DEF FaithfulPolicies, WriteInv, Rules

LEMMA WriteInvStep ==
    ASSUME FaithfulPolicies, TypeOK, CallOK, WriteInv, [Next]_vars
    PROVE  WriteInv'
<1>1. CASE Start
  BY <1>1 DEF Start, WriteInv, CallOK
<1>2. CASE UpdateTop
  <2>1. CASE \E how : Ends(how)
    BY <2>1, EndedInv
  <2>2. CASE ~ \E how : Ends(how)
    <3>1. /\ pc' = "visit" /\ call.op = "update" /\ pc = "top"
          /\ UNCHANGED <<policy, db, view, call, todo, payload, connected>>
      BY <1>2, <2>2 DEF UpdateTop
    <3>2. view = db /\ payload = <<>> /\ todo = call.ops
      BY <3>1 DEF WriteInv
    <3>3. UpdateInv'
      <4>1. \A k : Seen(k)' /\ SetSeen(k)'
        BY <3>1, <3>2 DEF Seen, SetSeen, AsksFor, Range, Exists, IfThere
      <4>2. Range(payload') = {}
        BY <3>1, <3>2 DEF Range
      <4> QED BY <3>1, <3>2, <4>1, <4>2 DEF UpdateInv
    <3> QED BY <3>1, <3>3 DEF WriteInv
  <2> QED BY <2>1, <2>2
<1>3. CASE CreateTop
  <2>1. CASE \E how : Ends(how)
    BY <2>1, EndedInv
  <2>2. CASE ~ \E how : Ends(how)
    <3>1. /\ pc' = "visit" /\ call.op = "create" /\ pc = "top"
          /\ UNCHANGED <<policy, db, view, call, todo, payload, connected>>
      BY <1>3, <2>2 DEF CreateTop
    <3>2. view = db /\ payload = <<>> /\ todo = call.ops /\ connected = {}
      BY <3>1 DEF WriteInv
    <3>3. CreateInv'
      <4>1. Range(payload') = {}
        BY <3>1, <3>2 DEF Range
      <4> QED BY <3>1, <3>2, <4>1 DEF CreateInv
    <3> QED BY <3>1, <3>3 DEF WriteInv
  <2> QED BY <2>1, <2>2
<1>4. CASE Visit
  <2>1. call \in Calls /\ pc = "visit" /\ todo # <<>>
    BY <1>4 DEF Visit, CallOK
  <2>2. CASE call.op = "update"
    BY <1>4, <2>1, <2>2, PolicyFaithful, VisitUpdateInv DEF InUpdate
  <2>3. CASE call.op = "create"
    BY <1>4, <2>1, <2>3, VisitCreateInv
  <2> QED BY <2>1, <2>2, <2>3, CallType
<1>5. CASE WriteUpdate
  BY <1>5, WriteUpdateInv
<1>6. CASE WriteCreate
  BY <1>6, WriteCreateInv
<1>7. CASE RunPostWriteChecks
  BY <1>7, EndedInv DEF RunPostWriteChecks, WriteInv
<1>8. CASE UNCHANGED vars
  <2>1. /\ policy' = policy /\ db' = db /\ view' = view /\ pc' = pc /\ call' = call /\ todo' = todo
        /\ payload' = payload /\ checks' = checks /\ connected' = connected
        /\ checks \subseteq checks'
    BY <1>8 DEF vars
  <2>2. ASSUME NEW k, ~Unchecked(k)'
        PROVE  /\ ~Unchecked(k) /\ (Licensed(k) => Licensed(k)')
               /\ Removable(k) => Removable(k)'
               /\ Seen(k) => Seen(k)'
    BY <2>1, <2>2, SameDecisions, ChecksGrow, SeenStays
  <2>3. ASSUME UpdateInv PROVE UpdateInv'
    <3> SUFFICES ASSUME NEW k \in Kids, ~Unchecked(k)'
                 PROVE  Seen(k)' /\ SetSeen(k)' /\ \A op \in Range(payload') : Left(op, k)'
      BY <2>1, <2>3 DEF UpdateInv
    <3>1. ~Unchecked(k) /\ Seen(k)' /\ SetSeen(k) /\ \A op \in Range(payload) : Left(op, k)
      BY <2>2, <2>3 DEF UpdateInv
    <3>2. IfThere(k) => IfThere(k)'
      BY <2>1, <2>2 DEF IfThere, Exists
    <3>3. SetSeen(k)'
      BY <2>1, <3>1, <3>2 DEF SetSeen, AsksFor
    <3>4. \A op \in Range(payload) : Left(op, k)'
      BY <2>1, <3>1, LeftStays
    <3> QED BY <2>1, <3>1, <3>3, <3>4
  <2>4. ASSUME CreateInv PROVE CreateInv'
    <3>1. \A op \in Range(payload) : NewLeft(op)'
      BY <2>1, <2>4, NewLeftStays DEF CreateInv
    <3> QED BY <2>1, <2>4, <3>1 DEF CreateInv, Exists
  <2>5. ASSUME CheckInv PROVE CheckInv'
    BY <2>1, <2>2, <2>5 DEF CheckInv, Exists
  <2> QED BY <2>1, <2>3, <2>4, <2>5 DEF WriteInv
<1> QED BY <1>1, <1>2, <1>3, <1>4, <1>5, <1>6, <1>7, <1>8 DEF Next

\* A call commits no change of a child that the rules of the children refuse,
\* whichever callback wrote it and in whatever order, if the update rules are
\* deferred together: CheckInv says which change the recorded checks will decide
\* on, and UpdateInv and CreateInv how the callbacks come to it.
THEOREM NestedChangesObeyRules ==
    ASSUME FaithfulPolicies
    PROVE  Spec => ChangesObeyRules
<1>1. Init => TypeOK /\ CallOK /\ WriteInv
  BY NestedWriteAssumption DEF Init, TypeOK, CallOK, WriteInv
<1>2. TypeOK /\ CallOK /\ WriteInv /\ [Next]_vars => (TypeOK /\ CallOK /\ WriteInv)'
  BY NestedTypeStep, WriteInvStep
<1>3. TypeOK /\ CallOK /\ WriteInv /\ [Next]_vars =>
        [\A k \in Kids : db'.child[k] # db.child[k] /\ ~Unchecked(k)
            => MayBecome(k, db, db') \/ MayBeReplaced(k, db, db')]_vars
  <2> SUFFICES ASSUME TypeOK, CallOK, WriteInv, Next, NEW k \in Kids,
                      db'.child[k] # db.child[k], ~Unchecked(k)
               PROVE  MayBecome(k, db, db') \/ MayBeReplaced(k, db, db')
    OBVIOUS
  <2>1. CASE RunPostWriteChecks
    <3>1. /\ pc = "check" /\ db' = view /\ \A c \in checks : CheckHolds(c)
      BY <2>1 DEF RunPostWriteChecks, Ends
    <3>2. CheckInv /\ Faithful(Rules("update"))
      BY <3>1, PolicyFaithful DEF WriteInv
    <3> QED BY <3>1, <3>2, ChecksDecide
  <2>2. CASE ~RunPostWriteChecks
    <3>1. db' = db
      BY <2>2, OnlyChecksCommit
    <3> QED BY <3>1
  <2> QED BY <2>1, <2>2
<1> QED BY <1>1, <1>2, <1>3, PTL DEF Spec, ChangesObeyRules

-----------------------------------------------------------------------------
(* 4. Runs put together: what is done at once and what the last statement does. *)

\* The induction on runs, for what two runs have in common.
LEMMA CommonInduction ==
    ASSUME NEW m \in Nat, NEW P, P \in [0 .. m -> {0, 1}],
           P[0] = 1,
           \A n \in 1 .. m : P[n - 1] = 1 => P[n] = 1
    PROVE  P[m] = 1
<1>1. P[0] \in {1} /\ \A n \in 1 .. m : P[n - 1] \in {1} => P[n] \in {1}
  OBVIOUS
<1>2. P[m] \in {1}
  BY <1>1, RunInduction
<1> QED BY <1>2

LEMMA CarriedRun ==
    ASSUME NEW p, NEW q \in Seq(Op), NEW apart, NEW s, NEW f, Run(f, p, q, apart, s)
    PROVE  Carried(p, q, apart, s) = f[Len(q)]
<1>1. PICK g : Run(g, p, q, apart, s) /\ Carried(p, q, apart, s) = g[Len(q)]
  BY CarriedIs
<1>2. f[0] = s /\ \A n \in 1 .. Len(q) : f[n] = CarryOne(p, q[n], apart, f[n - 1])
  BY RunSteps
<1>3. g[0] = s /\ \A n \in 1 .. Len(q) : g[n] = CarryOne(p, q[n], apart, g[n - 1])
  BY <1>1, RunSteps
<1>4. Len(q) \in Nat
  OBVIOUS
<1> DEFINE same == [n \in 0 .. Len(q) |-> IF f[n] = g[n] THEN 1 ELSE 0]
<1>5. same \in [0 .. Len(q) -> {0, 1}]
  OBVIOUS
<1>6. same[0] = 1
  BY <1>2, <1>3, <1>4
<1>7. ASSUME NEW n \in 1 .. Len(q), same[n - 1] = 1 PROVE same[n] = 1
  <2>1. n - 1 \in 0 .. Len(q) /\ n \in 0 .. Len(q)
    BY <1>4
  <2>2. f[n - 1] = g[n - 1]
    BY <1>7, <2>1
  <2>3. f[n] = g[n]
    BY <1>2, <1>3, <2>2
  <2> QED BY <2>1, <2>3
<1>8. same[Len(q)] = 1
  <2> HIDE DEF same
  <2> QED BY <1>4, <1>5, <1>6, <1>7, CommonInduction
<1>9. f[Len(q)] = g[Len(q)]
  BY <1>4, <1>8
<1> QED BY <1>1, <1>9

\* q is first and then rest
Joins(q, first, rest) ==
    /\ Len(q) = Len(first) + Len(rest)
    /\ \A i \in DOMAIN first : q[i] = first[i]
    /\ \A i \in DOMAIN rest : q[Len(first) + i] = rest[i]

\* carrying q out is carrying first out and then rest
Splits(p, q, first, rest, apart, s) ==
    Carried(p, q, apart, s) = Carried(p, rest, apart, Carried(p, first, apart, s))

LEMMA CarriedConcat ==
    ASSUME NEW p, NEW q \in Seq(Op), NEW first \in Seq(Op), NEW rest \in Seq(Op), NEW apart, NEW s,
           Joins(q, first, rest)
    PROVE  Splits(p, q, first, rest, apart, s)
<1> DEFINE m == Len(first)
           t == Carried(p, first, apart, s)
<1>1. PICK f : Run(f, p, first, apart, s) /\ t = f[m]
  BY CarriedIs
<1>2. PICK g : Run(g, p, rest, apart, t) /\ Carried(p, rest, apart, t) = g[Len(rest)]
  BY CarriedIs
<1> HIDE DEF t
<1>3. /\ f[0] = s /\ \A n \in 1 .. m : f[n] = CarryOne(p, first[n], apart, f[n - 1])
      /\ g[0] = t /\ \A n \in 1 .. Len(rest) : g[n] = CarryOne(p, rest[n], apart, g[n - 1])
  BY <1>1, <1>2, RunSteps
<1>4. m \in Nat /\ Len(rest) \in Nat /\ DOMAIN first = 1 .. m /\ DOMAIN rest = 1 .. Len(rest)
  OBVIOUS
<1>0. /\ Len(q) = m + Len(rest)
      /\ \A i \in DOMAIN first : q[i] = first[i]
      /\ \A i \in DOMAIN rest : q[m + i] = rest[i]
  BY DEF Joins
<1> DEFINE h == [n \in 0 .. Len(q) |-> IF n < m THEN f[n] ELSE g[n - m]]
<1>5. ASSUME NEW n \in 0 .. Len(q)
      PROVE  h[n] = IF n = 0 THEN s ELSE CarryOne(p, q[n], apart, h[n - 1])
  <2>1. CASE n = 0
    BY <1>1, <1>3, <1>4, <2>1
  <2>2. CASE n # 0 /\ n < m
    <3>0. n - 1 \in 0 .. Len(q) /\ n - 1 < m /\ n \in 1 .. m
      BY <1>0, <1>4, <2>2
    <3>1. h[n] = f[n] /\ h[n - 1] = f[n - 1]
      BY <2>2, <3>0
    <3>2. q[n] = first[n]
      BY <1>0, <1>4, <3>0
    <3> HIDE DEF h
    <3> QED BY <1>3, <2>2, <3>0, <3>1, <3>2
  <2>3. CASE n # 0 /\ n = m
    <3>0. n - 1 \in 0 .. Len(q) /\ n - 1 < m /\ n \in 1 .. m /\ n - m = 0 /\ ~(n < m)
      BY <1>0, <1>4, <2>3
    <3>1. h[n] = g[0] /\ h[n - 1] = f[n - 1]
      BY <3>0
    <3>2. q[n] = first[n]
      BY <1>0, <1>4, <3>0
    <3> HIDE DEF h
    <3> QED BY <1>1, <1>3, <2>3, <3>0, <3>1, <3>2
  <2>4. CASE n > m
    <3>0. /\ n \in Nat /\ n - 1 \in 0 .. Len(q) /\ ~(n < m) /\ ~(n - 1 < m) /\ n # 0
          /\ n - m \in 1 .. Len(rest) /\ m + (n - m) = n /\ (n - 1) - m = (n - m) - 1
      BY <1>0, <1>4, <2>4
    <3>1. h[n] = g[n - m] /\ h[n - 1] = g[(n - m) - 1] /\ n - m \in 1 .. Len(rest) /\ m + (n - m) = n
      BY <3>0
    <3>2. q[n] = rest[n - m]
      BY <1>0, <1>4, <3>1
    <3> HIDE DEF h
    <3> QED BY <1>3, <3>0, <3>1, <3>2
  <2>5. n = 0 \/ (n # 0 /\ n < m) \/ (n # 0 /\ n = m) \/ n > m
    <3>1. n \in Int /\ m \in Int
      BY <1>0, <1>4
    <3> HIDE DEF m
    <3> QED BY <3>1
  <2> HIDE DEF h
  <2> QED BY <2>1, <2>2, <2>3, <2>4, <2>5
<1>6. h = [n \in 0 .. Len(q) |-> IF n = 0 THEN s ELSE CarryOne(p, q[n], apart, h[n - 1])]
  BY <1>0, <1>4, <1>5
<1>7. h[Len(q)] = g[Len(rest)]
  BY <1>0, <1>4
<1> HIDE DEF h
<1>8. PICK e : Run(e, p, q, apart, s) /\ e[Len(q)] = g[Len(rest)]
  BY <1>6, <1>7 DEF Run
<1>9. Carried(p, q, apart, s) = e[Len(q)]
  BY <1>8, CarriedRun
<1> QED BY <1>2, <1>8, <1>9 DEF t, Splits

LEMMA CarriedNothing ==
    ASSUME NEW p, NEW q \in Seq(Op), Len(q) = 0, NEW apart, NEW s
    PROVE  Carried(p, q, apart, s) = s
<1>1. PICK f : Run(f, p, q, apart, s) /\ Carried(p, q, apart, s) = f[Len(q)]
  BY CarriedIs
<1>2. f[0] = s
  <2>1. 0 \in 0 .. Len(q)
    OBVIOUS
  <2> QED BY <1>1, <2>1 DEF Run
<1> QED BY <1>1, <1>2

\* One write more.
LEMMA CarriedSingle ==
    ASSUME NEW p, NEW q \in Seq(Op), Len(q) = 1, NEW apart, NEW s
    PROVE  Carried(p, q, apart, s) = CarryOne(p, q[1], apart, s)
<1>1. PICK f : Run(f, p, q, apart, s) /\ Carried(p, q, apart, s) = f[Len(q)]
  BY CarriedIs
<1>2. f[0] = s /\ \A n \in 1 .. Len(q) : f[n] = CarryOne(p, q[n], apart, f[n - 1])
  BY <1>1, RunSteps
<1>3. f[1] = CarryOne(p, q[1], apart, f[0])
  <2>1. 1 \in 1 .. Len(q) /\ 1 - 1 = 0
    OBVIOUS
  <2>2. f[1] = CarryOne(p, q[1], apart, f[1 - 1])
    BY <1>2, <2>1
  <2> QED BY <2>1, <2>2
<1> QED BY <1>1, <1>2, <1>3

\* carrying r out is carrying q out and then op
Adds(p, r, q, op, apart, s) ==
    Carried(p, r, apart, s) = CarryOne(p, op, apart, Carried(p, q, apart, s))

LEMMA CarriedAppend ==
    ASSUME NEW p, NEW q \in Seq(Op), NEW op \in Op, NEW r, r = Append(q, op), NEW apart, NEW s
    PROVE  Adds(p, r, q, op, apart, s)
<1>1. PICK one \in Seq(Op) : Len(one) = 1 /\ one[1] = op /\ DOMAIN one = {1}
  <2>1. <<op>> \in Seq(Op) /\ Len(<<op>>) = 1 /\ <<op>>[1] = op /\ DOMAIN <<op>> = {1}
    OBVIOUS
  <2> QED BY <2>1
<1>2. r \in Seq(Op) /\ Joins(r, q, one)
  BY <1>1 DEF Joins
<1>3. Splits(p, r, q, one, apart, s)
  BY <1>2, CarriedConcat
<1>4. \A t : Carried(p, one, apart, t) = CarryOne(p, op, apart, t)
  BY <1>1, CarriedSingle
<1> QED BY <1>3, <1>4 DEF Splits, Adds

\* The same writes in other words, as long as they can be carried out.
LEMMA CarriedAlike ==
    ASSUME NEW p \in Parents, NEW q \in Seq(Op), NEW r \in Seq(Op), Len(q) = Len(r), NEW s \in Database, NEW a, NEW b,
           \A i \in DOMAIN r : \A t \in Database :
                CarryOne(p, r[i], a, t) # None =>
                    CarryOne(p, q[i], b, t) = CarryOne(p, r[i], a, t),
           Carried(p, r, a, s) # None
    PROVE  Carried(p, q, b, s) = Carried(p, r, a, s)
<1>1. PICK f : Run(f, p, r, a, s) /\ Carried(p, r, a, s) = f[Len(r)]
  BY CarriedIs
<1>2. PICK g : Run(g, p, q, b, s) /\ Carried(p, q, b, s) = g[Len(q)]
  BY CarriedIs
<1>3. /\ f[0] = s /\ \A n \in 1 .. Len(r) : f[n] = CarryOne(p, r[n], a, f[n - 1])
                                             /\ r[n] \in Op /\ n \in DOMAIN r
      /\ g[0] = s /\ \A n \in 1 .. Len(r) : g[n] = CarryOne(p, q[n], b, g[n - 1])
  BY <1>1, <1>2, RunSteps
<1>4. Len(r) \in Nat
  OBVIOUS
<1> DEFINE same == [n \in 0 .. Len(r) |->
                        IF f[n] # None => f[n] \in Database /\ f[n] = g[n] THEN 1 ELSE 0]
<1>0. same \in [0 .. Len(r) -> {0, 1}]
  OBVIOUS
<1>5. ASSUME NEW n \in 1 .. Len(r), same[n - 1] = 1 PROVE same[n] = 1
  <2>1. n - 1 \in 0 .. Len(r) /\ n \in 0 .. Len(r)
    BY <1>4
  <2>2. f[n - 1] # None => f[n - 1] \in Database /\ f[n - 1] = g[n - 1]
    BY <1>5, <2>1
  <2> HIDE DEF same
  <2>0. ASSUME f[n] # None PROVE f[n] \in Database /\ f[n] = g[n]
    <3>1. /\ f[n - 1] # None /\ Possible(p, r[n], f[n - 1])
          /\ f[n] = Effect(p, r[n], Filter(a, r[n], f[n - 1]), f[n - 1])
      BY <1>3, <2>0 DEF CarryOne
    <3>2. f[n - 1] \in Database /\ r[n] \in Op
      BY <1>3, <2>2, <3>1
    <3>3. f[n] \in Database
      BY <3>1, <3>2, EffectIs
    <3>4. CarryOne(p, q[n], b, f[n - 1]) = CarryOne(p, r[n], a, f[n - 1])
      BY <1>3, <2>0, <3>2
    <3>5. g[n] = CarryOne(p, q[n], b, f[n - 1])
      BY <1>3, <2>2, <3>1
    <3> QED BY <1>3, <3>3, <3>4, <3>5
  <2> QED BY <2>0, <2>1 DEF same
<1>6. same[0] = 1
  BY <1>3, <1>4
<1>7. same[Len(r)] = 1
  <2> HIDE DEF same
  <2> QED BY <1>0, <1>4, <1>5, <1>6, CommonInduction
<1>8. f[Len(r)] # None => f[Len(r)] = g[Len(r)]
  BY <1>4, <1>7
<1> QED BY <1>1, <1>2, <1>8

-----------------------------------------------------------------------------
(* What a callback leaves does what the nested write asks for. *)

Many == {"updateMany", "deleteMany"}
\* the writes on many whose guard is a constant
Constant == {kind \in {"update", "delete"} : SameForEveryRow(kind, Rules(kind))}

\* left is what a callback may make of op, in a payload
StandsFor(same, left, op) ==
    \/ left = op /\ (op.kind \in Many => RuleOf(op) \in same)
    \/ op.kind = "upsert" /\ left = [op EXCEPT !.kind = "update"]
    \/ op.kind = "connectOrCreate" /\ \E kind \in {"connect", "create"} :
            left = [op EXCEPT !.kind = kind]

LEMMA ManyAlike ==
    ASSUME TypeOK, NEW p, NEW op \in Op, NEW t, op.kind \in Many, RuleOf(op) \in Constant
    PROVE  Selected(p, op, t) \cap ByGuard(op, t) = Selected(p, op, t) \cap ByConstant(op, t)
<1> DEFINE kind == RuleOf(op)
           R == Rules(kind)
<1>1. kind \in {"update", "delete"} /\ SameForEveryRow(kind, R)
  BY DEF Constant
<1>2. R \in SUBSET Rule
  BY <1>1, RulesAre
<1>3. \A k : Admits(kind, k, t) <=> Always(kind, R)
  <2> SUFFICES ASSUME NEW k PROVE Admits(kind, k, t) <=> Always(kind, R)
    OBVIOUS
  <2> HIDE DEF kind
  <2>1. Guard(kind, R, True(R, k, t, t)) <=> Guard(kind, R, Unconditional(R))
    BY <1>1, <1>2, TruthShape, KnownBeforehand
  <2> QED BY <1>1, <2>1 DEF Admits, Always
<1>4. \A k \in Selected(p, op, t) : k \in Kids /\ Exists(k, t)
  BY DEF Selected, Under, Exists
<1> HIDE DEF R, kind
<1>5. ByConstant(op, t) = IF Always(kind, R) THEN Kids ELSE {}
  BY DEF ByConstant, R, kind
<1>6. ByGuard(op, t) = {k \in Kids : Exists(k, t) /\ Admits(kind, k, t)}
  BY DEF ByGuard, kind
<1>7. CASE Always(kind, R)
  BY <1>3, <1>4, <1>5, <1>6, <1>7
<1>8. CASE ~Always(kind, R)
  BY <1>3, <1>4, <1>5, <1>6, <1>8
<1> QED BY <1>7, <1>8

LEMMA FilterAlike ==
    ASSUME TypeOK, NEW p, NEW op \in Op, NEW t, op.kind \in Many => RuleOf(op) \in Constant
    PROVE  CarryOne(p, op, TRUE, t) = CarryOne(p, op, FALSE, t)
<1>1. CASE op.kind \in Many
  <2>1. \A K : Effect(p, op, K, t) = WriteMany(op, Selected(p, op, t) \cap K, t)
    BY <1>1 DEF Effect, Many
  <2>3. Selected(p, op, t) \cap ByGuard(op, t) = Selected(p, op, t) \cap ByConstant(op, t)
    BY <1>1, ManyAlike
  <2>2. Effect(p, op, ByGuard(op, t), t) = Effect(p, op, ByConstant(op, t), t)
    BY <2>1, <2>3
  <2> QED BY <2>2 DEF CarryOne, Filter
<1>2. CASE op.kind \notin Many
  <2>1. \A K, L : Effect(p, op, K, t) = Effect(p, op, L, t)
    BY <1>2, OpType DEF Effect, Many, UpdateOps
  <2> QED BY <2>1 DEF CarryOne, Filter
<1> QED BY <1>1, <1>2

LEMMA StandsForDoes ==
    ASSUME TypeOK, NEW p \in Parents, NEW op \in Op, NEW left, StandsFor(Constant, left, op),
           NEW t \in Database, CarryOne(p, left, FALSE, t) # None
    PROVE  CarryOne(p, op, TRUE, t) = CarryOne(p, left, FALSE, t)
<1>1. CASE left = op /\ (op.kind \in Many => RuleOf(op) \in Constant)
  BY <1>1, FilterAlike
<1>2. CASE op.kind = "upsert" /\ left = [op EXCEPT !.kind = "update"]
  <2>1. left.kind = "update" /\ left.child = op.child /\ left.val = op.val
    BY <1>2, Kinded DEF UpdateOps
  <2>2. t # None /\ Possible(p, left, t)
    BY DEF CarryOne
  <2>3. Under(p, op.child, t) /\ Exists(op.child, t)
    BY <2>1, <2>2 DEF Possible, Under, Exists
  <2>4. \A K : Effect(p, left, K, t) = Write(left, t) /\ Effect(p, op, K, t) = Write(op, t)
    BY <1>2, <2>1, <2>3 DEF Effect
  <2>5. Write(left, t) = Write(op, t)
    BY <2>1 DEF Write
  <2>6. Possible(p, op, t)
    BY <1>2, <2>3 DEF Possible
  <2> QED BY <2>2, <2>4, <2>5, <2>6 DEF CarryOne
<1>3. CASE op.kind = "connectOrCreate" /\ \E kind \in {"connect", "create"} :
                left = [op EXCEPT !.kind = kind]
  <2>1. PICK kind \in {"connect", "create"} : left = [op EXCEPT !.kind = kind]
    BY <1>3
  <2>2. left.kind = kind /\ left.child = op.child /\ left.val = op.val
    BY <2>1, Kinded DEF UpdateOps
  <2>3. t # None /\ Possible(p, left, t)
    BY DEF CarryOne
  <2>4. Possible(p, op, t) /\ Made(p, op) = Made(p, left)
    BY <1>3, <2>2 DEF Possible, Made
  <2>5. \A K, L : Effect(p, op, K, t) = Effect(p, left, L, t)
    <3>1. CASE kind = "connect"
      <4>1. Exists(op.child, t)
        BY <2>2, <2>3, <3>1 DEF Possible
      <4> QED BY <1>3, <2>2, <3>1, <4>1 DEF Effect
    <3>2. CASE kind = "create"
      <4>1. ~Exists(op.child, t)
        BY <2>2, <2>3, <3>2 DEF Possible
      <4>2. Create(p, op, t) = Create(p, left, t)
        BY <2>2, <2>4 DEF Create
      <4> QED BY <1>3, <2>2, <3>2, <4>1, <4>2 DEF Effect
    <3> QED BY <3>1, <3>2
  <2> QED BY <2>3, <2>4, <2>5 DEF CarryOne
<1> QED BY <1>1, <1>2, <1>3 DEF StandsFor

-----------------------------------------------------------------------------
(* Where the nested writes of a call have gone: A holds the places in q of   *)
(* those done at once, B of those left, in the order they were met in.  D    *)
(* are the places of writes that yield to one another: B has the last of     *)
(* those met, and nothing has the others.                                    *)

\* the nested writes of q at the places in A
Places(q, A) == [i \in DOMAIN A |-> q[A[i]]]

Met(q, rest) == 1 .. Len(q) - Len(rest)
Split(q, rest, A, B, D) ==
    /\ A \in Seq(Nat) /\ B \in Seq(Nat)
    /\ Len(rest) <= Len(q) /\ Len(A) + Len(B) <= Len(q) - Len(rest)
    /\ \A i \in DOMAIN rest : rest[i] = q[Len(q) - Len(rest) + i]
    /\ \A i \in DOMAIN A : A[i] \in Met(q, rest) /\ A[i] \notin D
    /\ \A i \in DOMAIN B : B[i] \in Met(q, rest)
    /\ \A i, j \in DOMAIN A : A[i] = A[j] => i = j
    /\ \A i, j \in DOMAIN B : B[i] = B[j] => i = j
    /\ \A i \in DOMAIN A, j \in DOMAIN B : A[i] # B[j]
    /\ \A n \in Met(q, rest) :
        \/ \E i \in DOMAIN A : A[i] = n
        \/ \E i \in DOMAIN B : B[i] = n
        \/ n \in D /\ \E i \in DOMAIN B : B[i] \in D /\ B[i] > n
    /\ \A i \in DOMAIN B : B[i] \in D => \A n \in Met(q, rest) : n \in D => n <= B[i]

LEMMA SeqIs ==
    ASSUME NEW S, NEW q \in Seq(S)
    PROVE  Len(q) \in Nat /\ DOMAIN q = 1 .. Len(q) /\ \A i \in DOMAIN q : q[i] \in S
OBVIOUS

LEMMA AppendIs ==
    ASSUME NEW S, NEW q \in Seq(S), NEW e \in S, NEW r, r = Append(q, e)
    PROVE  /\ r \in Seq(S) /\ Len(r) = Len(q) + 1 /\ DOMAIN r = 1 .. Len(q) + 1
           /\ \A i \in DOMAIN q : i \in DOMAIN r /\ r[i] = q[i]
           /\ Len(q) + 1 \in DOMAIN r /\ r[Len(q) + 1] = e
           /\ \A i \in DOMAIN r : i \in DOMAIN q \/ i = Len(q) + 1
OBVIOUS

LEMMA PlacesType ==
    ASSUME NEW q \in Seq(Op), NEW rest \in Seq(Op), NEW A, NEW B, NEW D, Split(q, rest, A, B, D)
    PROVE  /\ Places(q, A) \in Seq(Op) /\ Len(Places(q, A)) = Len(A) /\ DOMAIN Places(q, A) = DOMAIN A
           /\ \A i \in DOMAIN A : Places(q, A)[i] = q[A[i]] /\ A[i] \in DOMAIN q /\ q[A[i]] \in Op
           /\ \A i \in DOMAIN B : B[i] \in DOMAIN q /\ q[B[i]] \in Op
<1>1. /\ Len(q) \in Nat /\ DOMAIN q = 1 .. Len(q) /\ Len(rest) \in Nat
      /\ \A i \in DOMAIN q : q[i] \in Op
  BY SeqIs
<1>2. DOMAIN A = 1 .. Len(A) /\ Len(A) \in Nat
  BY SeqIs DEF Split
<1>3. Met(q, rest) \subseteq DOMAIN q
  BY <1>1 DEF Met
<1>4. /\ \A i \in DOMAIN A : A[i] \in DOMAIN q /\ q[A[i]] \in Op
      /\ \A i \in DOMAIN B : B[i] \in DOMAIN q /\ q[B[i]] \in Op
  BY <1>1, <1>3 DEF Split
<1>5. Places(q, A) \in [1 .. Len(A) -> Op]
  BY <1>2, <1>4 DEF Places
<1>6. Places(q, A) \in Seq(Op) /\ Len(Places(q, A)) = Len(A) /\ DOMAIN Places(q, A) = DOMAIN A
  BY <1>2, <1>5
<1> QED BY <1>4, <1>6 DEF Places

LEMMA SplitStart ==
    ASSUME NEW q \in Seq(Op), NEW D
    PROVE  \E A, B : Split(q, q, A, B, D) /\ Len(A) = 0 /\ Len(B) = 0
<1>1. PICK none \in Seq(Nat) : Len(none) = 0
  <2>1. <<>> \in Seq(Nat) /\ Len(<<>>) = 0
    OBVIOUS
  <2> QED BY <2>1
<1>2. DOMAIN none = {} /\ Len(q) \in Nat /\ DOMAIN q = 1 .. Len(q)
  BY <1>1, SeqIs
<1>3. Met(q, q) = {} /\ Len(q) <= Len(q) /\ 0 + 0 <= Len(q) - Len(q)
  BY <1>2 DEF Met
<1>4. \A i \in DOMAIN q : q[i] = q[Len(q) - Len(q) + i]
  BY <1>2
<1>5. Split(q, q, none, none, D)
  BY <1>1, <1>2, <1>3, <1>4 DEF Split
<1> QED BY <1>1, <1>5

\* The next write is in a place neither A nor B has.
LEMMA SplitNext ==
    ASSUME NEW q \in Seq(Op), NEW rest \in Seq(Op), NEW A, NEW B, NEW D, Split(q, rest, A, B, D),
           rest # <<>>, NEW n, n = Len(q) - Len(rest) + 1
    PROVE  /\ n \in DOMAIN q /\ n \in Nat /\ q[n] = Head(rest) /\ q[n] \in Op
           /\ Len(Tail(rest)) <= Len(q) /\ Len(q) - Len(Tail(rest)) = n
           /\ \A i \in DOMAIN Tail(rest) : Tail(rest)[i] = q[n + i]
           /\ Met(q, rest) \in SUBSET Nat /\ \A m \in Met(q, rest) : m < n
           /\ Met(q, Tail(rest)) = Met(q, rest) \cup {n}
<1>1. /\ Len(q) \in Nat /\ DOMAIN q = 1 .. Len(q) /\ Len(rest) \in Nat /\ DOMAIN rest = 1 .. Len(rest)
      /\ \A i \in DOMAIN q : q[i] \in Op
  BY SeqIs
<1>2. /\ Len(Tail(rest)) = Len(rest) - 1 /\ DOMAIN Tail(rest) = 1 .. Len(rest) - 1
      /\ Len(rest) > 0 /\ Head(rest) = rest[1]
      /\ \A i \in DOMAIN Tail(rest) : Tail(rest)[i] = rest[i + 1] /\ i + 1 \in DOMAIN rest
  OBVIOUS
<1>3. /\ Len(rest) <= Len(q)
      /\ \A i \in DOMAIN rest : rest[i] = q[Len(q) - Len(rest) + i]
  BY DEF Split
<1>4. n \in DOMAIN q /\ n \in Nat /\ q[n] = Head(rest) /\ q[n] \in Op
  <2>1. n \in DOMAIN q /\ n \in Nat
    BY <1>1, <1>2, <1>3
  <2>2. 1 \in DOMAIN rest
    BY <1>1, <1>2
  <2> QED BY <1>1, <1>2, <1>3, <2>1, <2>2
<1>5. Len(Tail(rest)) <= Len(q) /\ Len(q) - Len(Tail(rest)) = n
  BY <1>1, <1>2, <1>3
<1>6. ASSUME NEW i \in DOMAIN Tail(rest) PROVE Tail(rest)[i] = q[n + i]
  <2>1. Tail(rest)[i] = rest[i + 1] /\ i + 1 \in DOMAIN rest /\ i \in Int
    BY <1>1, <1>2
  <2>2. Len(q) - Len(rest) + (i + 1) = n + i
    BY <1>1, <2>1
  <2> QED BY <1>3, <2>1, <2>2
<1>7. /\ Met(q, rest) \in SUBSET Nat /\ \A m \in Met(q, rest) : m < n
      /\ Met(q, Tail(rest)) = Met(q, rest) \cup {n}
  <2>1. Met(q, Tail(rest)) = 1 .. n /\ Met(q, rest) = 1 .. n - 1
    BY <1>1, <1>5 DEF Met
  <2> QED BY <1>4, <2>1
<1> QED BY <1>4, <1>5, <1>6, <1>7

\* It is done at once,
LEMMA SplitNow ==
    ASSUME NEW q \in Seq(Op), NEW rest \in Seq(Op), NEW A, NEW B, NEW D, Split(q, rest, A, B, D),
           rest # <<>>, NEW n, n = Len(q) - Len(rest) + 1, n \notin D
    PROVE  Split(q, Tail(rest), Append(A, n), B, D)
<1>1. /\ n \in Nat /\ Len(Tail(rest)) <= Len(q) /\ Len(q) - Len(Tail(rest)) = n
      /\ \A i \in DOMAIN Tail(rest) : Tail(rest)[i] = q[n + i]
      /\ Met(q, rest) \in SUBSET Nat /\ \A m \in Met(q, rest) : m < n
      /\ Met(q, Tail(rest)) = Met(q, rest) \cup {n}
  BY SplitNext
<1>2. /\ A \in Seq(Nat) /\ B \in Seq(Nat)
      /\ Len(A) \in Nat /\ DOMAIN A = 1 .. Len(A) /\ Len(B) \in Nat /\ DOMAIN B = 1 .. Len(B)
      /\ Len(q) \in Nat /\ Len(rest) \in Nat
  BY SeqIs DEF Split
<1>3. PICK met : met = Met(q, rest)
  OBVIOUS
<1>4. /\ \A i \in DOMAIN A : A[i] \in met /\ A[i] \notin D /\ A[i] # n
      /\ \A i \in DOMAIN B : B[i] \in met /\ B[i] # n
      /\ \A i, j \in DOMAIN A : A[i] = A[j] => i = j
      /\ \A i, j \in DOMAIN B : B[i] = B[j] => i = j
      /\ \A i \in DOMAIN A, j \in DOMAIN B : A[i] # B[j]
  BY <1>1, <1>3 DEF Split
<1>5. \A m \in met : \/ \E i \in DOMAIN A : A[i] = m
                     \/ \E i \in DOMAIN B : B[i] = m
                     \/ m \in D /\ \E i \in DOMAIN B : B[i] \in D /\ B[i] > m
  BY <1>3 DEF Split
<1>6. \A i \in DOMAIN B : B[i] \in D => \A m \in met : m \in D => m <= B[i]
  BY <1>3 DEF Split
<1>7. PICK E : E = Append(A, n)
  OBVIOUS
<1>8. /\ E \in Seq(Nat) /\ Len(E) = Len(A) + 1
      /\ \A i \in DOMAIN A : i \in DOMAIN E /\ E[i] = A[i]
      /\ \E i \in DOMAIN E : E[i] = n
      /\ \A i \in DOMAIN E : i \in DOMAIN A \/ (i = Len(A) + 1 /\ E[i] = n)
  <2>1. /\ E \in Seq(Nat) /\ Len(E) = Len(A) + 1
        /\ \A i \in DOMAIN A : i \in DOMAIN E /\ E[i] = A[i]
        /\ Len(A) + 1 \in DOMAIN E /\ E[Len(A) + 1] = n
        /\ \A i \in DOMAIN E : i \in DOMAIN A \/ i = Len(A) + 1
    BY <1>1, <1>2, <1>7, AppendIs
  <2> QED BY <2>1
<1>9. Len(E) + Len(B) <= n
  <2>1. Len(A) + Len(B) <= Len(q) - Len(rest)
    BY Zenon DEF Split
  <2> QED BY <1>2, <1>8, <2>1
<1>10. \A i \in DOMAIN E : E[i] \in met \cup {n} /\ E[i] \notin D
  BY <1>4, <1>8
<1>11. \A i, j \in DOMAIN E : E[i] = E[j] => i = j
  BY <1>4, <1>8
<1>12. \A i \in DOMAIN E, j \in DOMAIN B : E[i] # B[j]
  BY <1>4, <1>8
<1>13. \A m \in met \cup {n} : \/ \E i \in DOMAIN E : E[i] = m
                               \/ \E i \in DOMAIN B : B[i] = m
                               \/ m \in D /\ \E i \in DOMAIN B : B[i] \in D /\ B[i] > m
  BY <1>5, <1>8
<1>14. \A i \in DOMAIN B : B[i] \in D => \A m \in met \cup {n} : m \in D => m <= B[i]
  BY <1>6
<1>15. Met(q, Tail(rest)) = met \cup {n}
  BY <1>1, <1>3
<1>16. Split(q, Tail(rest), E, B, D)
  BY <1>1, <1>2, <1>4, <1>8, <1>9, <1>10, <1>11, <1>12, <1>13, <1>14, <1>15 DEF Split
<1> QED BY <1>7, <1>16

\* or left, provided that none it yields to has been left,
LEMMA SplitLater ==
    ASSUME NEW q \in Seq(Op), NEW rest \in Seq(Op), NEW A, NEW B, NEW D, Split(q, rest, A, B, D),
           rest # <<>>, NEW n, n = Len(q) - Len(rest) + 1,
           n \in D => \A i \in DOMAIN B : B[i] \notin D
    PROVE  Split(q, Tail(rest), A, Append(B, n), D)
<1>1. /\ n \in Nat /\ Len(Tail(rest)) <= Len(q) /\ Len(q) - Len(Tail(rest)) = n
      /\ \A i \in DOMAIN Tail(rest) : Tail(rest)[i] = q[n + i]
      /\ Met(q, rest) \in SUBSET Nat /\ \A m \in Met(q, rest) : m < n
      /\ Met(q, Tail(rest)) = Met(q, rest) \cup {n}
  BY SplitNext
<1>2. /\ A \in Seq(Nat) /\ B \in Seq(Nat)
      /\ Len(A) \in Nat /\ DOMAIN A = 1 .. Len(A) /\ Len(B) \in Nat /\ DOMAIN B = 1 .. Len(B)
      /\ Len(q) \in Nat /\ Len(rest) \in Nat
  BY SeqIs DEF Split
<1>3. PICK met : met = Met(q, rest)
  OBVIOUS
<1>4. /\ \A i \in DOMAIN A : A[i] \in met /\ A[i] \notin D /\ A[i] # n
      /\ \A i \in DOMAIN B : B[i] \in met /\ B[i] # n
      /\ \A i, j \in DOMAIN A : A[i] = A[j] => i = j
      /\ \A i, j \in DOMAIN B : B[i] = B[j] => i = j
      /\ \A i \in DOMAIN A, j \in DOMAIN B : A[i] # B[j]
  BY <1>1, <1>3 DEF Split
<1>5. \A m \in met : \/ \E i \in DOMAIN A : A[i] = m
                     \/ \E i \in DOMAIN B : B[i] = m
                     \/ m \in D /\ \E i \in DOMAIN B : B[i] \in D /\ B[i] > m
  BY <1>3 DEF Split
<1>6. \A i \in DOMAIN B : B[i] \in D => \A m \in met : m \in D => m <= B[i]
  BY <1>3 DEF Split
<1>7. PICK E : E = Append(B, n)
  OBVIOUS
<1>8. /\ E \in Seq(Nat) /\ Len(E) = Len(B) + 1
      /\ \A i \in DOMAIN B : i \in DOMAIN E /\ E[i] = B[i]
      /\ \E i \in DOMAIN E : E[i] = n
      /\ \A i \in DOMAIN E : i \in DOMAIN B \/ (i = Len(B) + 1 /\ E[i] = n)
  <2>1. /\ E \in Seq(Nat) /\ Len(E) = Len(B) + 1
        /\ \A i \in DOMAIN B : i \in DOMAIN E /\ E[i] = B[i]
        /\ Len(B) + 1 \in DOMAIN E /\ E[Len(B) + 1] = n
        /\ \A i \in DOMAIN E : i \in DOMAIN B \/ i = Len(B) + 1
    BY <1>1, <1>2, <1>7, AppendIs
  <2> QED BY <2>1
<1>9. Len(A) + Len(E) <= n
  <2>1. Len(A) + Len(B) <= Len(q) - Len(rest)
    BY Zenon DEF Split
  <2> QED BY <1>2, <1>8, <2>1
<1>10. \A i \in DOMAIN E : E[i] \in met \cup {n}
  BY <1>4, <1>8
<1>11. \A i, j \in DOMAIN E : E[i] = E[j] => i = j
  BY <1>4, <1>8
<1>12. \A i \in DOMAIN A, j \in DOMAIN E : A[i] # E[j]
  BY <1>4, <1>8
<1>13. \A m \in met \cup {n} : \/ \E i \in DOMAIN A : A[i] = m
                               \/ \E i \in DOMAIN E : E[i] = m
                               \/ m \in D /\ \E i \in DOMAIN E : E[i] \in D /\ E[i] > m
  BY <1>5, <1>8
<1>14. ASSUME NEW i \in DOMAIN E, E[i] \in D, NEW m \in met \cup {n}, m \in D
       PROVE  m <= E[i]
  <2>1. CASE E[i] = n
    BY <1>1, <1>3, <2>1
  <2>2. CASE i \in DOMAIN B /\ E[i] = B[i]
    <3>1. n \notin D
      BY <1>14, <2>2
    <3> QED BY <1>6, <1>14, <2>2, <3>1
  <2> QED BY <1>8, <2>1, <2>2
<1>15. Met(q, Tail(rest)) = met \cup {n}
  BY <1>1, <1>3
<1>16. Split(q, Tail(rest), A, E, D)
  BY <1>1, <1>2, <1>4, <1>8, <1>9, <1>10, <1>11, <1>12, <1>13, <1>14, <1>15 DEF Split
<1> QED BY <1>7, <1>16

\* or takes the place of the one that yields to it.
LEMMA SplitInstead ==
    ASSUME NEW q \in Seq(Op), NEW rest \in Seq(Op), NEW A, NEW B, NEW D, Split(q, rest, A, B, D),
           rest # <<>>, NEW n, n = Len(q) - Len(rest) + 1, n \in D,
           NEW last \in DOMAIN B, B[last] \in D
    PROVE  /\ Split(q, Tail(rest), A, [B EXCEPT ![last] = n], D)
           /\ \A i \in DOMAIN B : B[i] \in D => i = last
<1>1. /\ n \in Nat /\ Len(Tail(rest)) <= Len(q) /\ Len(q) - Len(Tail(rest)) = n
      /\ \A i \in DOMAIN Tail(rest) : Tail(rest)[i] = q[n + i]
      /\ Met(q, rest) \in SUBSET Nat /\ \A m \in Met(q, rest) : m < n
      /\ Met(q, Tail(rest)) = Met(q, rest) \cup {n}
  BY SplitNext
<1>2. /\ A \in Seq(Nat) /\ B \in Seq(Nat)
      /\ Len(A) \in Nat /\ DOMAIN A = 1 .. Len(A) /\ Len(B) \in Nat /\ DOMAIN B = 1 .. Len(B)
      /\ Len(q) \in Nat /\ Len(rest) \in Nat
  BY SeqIs DEF Split
<1>3. PICK met : met = Met(q, rest)
  OBVIOUS
<1>4. /\ \A i \in DOMAIN A : A[i] \in met /\ A[i] \notin D /\ A[i] # n
      /\ \A i \in DOMAIN B : B[i] \in met /\ B[i] # n
      /\ \A i, j \in DOMAIN A : A[i] = A[j] => i = j
      /\ \A i, j \in DOMAIN B : B[i] = B[j] => i = j
      /\ \A i \in DOMAIN A, j \in DOMAIN B : A[i] # B[j]
  BY <1>1, <1>3 DEF Split
<1>5. \A m \in met : \/ \E i \in DOMAIN A : A[i] = m
                     \/ \E i \in DOMAIN B : B[i] = m
                     \/ m \in D /\ \E i \in DOMAIN B : B[i] \in D /\ B[i] > m
  BY <1>3 DEF Split
<1>6. \A i \in DOMAIN B : B[i] \in D => \A m \in met : m \in D => m <= B[i]
  BY <1>3 DEF Split
<1>0. \A m \in met : m \in Nat /\ m < n
  BY <1>1, <1>3
<1>x. \A i \in DOMAIN B : B[i] \in D => i = last
  <2> SUFFICES ASSUME NEW i \in DOMAIN B, B[i] \in D PROVE i = last
    OBVIOUS
  <2>1. B[i] \in Nat /\ B[last] \in Nat /\ B[i] <= B[last] /\ B[last] <= B[i]
    BY <1>0, <1>4, <1>6
  <2> QED BY <1>4, <2>1
<1>7. PICK E : E = [B EXCEPT ![last] = n]
  OBVIOUS
<1>8. /\ E \in Seq(Nat) /\ Len(E) = Len(B) /\ DOMAIN E = DOMAIN B
      /\ E[last] = n /\ \A i \in DOMAIN B : i # last => E[i] = B[i]
  BY <1>1, <1>2, <1>7
<1>9. Len(A) + Len(E) <= n
  <2>1. Len(A) + Len(B) <= Len(q) - Len(rest)
    BY DEF Split
  <2> QED BY <1>2, <1>8, <2>1
<1>10. \A i \in DOMAIN E : E[i] \in met \cup {n}
  BY <1>4, <1>8
<1>11. \A i, j \in DOMAIN E : E[i] = E[j] => i = j
  BY <1>4, <1>8
<1>12. \A i \in DOMAIN A, j \in DOMAIN E : A[i] # E[j]
  BY <1>4, <1>8
<1>13. ASSUME NEW m \in met \cup {n}
       PROVE  \/ \E i \in DOMAIN A : A[i] = m
              \/ \E i \in DOMAIN E : E[i] = m
              \/ m \in D /\ \E i \in DOMAIN E : E[i] \in D /\ E[i] > m
  <2>1. CASE m = n
    BY <1>8, <2>1
  <2>2. CASE m \in met /\ m \in D
    BY <1>0, <1>1, <1>8, <2>2
  <2>3. CASE m \in met /\ m \notin D
    <3>1. CASE \E i \in DOMAIN A : A[i] = m
      BY <3>1
    <3>2. CASE \E i \in DOMAIN B : B[i] = m
      BY <1>8, <2>3, <3>2
    <3> QED BY <1>5, <2>3, <3>1, <3>2
  <2> QED BY <2>1, <2>2, <2>3
<1>14. ASSUME NEW i \in DOMAIN E, E[i] \in D, NEW m \in met \cup {n}, m \in D
       PROVE  m <= E[i]
  <2>1. i = last
    BY <1>8, <1>14, <1>x
  <2> QED BY <1>0, <1>1, <1>8, <2>1
<1>15. Met(q, Tail(rest)) = met \cup {n}
  BY <1>1, <1>3
<1>16. Split(q, Tail(rest), A, E, D)
  BY <1>1, <1>2, <1>4, <1>8, <1>9, <1>10, <1>11, <1>12, <1>13, <1>14, <1>15 DEF Split
<1> QED BY <1>7, <1>16, <1>x

\* those at the places in B, in the order f
Ordered(q, B, f) == [i \in DOMAIN B |-> q[B[f[i]]]]
\* the places of the writes that none takes the place of
Lasting(q, D) == {n \in DOMAIN q : ~(n \in D /\ \E m \in D : m > n)}

LEMMA InjectionOntoItself ==
    ASSUME NEW n \in Nat, NEW f \in [1 .. n -> 1 .. n], \A i, j \in 1 .. n : f[i] = f[j] => i = j
    PROVE  \A k \in 1 .. n : \E i \in 1 .. n : f[i] = k
<1> SUFFICES ASSUME NEW k \in 1 .. n, \A i \in 1 .. n : f[i] # k
             PROVE  FALSE
  OBVIOUS
<1> DEFINE S == 1 .. n
           T == (1 .. n) \ {k}
<1>1. IsFiniteSet(S) /\ Cardinality(S) = n
  BY FS_Interval
<1>2. IsFiniteSet(T) /\ Cardinality(T) = Cardinality(S) - 1
  BY <1>1, FS_RemoveElement
<1>3. f \in [S -> T]
  OBVIOUS
<1>4. Cardinality(T) < Cardinality(S)
  BY <1>1, <1>2
<1> HIDE DEF S, T
<1>5. \E i, j \in S : i # j /\ f[i] = f[j]
  BY ONLY <1>1, <1>2, <1>3, <1>4, FS_PigeonHole
<1> QED BY <1>5 DEF S

\* At the end: what was done at once and then what was left, in an order of the
\* database's, is an order of all the writes that last.
LEMMA SplitOrders ==
    ASSUME NEW q \in Seq(Op), NEW rest \in Seq(Op), Len(rest) = 0,
           NEW A, NEW B, NEW D, Split(q, rest, A, B, D), D \subseteq DOMAIN q,
           NEW f \in [DOMAIN B -> DOMAIN B], \A i, j \in DOMAIN B : f[i] = f[j] => i = j
    PROVE  /\ Ordered(q, B, f) \in Seq(Op) /\ Len(Ordered(q, B, f)) = Len(B)
           /\ \E r \in OrdersOf(q, Lasting(q, D)) :
                r \in Seq(Op) /\ Joins(r, Places(q, A), Ordered(q, B, f))
<1> DEFINE last == [i \in DOMAIN B |-> q[B[f[i]]]]
           a == Len(A)
           n == Len(A) + Len(B)
           S == Lasting(q, D)
           g == [i \in 1 .. n |-> IF i <= a THEN A[i] ELSE B[f[i - a]]]
           r == [i \in 1 .. n |-> q[g[i]]]
<1>1. /\ Len(q) \in Nat /\ DOMAIN q = 1 .. Len(q) /\ \A i \in DOMAIN q : q[i] \in Op
      /\ a \in Nat /\ DOMAIN A = 1 .. a /\ Len(B) \in Nat /\ DOMAIN B = 1 .. Len(B)
  BY SeqIs DEF Split
<1>2. Met(q, rest) = DOMAIN q
  BY <1>1 DEF Met
<1>3. /\ \A i \in DOMAIN A : A[i] \in DOMAIN q /\ A[i] \notin D
      /\ \A i \in DOMAIN B : B[i] \in DOMAIN q
      /\ \A i, j \in DOMAIN A : A[i] = A[j] => i = j
      /\ \A i, j \in DOMAIN B : B[i] = B[j] => i = j
      /\ \A i \in DOMAIN A, j \in DOMAIN B : A[i] # B[j]
      /\ \A m \in DOMAIN q : \/ \E i \in DOMAIN A : A[i] = m
                             \/ \E i \in DOMAIN B : B[i] = m
                             \/ m \in D /\ \E i \in DOMAIN B : B[i] \in D /\ B[i] > m
      /\ \A i \in DOMAIN B : B[i] \in D => \A m \in DOMAIN q : m \in D => m <= B[i]
  BY <1>2 DEF Split
<1>n. n \in Nat /\ n = a + Len(B) /\ n \in 0 .. Len(q)
  <2>1. Len(A) + Len(B) <= Len(q) - Len(rest)
    BY Zenon DEF Split
  <2> QED BY <1>1, <2>1
<1>s. /\ \A i \in DOMAIN A : A[i] \in S
      /\ \A i \in DOMAIN B : B[i] \in S
      /\ \A m \in S : (\E i \in DOMAIN A : A[i] = m) \/ (\E i \in DOMAIN B : B[i] = m)
  <2>1. \A i \in DOMAIN A : A[i] \in S
    BY <1>3 DEF Lasting
  <2>2. ASSUME NEW i \in DOMAIN B PROVE B[i] \in S
    <3>1. ASSUME B[i] \in D, NEW m \in D PROVE ~(m > B[i])
      <4>1. m \in DOMAIN q /\ m <= B[i] /\ B[i] \in DOMAIN q
        BY <1>3, <3>1
      <4> QED BY <1>1, <4>1
    <3> QED BY <1>3, <3>1 DEF Lasting
  <2>3. ASSUME NEW m \in S
        PROVE  (\E i \in DOMAIN A : A[i] = m) \/ (\E i \in DOMAIN B : B[i] = m)
    BY <1>3 DEF Lasting
  <2> QED BY <2>1, <2>2, <2>3
<1> HIDE DEF a, n, S
<1>4. \A i \in 1 .. n : \/ i \in DOMAIN A /\ i <= a
                        \/ i - a \in DOMAIN B /\ ~(i <= a)
  BY <1>1, <1>n
<1>5. ASSUME NEW i \in 1 .. n
      PROVE  \/ i \in DOMAIN A /\ g[i] = A[i]
             \/ i - a \in DOMAIN B /\ f[i - a] \in DOMAIN B /\ g[i] = B[f[i - a]]
  BY <1>4
<1>6. g \in [1 .. n -> S]
  BY <1>s, <1>4
<1>7. ASSUME NEW i \in 1 .. n, NEW j \in 1 .. n, g[i] = g[j]
      PROVE  i = j
  <2> HIDE DEF g
  <2>0. /\ \A k, l \in DOMAIN A : A[k] = A[l] => k = l
        /\ \A k, l \in DOMAIN B : B[k] = B[l] => k = l
        /\ \A k \in DOMAIN A, l \in DOMAIN B : A[k] # B[l]
    BY <1>3
  <2>1. CASE i \in DOMAIN A /\ g[i] = A[i] /\ j \in DOMAIN A /\ g[j] = A[j]
    BY <2>0, <1>7, <2>1
  <2>2. CASE /\ i - a \in DOMAIN B /\ f[i - a] \in DOMAIN B /\ g[i] = B[f[i - a]]
             /\ j - a \in DOMAIN B /\ f[j - a] \in DOMAIN B /\ g[j] = B[f[j - a]]
    <3>1. f[i - a] = f[j - a]
      BY <2>0, <1>7, <2>2
    <3>2. i - a = j - a
      BY <2>2, <3>1
    <3> QED BY <1>1, <3>2
  <2>3. CASE i \in DOMAIN A /\ g[i] = A[i] /\ f[j - a] \in DOMAIN B /\ g[j] = B[f[j - a]]
    BY <2>0, <1>7, <2>3
  <2>4. CASE j \in DOMAIN A /\ g[j] = A[j] /\ f[i - a] \in DOMAIN B /\ g[i] = B[f[i - a]]
    BY <2>0, <1>7, <2>4
  <2> QED BY <1>5, <2>1, <2>2, <2>3, <2>4
\* where the writes of first and last are in r
<1>places. /\ \A i \in DOMAIN A : i \in 1 .. n /\ g[i] = A[i]
           /\ \A i \in DOMAIN B : a + i \in 1 .. n /\ g[a + i] = B[f[i]]
  <2>1. \A i \in DOMAIN A : i \in 1 .. n /\ i <= a
    BY <1>1, <1>n
  <2>2. \A i \in DOMAIN B : a + i \in 1 .. n /\ ~(a + i <= a) /\ (a + i) - a = i
    BY <1>1, <1>n
  <2> QED BY <2>1, <2>2
<1>onto. ASSUME NEW m \in S PROVE \E i \in 1 .. n : g[i] = m
  <2>1. CASE \E i \in DOMAIN A : A[i] = m
    <3> HIDE DEF g
    <3> QED BY <2>1, <1>places
  <2>2. CASE \E i \in DOMAIN B : B[i] = m
    <3>1. PICK k \in DOMAIN B : B[k] = m
      BY <2>2
    <3>2. PICK i \in DOMAIN B : f[i] = k
      <4>1. PICK b : b = Len(B)
        OBVIOUS
      <4>2. b \in Nat /\ f \in [1 .. b -> 1 .. b] /\ k \in 1 .. b /\ DOMAIN B = 1 .. b
        BY <1>1, <3>1, <4>1
      <4>3. \A i, j \in 1 .. b : f[i] = f[j] => i = j
        BY <4>2
      <4>4. \E i \in 1 .. b : f[i] = k
        BY ONLY <4>2, <4>3, InjectionOntoItself
      <4> QED BY <4>2, <4>4
    <3> HIDE DEF g
    <3> QED BY <3>1, <3>2, <1>places
  <2> QED BY <1>s, <2>1, <2>2
<1>8. r \in OrdersOf(q, S)
  <2>1. IsInjective(g)
    <3>1. DOMAIN g = 1 .. n
      OBVIOUS
    <3> HIDE DEF g
    <3> QED BY <1>7, <3>1 DEF IsInjective
  <2> HIDE DEF g
  <2>2. g \in Bijection(1 .. n, S)
    BY <1>6, <1>onto, <2>1 DEF Bijection, Injection, Surjection
  <2>3. r \in {[i \in 1 .. n |-> q[e[i]]] : e \in Bijection(1 .. n, S)}
    BY <2>2
  <2> HIDE DEF r
  <2> QED BY <1>n, <2>3 DEF OrdersOf
<1>9. r \in Seq(Op) /\ Len(r) = n /\ \A i \in 1 .. n : r[i] = q[g[i]]
  <2> HIDE DEF g
  <2>1. \A i \in 1 .. n : g[i] \in DOMAIN q
    BY <1>6 DEF S, Lasting
  <2>2. r \in [1 .. n -> Op]
    BY <1>1, <2>1
  <2> QED BY <1>n, <2>2
<1>10. last \in [1 .. Len(B) -> Op]
  BY <1>1, <1>3
<1>11. last \in Seq(Op) /\ Len(last) = Len(B) /\ DOMAIN last = DOMAIN B
  BY <1>1, <1>10
<1>12. Joins(r, Places(q, A), last)
  <2>1. /\ Len(Places(q, A)) = a /\ DOMAIN Places(q, A) = DOMAIN A
        /\ \A i \in DOMAIN A : Places(q, A)[i] = q[A[i]]
    <3>1. Len(Places(q, A)) = Len(A)
      BY PlacesType
    <3>2. DOMAIN Places(q, A) = DOMAIN A /\ \A i \in DOMAIN A : Places(q, A)[i] = q[A[i]]
      BY DEF Places
    <3> QED BY <3>1, <3>2 DEF a
  <2>2. \A i \in DOMAIN B : last[i] = q[B[f[i]]]
    OBVIOUS
  <2> HIDE DEF g, r, last
  <2>3. \A i \in DOMAIN A : r[i] = Places(q, A)[i]
    BY <1>9, <1>places, <2>1
  <2>4. \A i \in DOMAIN B : r[a + i] = last[i]
    BY <1>9, <1>places, <2>2
  <2> QED BY <1>n, <1>9, <1>11, <2>1, <2>3, <2>4 DEF Joins
<1> HIDE DEF r
<1> QED BY <1>8, <1>9, <1>11, <1>12 DEF Ordered, S

-----------------------------------------------------------------------------
(* No step changes the policy, or what carrying out a payload does under it. *)

LEMMA CarriedNow ==
    \A p, q, apart, s : q \in Seq(Op) =>
        \E f : Run(f, p, q, apart, s) /\ Carried(p, q, apart, s) = f[Len(q)]
BY CarriedIs

LEMMA CarriedNext ==
    (\A p, q, apart, s : q \in Seq(Op) =>
        \E f : Run(f, p, q, apart, s) /\ Carried(p, q, apart, s) = f[Len(q)])'
BY CarriedNow, PTL

LEMMA SamePolicy ==
    ASSUME policy' = policy
    PROVE  /\ \A p, q, apart, s : q \in Seq(Op) => Carried(p, q, apart, s)' = Carried(p, q, apart, s)
           /\ Constant' = Constant
<1>1. \A op, s : ByGuard(op, s)' = ByGuard(op, s) /\ ByConstant(op, s)' = ByConstant(op, s)
  BY SameRules DEF ByGuard, Admits, ByConstant, Always
<1>2. \A p, op, apart, t : CarryOne(p, op, apart, t)' = CarryOne(p, op, apart, t)
  BY <1>1 DEF CarryOne, Filter
<1>3. ASSUME NEW p, NEW q \in Seq(Op), NEW apart, NEW s
      PROVE  Carried(p, q, apart, s)' = Carried(p, q, apart, s)
  <2>1. PICK f : Run(f, p, q, apart, s)' /\ Carried(p, q, apart, s)' = f[Len(q)]
    BY CarriedNext
  <2>2. \A n \in 0 .. Len(q) : CarryOne(p, q[n], apart, f[n - 1])' = CarryOne(p, q[n], apart, f[n - 1])
    BY <1>2
  <2>3. Run(f, p, q, apart, s)
    BY <2>1, <2>2 DEF Run
  <2>4. Carried(p, q, apart, s) = f[Len(q)]
    BY <2>3, CarriedRun
  <2> QED BY <2>1, <2>4
<1>4. Constant' = Constant
  BY SameRules DEF Constant
<1> QED BY <1>3, <1>4

-----------------------------------------------------------------------------
(* The nested writes of a call: done at once, left for later, or to come. *)

\* a deleteMany under a guard that is a constant gives way to the next one
Yields(op) == op.kind = "deleteMany" /\ "delete" \in Constant
Yielding == {i \in DOMAIN call.ops : Yields(call.ops[i])}

\* A are the places in the call of the nested writes that were done at once, B
\* of those left: what the visitor has met, but for the overwritten.
Progress ==
    \E A, B :
        /\ Split(call.ops, todo, A, B, Yielding)
        /\ Carried(call.parent, Places(call.ops, A), TRUE, db) = view
        /\ Len(payload) = Len(B)
        /\ \A i \in DOMAIN B : StandsFor(Constant, payload[i], call.ops[B[i]])
        /\ call.op = "create" => Len(A) = 0
\* the last statement has done the rest
AllDone == \E q \in OrdersOf(call.ops, Lasting(call.ops, Yielding)) : Result(q) = view
AppliedInv ==
    /\ pc = "top" => view = db /\ payload = <<>> /\ todo = call.ops
    /\ pc = "visit" => Progress
    /\ pc = "check" => AllDone

\* a callback does its nested write at once,
DoesNow(op) ==
    /\ ~Yields(op) /\ call.op = "update" /\ payload' = payload
    /\ view' = CarryOne(call.parent, op, TRUE, view)
\* leaves something that stands for it
LeavesForLater(op) ==
    /\ view' = view
    /\ Yields(op) => \A i \in DOMAIN payload : payload[i].kind # "deleteMany"
    /\ \E left \in Op : payload' = Append(payload, left) /\ StandsFor(Constant, left, op)
\* or puts it in the place of the one that yields to it
TakesPlace(op) ==
    /\ view' = view /\ Yields(op)
    /\ payload' \in Seq(Op) /\ DOMAIN payload' = DOMAIN payload
    /\ \E i \in DOMAIN payload : payload[i].kind = "deleteMany"
    /\ \A i \in DOMAIN payload :
        payload'[i] = IF payload[i].kind = "deleteMany" THEN op ELSE payload[i]

LEMMA StandsKind ==
    ASSUME NEW op \in Op, NEW left, StandsFor(Constant, left, op)
    PROVE  Yields(op) <=> left.kind = "deleteMany"
<1>1. CASE left = op /\ (op.kind \in Many => RuleOf(op) \in Constant)
  BY <1>1 DEF Many, RuleOf, Yields
<1>2. CASE op.kind = "upsert" /\ left = [op EXCEPT !.kind = "update"]
  BY <1>2, Kinded DEF UpdateOps, Yields
<1>3. CASE op.kind = "connectOrCreate" /\ \E kind \in {"connect", "create"} :
                left = [op EXCEPT !.kind = kind]
  BY <1>3, Kinded DEF UpdateOps, Yields
<1> QED BY <1>1, <1>2, <1>3 DEF StandsFor

LEMMA SameYielding ==
    ASSUME policy' = policy, call' = call
    PROVE  Yielding' = Yielding
BY SamePolicy DEF Yielding, Yields

LEMMA ProgressStarts ==
    ASSUME TypeOK, call \in Calls, view = db, payload = <<>>, todo = call.ops
    PROVE  Progress
<1>1. call.ops \in Seq(Op)
  BY CallType
<1>2. PICK A, B : Split(call.ops, call.ops, A, B, Yielding) /\ Len(A) = 0 /\ Len(B) = 0
  BY <1>1, SplitStart
<1>3. Places(call.ops, A) \in Seq(Op) /\ Len(Places(call.ops, A)) = 0
  BY <1>1, <1>2, PlacesType
<1>4. Carried(call.parent, Places(call.ops, A), TRUE, db) = db
  <2>1. PICK yes : yes = TRUE
    OBVIOUS
  <2>2. Carried(call.parent, Places(call.ops, A), yes, db) = db
    BY <1>3, CarriedNothing
  <2> QED BY <2>1, <2>2
<1>5. DOMAIN B = {} /\ Len(payload) = 0
  <2>1. DOMAIN B = 1 .. Len(B)
    BY <1>2, SeqIs DEF Split
  <2> QED BY <1>2, <2>1
<1> QED BY <1>2, <1>4, <1>5 DEF Progress

LEMMA PlacesAppend ==
    ASSUME NEW q \in Seq(Op), NEW rest \in Seq(Op), NEW A, NEW B, NEW D, Split(q, rest, A, B, D),
           rest # <<>>, NEW n, n = Len(q) - Len(rest) + 1
    PROVE  Places(q, Append(A, n)) = Append(Places(q, A), Head(rest))
<1>1. n \in Nat /\ q[n] = Head(rest) /\ q[n] \in Op
  BY SplitNext
<1>2. Tail(rest) \in Seq(Op)
  OBVIOUS
<1>3. PICK E : E = Append(A, n)
  OBVIOUS
<1>4. A \in Seq(Nat)
  BY DEF Split
<1>5. /\ E \in Seq(Nat) /\ Len(E) = Len(A) + 1 /\ DOMAIN E = 1 .. Len(A) + 1
      /\ \A i \in DOMAIN A : i \in DOMAIN E /\ E[i] = A[i]
      /\ E[Len(A) + 1] = n
      /\ \A i \in DOMAIN E : i \in DOMAIN A \/ i = Len(A) + 1
  BY <1>1, <1>3, <1>4, AppendIs
<1>6. /\ Places(q, A) \in Seq(Op) /\ Len(Places(q, A)) = Len(A) /\ DOMAIN Places(q, A) = DOMAIN A
      /\ \A i \in DOMAIN A : Places(q, A)[i] = q[A[i]]
  BY PlacesType
<1>7. PICK P : P = Append(Places(q, A), Head(rest))
  OBVIOUS
<1>8. /\ P \in Seq(Op) /\ Len(P) = Len(A) + 1 /\ DOMAIN P = 1 .. Len(A) + 1
      /\ \A i \in DOMAIN A : P[i] = q[A[i]]
      /\ P[Len(A) + 1] = Head(rest)
  BY <1>1, <1>6, <1>7, AppendIs
<1>9. \A i \in DOMAIN E : P[i] = q[E[i]]
  BY <1>1, <1>5, <1>8
<1>10. P = [i \in DOMAIN P |-> P[i]]
  BY <1>8
<1> QED BY <1>3, <1>5, <1>7, <1>8, <1>9, <1>10 DEF Places

LEMMA ProgressSteps ==
    ASSUME TypeOK, CallOK, pc = "visit", Progress, todo # <<>>,
           policy' = policy, db' = db, call' = call, todo' = Tail(todo),
           DoesNow(Head(todo)) \/ LeavesForLater(Head(todo)) \/ TakesPlace(Head(todo))
    PROVE  Progress'
<1>1. PICK A, B :
        /\ Split(call.ops, todo, A, B, Yielding)
        /\ Carried(call.parent, Places(call.ops, A), TRUE, db) = view
        /\ Len(payload) = Len(B)
        /\ \A i \in DOMAIN B : StandsFor(Constant, payload[i], call.ops[B[i]])
        /\ call.op = "create" => Len(A) = 0
  BY DEF Progress
<1>2. call.ops \in Seq(Op) /\ todo \in Seq(Op) /\ payload \in Seq(Op)
  BY CallType DEF TypeOK, CallOK
<1>3. PICK n : n = Len(call.ops) - Len(todo) + 1
  OBVIOUS
<1>4. PICK q, p, op, D : q = call.ops /\ p = call.parent /\ op = Head(todo) /\ D = Yielding
  OBVIOUS
<1>5. n \in DOMAIN q /\ n \in Nat /\ q[n] = op /\ op \in Op
  BY <1>1, <1>2, <1>3, <1>4, SplitNext
<1>6. /\ A \in Seq(Nat) /\ B \in Seq(Nat)
      /\ Places(q, A) \in Seq(Op) /\ \A i \in DOMAIN B : B[i] \in DOMAIN q /\ q[B[i]] \in Op
  <2>1. A \in Seq(Nat) /\ B \in Seq(Nat)
    BY <1>1 DEF Split
  <2> QED BY <1>1, <1>2, <1>4, <2>1, PlacesType
<1>y. /\ n \in D <=> Yields(op)
      /\ \A i \in DOMAIN B : B[i] \in D <=> payload[i].kind = "deleteMany"
  <2>1. \A i \in DOMAIN q : i \in D <=> Yields(q[i])
    BY <1>4 DEF Yielding
  <2>2. ASSUME NEW i \in DOMAIN B PROVE Yields(q[B[i]]) <=> payload[i].kind = "deleteMany"
    BY <1>1, <1>4, <1>6, StandsKind
  <2> QED BY <1>5, <1>6, <2>1, <2>2
<1>d. DOMAIN payload = DOMAIN B /\ Yielding' = D
  BY <1>1, <1>2, <1>4, <1>6, SeqIs, SameYielding
<1>7. CASE DoesNow(Head(todo))
  <2>1. PICK E : E = Append(A, n)
    OBVIOUS
  <2>2. Places(q, E) = Append(Places(q, A), op)
    BY <1>1, <1>2, <1>3, <1>4, <2>1, PlacesAppend
  <2>3. Places(q, E) \in Seq(Op)
    BY <1>5, <1>6, <2>2
  <2>4. PICK s : s = db
    OBVIOUS
  <2>5. Carried(p, Places(q, E), TRUE, s) = view'
    <3>1. Carried(p, Places(q, E), TRUE, s) = CarryOne(p, op, TRUE, Carried(p, Places(q, A), TRUE, s))
      <4>1. PICK yes : yes = TRUE
        OBVIOUS
      <4>2. Carried(p, Places(q, E), yes, s) = CarryOne(p, op, yes, Carried(p, Places(q, A), yes, s))
        <5>1. Adds(p, Places(q, E), Places(q, A), op, yes, s)
          BY <1>5, <1>6, <2>2, CarriedAppend
        <5> QED BY <5>1 DEF Adds
      <4> QED BY <4>1, <4>2
    <3> QED BY <1>1, <1>4, <1>7, <2>4, <3>1 DEF DoesNow
  <2>6. Carried(p, Places(q, E), TRUE, s)' = view'
    BY <2>3, <2>5, SamePolicy
  <2>7. ASSUME NEW i \in DOMAIN B PROVE StandsFor(Constant', payload'[i], q[B[i]])
    BY <1>1, <1>4, <1>7, SamePolicy DEF DoesNow
  <2>8. call.op # "create" /\ payload' = payload /\ n \notin D
    BY <1>4, <1>7, <1>y DEF DoesNow
  <2>9. Split(q, Tail(todo), E, B, D)
    BY <1>1, <1>2, <1>3, <1>4, <2>1, <2>8, SplitNow
  <2> QED BY <1>1, <1>4, <1>d, <2>4, <2>6, <2>7, <2>8, <2>9 DEF Progress
<1>8. CASE LeavesForLater(Head(todo))
  <2>1. PICK left \in Op : payload' = Append(payload, left) /\ StandsFor(Constant, left, op)
    BY <1>4, <1>8 DEF LeavesForLater
  <2>2. PICK E : E = Append(B, n)
    OBVIOUS
  <2>3. /\ E \in Seq(Nat) /\ Len(E) = Len(B) + 1
        /\ \A i \in DOMAIN B : E[i] = B[i]
        /\ E[Len(B) + 1] = n
        /\ \A i \in DOMAIN E : i \in DOMAIN B \/ i = Len(B) + 1
    BY <1>5, <1>6, <2>2, AppendIs
  <2>4. /\ Len(payload') = Len(B) + 1 /\ payload'[Len(B) + 1] = left
        /\ \A i \in DOMAIN B : payload'[i] = payload[i]
    BY <1>1, <1>2, <1>d, <2>1, AppendIs
  <2>5. ASSUME NEW i \in DOMAIN E PROVE StandsFor(Constant', payload'[i], q[E[i]])
    BY <1>1, <1>4, <1>5, <2>1, <2>3, <2>4, SamePolicy
  <2>6. PICK s : s = db
    OBVIOUS
  <2>7. Carried(p, Places(q, A), TRUE, s)' = view'
    BY <1>1, <1>4, <1>6, <1>8, <2>6, SamePolicy DEF LeavesForLater
  <2>8. n \in D => \A i \in DOMAIN B : B[i] \notin D
    BY <1>4, <1>8, <1>d, <1>y DEF LeavesForLater
  <2>9. Split(q, Tail(todo), A, E, D)
    BY <1>1, <1>2, <1>3, <1>4, <2>2, <2>8, SplitLater
  <2> QED BY <1>1, <1>4, <1>d, <2>3, <2>4, <2>5, <2>6, <2>7, <2>9 DEF Progress
<1>9. CASE TakesPlace(Head(todo))
  <2>1. /\ payload' \in Seq(Op) /\ DOMAIN payload' = DOMAIN B /\ Yields(op)
        /\ \A i \in DOMAIN B :
            payload'[i] = IF payload[i].kind = "deleteMany" THEN op ELSE payload[i]
    BY <1>4, <1>9, <1>d DEF TakesPlace
  <2>2. PICK last \in DOMAIN B : payload[last].kind = "deleteMany"
    BY <1>9, <1>d DEF TakesPlace
  <2>3. PICK E : E = [B EXCEPT ![last] = n]
    OBVIOUS
  <2>4. n \in D /\ B[last] \in D
    BY <1>y, <2>1, <2>2
  <2>5. Split(q, Tail(todo), A, E, D) /\ \A i \in DOMAIN B : B[i] \in D => i = last
    <3>1. q \in Seq(Op) /\ todo \in Seq(Op) /\ Split(q, todo, A, B, D) /\ n = Len(q) - Len(todo) + 1
      BY <1>1, <1>2, <1>3, <1>4
    <3>2. /\ Split(q, Tail(todo), A, [B EXCEPT ![last] = n], D)
          /\ \A i \in DOMAIN B : B[i] \in D => i = last
      BY ONLY todo # <<>>, <3>1, <2>4, SplitInstead
    <3> QED BY <2>3, <3>2
  <2>6. /\ DOMAIN E = DOMAIN B /\ Len(payload') = Len(E)
        /\ E[last] = n /\ \A i \in DOMAIN B : i # last => E[i] = B[i]
    <3>1. /\ DOMAIN E = DOMAIN B /\ E[last] = n
          /\ \A i \in DOMAIN B : i # last => E[i] = B[i]
      BY <1>6, <2>3
    <3>2. E \in Seq(Nat)
      BY <2>5 DEF Split
    <3> QED BY <2>1, <3>1, <3>2, SeqIs
  <2>7. StandsFor(Constant, op, op)
    BY <2>1 DEF StandsFor, Yields, RuleOf
  <2>8. ASSUME NEW i \in DOMAIN B PROVE StandsFor(Constant, payload'[i], q[E[i]])
    <3>1. CASE i = last
      BY <1>5, <2>1, <2>2, <2>6, <2>7, <3>1
    <3>2. CASE i # last
      <4>1. payload[i].kind # "deleteMany"
        BY <1>y, <2>5, <3>2
      <4> QED BY <1>1, <1>4, <2>1, <2>6, <3>2, <4>1
    <3> QED BY <3>1, <3>2
  <2>9. ASSUME NEW i \in DOMAIN E PROVE StandsFor(Constant', payload'[i], q[E[i]])
    BY <2>6, <2>8, SamePolicy
  <2>10. PICK s : s = db
    OBVIOUS
  <2>11. Carried(p, Places(q, A), TRUE, s)' = view'
    BY <1>1, <1>4, <1>6, <1>9, <2>10, SamePolicy DEF TakesPlace
  <2> QED BY <1>1, <1>4, <1>d, <2>5, <2>6, <2>9, <2>10, <2>11 DEF Progress
<1> QED BY <1>7, <1>8, <1>9

\* what a callback makes of its nested write, when it does not end the call
Goes(op) ==
    /\ policy' = policy /\ db' = db /\ call' = call /\ pc' = pc /\ todo' = Tail(todo)
    /\ DoesNow(op) \/ LeavesForLater(op) \/ TakesPlace(op)
EndsCall == \E how : Ends(how)

LEMMA CreatesDo ==
    ASSUME TypeOK, call.op = "update", NEW op \in Op, Creates(op),
           op.kind \in {"create", "createMany", "upsert", "connectOrCreate"}
    PROVE  EndsCall \/ Goes(op)
<1>1. CASE Exists(op.child, view)
  BY <1>1 DEF Creates, EndsCall
<1>2. CASE ~Exists(op.child, view)
  <2>1. view # None
    BY NestedWriteAssumption DEF TypeOK
  <2>2. Possible(call.parent, op, view)
    BY <1>2 DEF Possible
  <2>3. \A K : Effect(call.parent, op, K, view) = Create(call.parent, op, view)
    BY <1>2 DEF Effect
  <2>4. CarryOne(call.parent, op, TRUE, view) = Create(call.parent, op, view)
    BY <2>1, <2>2, <2>3 DEF CarryOne
  <2>5. Removes(Create(call.parent, op, view), {ChildCheck(op.child, "create")})
    BY <1>2 DEF Creates
  <2> QED BY <2>4, <2>5 DEF Removes, Goes, DoesNow, Yields
<1> QED BY <1>1, <1>2

LEMMA LeavesIt ==
    ASSUME NEW op, op.kind # "deleteMany",
           NEW left \in Op, StandsFor(Constant, left, op), NEW more, Leaves(left, more)
    PROVE  Goes(op)
BY DEF Leaves, Goes, LeavesForLater, Yields

LEMMA LeavesUpdateIt ==
    ASSUME NEW op, op.kind # "deleteMany",
           NEW left \in Op, StandsFor(Constant, left, op), LeavesUpdate(left)
    PROVE  EndsCall \/ Goes(op)
<1>1. CASE Allowed("update", left.child, view, view)
  BY <1>1, LeavesIt DEF LeavesUpdate
<1>2. CASE ~Allowed("update", left.child, view, view)
  BY <1>2 DEF LeavesUpdate, EndsCall
<1> QED BY <1>1, <1>2

LEMMA ManyDoes ==
    ASSUME TypeOK, call.op = "update", NEW op \in Op, op.kind \in Many, NEW more,
           RuleOf(op) \notin Constant,
           Removes(WriteMany(op, Selected(call.parent, op, view) \cap ByGuard(op, view), view), more)
    PROVE  Goes(op)
<1> DEFINE K == ByGuard(op, view)
           after == WriteMany(op, Selected(call.parent, op, view) \cap K, view)
<1>1. view # None
  BY NestedWriteAssumption DEF TypeOK
<1>2. Possible(call.parent, op, view)
  BY DEF Possible, Many
<1>3. Effect(call.parent, op, K, view) = after
  BY DEF Effect, Many
<1>4. CarryOne(call.parent, op, TRUE, view) = Effect(call.parent, op, K, view)
  BY <1>1, <1>2 DEF CarryOne, Filter
<1>5. ~Yields(op)
  BY DEF Yields, RuleOf
<1>6. Removes(after, more)
  OBVIOUS
<1> HIDE DEF after
<1> QED BY <1>3, <1>4, <1>5, <1>6 DEF Removes, Goes, DoesNow

LEMMA OverwritesIt ==
    ASSUME TypeOK, NEW op \in Op, op.kind = "deleteMany", "delete" \in Constant, Overwrites(op)
    PROVE  Goes(op)
<1>1. /\ policy' = policy /\ db' = db /\ call' = call /\ pc' = pc /\ todo' = Tail(todo)
      /\ view' = view /\ Yields(op)
  BY DEF Overwrites, Yields
<1>2. StandsFor(Constant, op, op)
  BY DEF StandsFor, RuleOf
<1>3. CASE payload' = Append(payload, op) /\ \A i \in DOMAIN payload : payload[i].kind # op.kind
  BY <1>1, <1>2, <1>3 DEF Goes, LeavesForLater
<1>4. CASE /\ DOMAIN payload' = DOMAIN payload
           /\ \A i \in DOMAIN payload :
                  payload'[i] = IF payload[i].kind = op.kind THEN op ELSE payload[i]
           /\ \E i \in DOMAIN payload : payload[i].kind = op.kind
  BY <1>1, <1>4, OverwritesIs DEF Goes, TakesPlace
<1> QED BY <1>3, <1>4, OverwritesIs

LEMMA VisitDoes ==
    ASSUME TypeOK, CallOK, Visit
    PROVE  EndsCall \/ Goes(Head(todo))
<1> DEFINE op == Head(todo)
<1>1. /\ pc = "visit" /\ todo # <<>> /\ op \in Op /\ op.kind \in UpdateOps
  BY HeadTail, OpType DEF Visit, TypeOK
<1>2. [op EXCEPT !.kind = "update"] \in Op
  BY <1>1, Kinded DEF UpdateOps
<1>3. op.kind \notin Many => StandsFor(Constant, op, op)
  BY DEF StandsFor
<1> HIDE DEF op
<1> USE DEF At
<1>4. CASE VisitCreate
  BY <1>1, <1>4, CreatesDo DEF VisitCreate, op
<1>5. CASE VisitCreateMany
  <2>1. CASE Exists(op.child, view)
    <3>1. op.kind = "createMany" /\ call.op = "update" /\ Removes(view, {})
      BY <1>5, <2>1 DEF VisitCreateMany, op
    <3>2. view # None
      BY NestedWriteAssumption DEF TypeOK
    <3>3. CarryOne(call.parent, op, TRUE, view) = view
      BY <2>1, <3>1, <3>2 DEF CarryOne, Possible, Effect
    <3> QED BY <3>1, <3>3 DEF Removes, Goes, DoesNow, Yields, op
  <2>2. CASE ~Exists(op.child, view)
    BY <1>1, <1>5, <2>2, CreatesDo DEF VisitCreateMany, op
  <2> QED BY <2>1, <2>2
<1>6. CASE VisitUpdate
  <2>1. op.kind = "update" /\ (LeavesUpdate(op) \/ EndsCall)
    BY <1>6 DEF VisitUpdate, EndsCall, op
  <2> QED BY <1>1, <1>3, <2>1, LeavesUpdateIt DEF Many, op
<1>7. CASE VisitUpsert
  <2>1. op.kind = "upsert" /\ (LeavesUpdate([op EXCEPT !.kind = "update"]) \/ Creates(op))
    BY <1>7 DEF VisitUpsert, op
  <2>2. StandsFor(Constant, [op EXCEPT !.kind = "update"], op)
    BY <2>1 DEF StandsFor
  <2> QED BY <1>1, <1>2, <1>7, <2>1, <2>2, LeavesUpdateIt, CreatesDo DEF VisitUpsert, op
<1>8. CASE VisitConnect
  BY <1>1, <1>3, <1>8, LeavesUpdateIt DEF VisitConnect, Many, op
<1>9. CASE VisitConnectOrCreate
  BY <1>1, <1>3, <1>9, LeavesUpdateIt, CreatesDo DEF VisitConnectOrCreate, Many, op
<1>10. CASE VisitDisconnect
  BY <1>1, <1>3, <1>10, LeavesUpdateIt, LeavesIt DEF VisitDisconnect, Many, op
<1>11. CASE VisitSet
  BY <1>1, <1>3, <1>11, LeavesUpdateIt DEF VisitSet, Many, op
<1>12. CASE VisitDelete
  <2>1. op.kind = "delete" /\ (Leaves(op, {}) \/ EndsCall)
    BY <1>12 DEF VisitDelete, EndsCall, op
  <2> QED BY <1>1, <1>3, <2>1, LeavesIt DEF Many, op
<1>13. CASE VisitUpdateMany
  <2> DEFINE after ==
                WriteMany(op, Selected(call.parent, op, view) \cap ByGuard(op, view), view)
  <2>1. PICK more :
            IF SameForEveryRow("update", Rules("update")) THEN Leaves(op, more)
            ELSE Removes(after, more)
    BY <1>13 DEF VisitUpdateMany, op
  <2>2. call.op = "update" /\ op.kind = "updateMany" /\ RuleOf(op) = "update"
    BY <1>13 DEF VisitUpdateMany, RuleOf, op
  <2>3. RuleOf(op) \in Constant <=> SameForEveryRow("update", Rules("update"))
    BY <2>2 DEF Constant
  <2>4. CASE RuleOf(op) \in Constant
    <3>1. StandsFor(Constant, op, op)
      BY <2>4 DEF StandsFor
    <3> QED BY <1>1, <2>1, <2>2, <2>3, <2>4, <3>1, LeavesIt DEF op
  <2>5. CASE RuleOf(op) \notin Constant
    BY <1>1, <2>1, <2>2, <2>3, <2>5, ManyDoes DEF Many, op
  <2> QED BY <2>4, <2>5
<1>14. CASE VisitDeleteMany
  <2> DEFINE after ==
                WriteMany(op, Selected(call.parent, op, view) \cap ByGuard(op, view), view)
  <2>1. IF SameForEveryRow("delete", Rules("delete")) THEN Overwrites(op)
        ELSE Removes(after, {})
    BY <1>14 DEF VisitDeleteMany, op
  <2>2. call.op = "update" /\ op.kind = "deleteMany" /\ RuleOf(op) = "delete"
    BY <1>14 DEF VisitDeleteMany, RuleOf, op
  <2>3. RuleOf(op) \in Constant <=> SameForEveryRow("delete", Rules("delete"))
    BY <2>2 DEF Constant
  <2>4. CASE RuleOf(op) \in Constant
    BY <1>1, <2>1, <2>2, <2>3, <2>4, OverwritesIt DEF op
  <2>5. CASE RuleOf(op) \notin Constant
    BY <1>1, <2>1, <2>2, <2>3, <2>5, ManyDoes DEF Many, op
  <2> QED BY <2>4, <2>5
<1>15. CASE VisitNewChild
  BY <1>1, <1>3, <1>15, LeavesIt DEF VisitNewChild, Many, op
<1>16. CASE VisitNewConnect
  <2>1. op.kind = "connect" /\ (Leaves(op, {}) \/ EndsCall)
    BY <1>16 DEF VisitNewConnect, EndsCall, op
  <2> QED BY <1>1, <1>3, <2>1, LeavesIt DEF Many, op
<1>17. CASE VisitNewConnectOrCreate
  <2> DEFINE kind == IF Exists(op.child, view) THEN "connect" ELSE "create"
             left == [op EXCEPT !.kind = kind]
  <2>1. \/ EndsCall
        \/ /\ todo' = Tail(todo) /\ payload' = Append(payload, left) /\ op.kind = "connectOrCreate"
           /\ policy' = policy /\ db' = db /\ view' = view /\ pc' = pc /\ call' = call
    BY <1>17 DEF VisitNewConnectOrCreate, EndsCall, op
  <2>2. left \in Op /\ kind \in {"connect", "create"}
    BY <1>1, Kinded DEF UpdateOps
  <2>3. op.kind = "connectOrCreate" => StandsFor(Constant, left, op)
    BY <2>2 DEF StandsFor
  <2> HIDE DEF left
  <2> QED BY <2>1, <2>2, <2>3 DEF Goes, LeavesForLater, Yields, op
<1> QED BY <1>4, <1>5, <1>6, <1>7, <1>8, <1>9, <1>10, <1>11, <1>12, <1>13, <1>14, <1>15,
           <1>16, <1>17 DEF Visit, op

\* What was done at once came from start to s, and the rest is in the payload.
Parted(A, B, start, s) ==
    /\ Split(call.ops, todo, A, B, Yielding) /\ Len(payload) = Len(B)
    /\ \A i \in DOMAIN B : StandsFor(Constant, payload[i], call.ops[B[i]])
    /\ Carried(call.parent, Places(call.ops, A), TRUE, start) = s

\* the writes in q one by one, and in one statement
OneByOne(p, q, s) == Carried(p, q, TRUE, s)
InOne(p, q, s) == Carried(p, q, FALSE, s)

\* The last statement, from s on, does the rest: now all of the writes that last
\* have been done in some order.
LEMMA LastDoesTheRest ==
    ASSUME TypeOK, call \in Calls, Len(todo) = 0, NEW s \in Database,
           NEW A, NEW B, NEW start, Parted(A, B, start, s),
           NEW q \in Orders(payload), InOne(call.parent, q, s) # None
    PROVE  \E r \in OrdersOf(call.ops, Lasting(call.ops, Yielding)) :
                OneByOne(call.parent, r, start) = InOne(call.parent, q, s)
<1>0. /\ Split(call.ops, todo, A, B, Yielding) /\ Len(payload) = Len(B)
      /\ \A i \in DOMAIN B : StandsFor(Constant, payload[i], call.ops[B[i]])
      /\ Carried(call.parent, Places(call.ops, A), TRUE, start) = s
  BY DEF Parted
<1>1. /\ call.ops \in Seq(Op) /\ todo \in Seq(Op) /\ payload \in Seq(Op) /\ call.parent \in Parents
  BY CallType DEF TypeOK
<1>2. PICK ops, p, D : ops = call.ops /\ p = call.parent /\ D = Yielding
  OBVIOUS
<1>3. PICK f \in [DOMAIN payload -> DOMAIN payload] :
            IsInjective(f) /\ q = [i \in DOMAIN payload |-> payload[f[i]]]
  BY DEF Orders
<1>4. DOMAIN payload = DOMAIN B /\ DOMAIN B = 1 .. Len(B) /\ Len(B) \in Nat
  BY <1>0, <1>1, SeqIs DEF Split
<1>5. f \in [DOMAIN B -> DOMAIN B] /\ \A i, j \in DOMAIN B : f[i] = f[j] => i = j
  BY <1>3, <1>4 DEF IsInjective
<1> DEFINE final == Ordered(ops, B, f)
<1>6. /\ final \in Seq(Op) /\ Len(final) = Len(B)
      /\ \E r \in OrdersOf(ops, Lasting(ops, D)) : r \in Seq(Op) /\ Joins(r, Places(ops, A), final)
  <2>1. ops \in Seq(Op) /\ Split(ops, todo, A, B, D) /\ D \subseteq DOMAIN ops
    BY <1>0, <1>1, <1>2 DEF Yielding
  <2> QED BY <1>1, <1>5, <2>1, SplitOrders
<1>7. PICK r \in OrdersOf(ops, Lasting(ops, D)) : r \in Seq(Op) /\ Joins(r, Places(ops, A), final)
  BY <1>6
<1>8. q \in Seq(Op) /\ Len(q) = Len(final) /\ DOMAIN q = DOMAIN B
  <2>1. q \in Seq(Op)
    BY <1>1, OrdersIs
  <2>2. DOMAIN q = 1 .. Len(B)
    BY <1>3, <1>4
  <2>3. Len(q) = Len(B)
    BY <1>4, <2>1, <2>2, SeqIs
  <2> QED BY <1>4, <1>6, <2>1, <2>2, <2>3
<1>9. PICK yes, no : yes = TRUE /\ no = FALSE
  OBVIOUS
<1>10. ASSUME NEW i \in DOMAIN q, NEW t \in Database, CarryOne(p, q[i], no, t) # None
       PROVE  CarryOne(p, final[i], yes, t) = CarryOne(p, q[i], no, t)
  <2>1. f[i] \in DOMAIN B /\ q[i] = payload[f[i]] /\ final[i] = ops[B[f[i]]]
    BY <1>3, <1>4, <1>5, <1>8 DEF Ordered
  <2>2. StandsFor(Constant, q[i], final[i])
    BY <1>0, <1>2, <2>1
  <2>3. final[i] \in Op
    BY <1>4, <1>6, <1>8
  <2> HIDE DEF final
  <2>4. CarryOne(p, q[i], FALSE, t) # None
    BY <1>9, <1>10
  <2>5. CarryOne(p, final[i], TRUE, t) = CarryOne(p, q[i], FALSE, t)
    BY <1>1, <1>2, <2>2, <2>3, <2>4, StandsForDoes
  <2> QED BY <1>9, <2>5
<1> HIDE DEF final
<1>11. PICK last \in Seq(Op) : last = final
  BY <1>6
<1>12. Carried(p, last, yes, s) = Carried(p, q, no, s)
  <2>1. Carried(p, q, no, s) # None
    BY <1>2, <1>9 DEF InOne
  <2>2. /\ Len(last) = Len(q) /\ p \in Parents
        /\ \A i \in DOMAIN q : \A t \in Database :
                CarryOne(p, q[i], no, t) # None =>
                    CarryOne(p, last[i], yes, t) = CarryOne(p, q[i], no, t)
    BY <1>1, <1>2, <1>8, <1>10, <1>11
  <2> QED BY <1>8, <2>1, <2>2, CarriedAlike
<1>13. Places(ops, A) \in Seq(Op)
  BY <1>0, <1>1, <1>2, PlacesType
<1>14. Splits(p, r, Places(ops, A), last, yes, start)
  BY <1>7, <1>11, <1>13, CarriedConcat
<1>15. Carried(p, r, yes, start) = Carried(p, last, yes, s)
  BY <1>0, <1>2, <1>9, <1>14 DEF Splits
<1> QED BY <1>2, <1>7, <1>9, <1>12, <1>15 DEF InOne, OneByOne

LEMMA SameResult ==
    ASSUME TypeOK, call \in Calls, policy' = policy, db' = db, call' = call, NEW q \in Seq(Op)
    PROVE  Result(q)' = Result(q)
<1>1. PICK p, before : p = call.parent /\ before = db
  OBVIOUS
<1>2. \A apart, s : Carried(p, q, apart, s)' = Carried(p, q, apart, s)
  BY SamePolicy
<1>3. \A s : WithOwnRow(s)' = WithOwnRow(s)
  BY DEF WithOwnRow
<1>4. PICK made : made = WithOwnRow(before)
  OBVIOUS
<1>5. Carried(call.parent, q, TRUE, WithOwnRow(db))' = Carried(p, q, TRUE, made)'
  BY <1>1, <1>3, <1>4
<1>6. Carried(call.parent, q, TRUE, db)' = Carried(p, q, TRUE, before)'
  BY <1>1
<1> QED BY <1>1, <1>2, <1>3, <1>4, <1>5, <1>6 DEF Result

LEMMA WriteUpdateDoes ==
    ASSUME TypeOK, CallOK, Progress, WriteUpdate
    PROVE  EndsCall \/ (pc' = "check" /\ AllDone')
<1>1. /\ pc = "visit" /\ call \in Calls /\ call.op = "update" /\ Len(todo) = 0
      /\ view \in Database /\ call.ops \in Seq(Op)
  BY CallType DEF WriteUpdate, TypeOK, CallOK
<1>2. PICK q \in Orders(payload) :
        LET s == Carried(call.parent, q, FALSE, view)
        IN IF s = None THEN Ends("failed")
           ELSE /\ view' = IF call.val = None THEN s
                           ELSE [s EXCEPT !.parent[call.parent] = call.val]
                /\ pc' = "check"
                /\ UNCHANGED <<policy, db, call, todo, payload, checks, connected, outcome>>
  BY DEF WriteUpdate
<1>3. PICK s : s = Carried(call.parent, q, FALSE, view)
  OBVIOUS
<1>4. CASE s = None
  BY <1>2, <1>3, <1>4 DEF EndsCall
<1>5. CASE s # None
  <2>1. /\ view' = WithOwnRow(s) /\ pc' = "check"
        /\ policy' = policy /\ db' = db /\ call' = call
    BY <1>2, <1>3, <1>5 DEF WithOwnRow
  <2>2. PICK A, B :
            /\ Split(call.ops, todo, A, B, Yielding)
            /\ Carried(call.parent, Places(call.ops, A), TRUE, db) = view
            /\ Len(payload) = Len(B)
            /\ \A i \in DOMAIN B : StandsFor(Constant, payload[i], call.ops[B[i]])
    BY DEF Progress
  <2>3. PICK r \in OrdersOf(call.ops, Lasting(call.ops, Yielding)) : Carried(call.parent, r, TRUE, db) = s
    <3>1. Parted(A, B, db, view)
      BY <2>2 DEF Parted
    <3>2. s = InOne(call.parent, q, view)
      BY <1>3 DEF InOne
    <3>3. PICK r \in OrdersOf(call.ops, Lasting(call.ops, Yielding)) : OneByOne(call.parent, r, db) = s
      BY <1>1, <1>5, <3>1, <3>2, LastDoesTheRest
    <3> QED BY <3>3 DEF OneByOne
  <2>4. Result(r) = WithOwnRow(s) /\ r \in Seq(Op)
    BY <1>1, <1>5, <2>3, OrdersOfIs DEF Result, Lasting
  <2>5. Result(r)' = view'
    BY <1>1, <2>1, <2>4, SameResult
  <2> QED BY <2>1, <2>3, <2>5, SameYielding DEF AllDone
<1> QED BY <1>4, <1>5

LEMMA WriteCreateDoes ==
    ASSUME TypeOK, CallOK, Progress, WriteCreate
    PROVE  EndsCall \/ (pc' = "check" /\ AllDone')
<1>1. /\ pc = "visit" /\ call \in Calls /\ call.op = "create" /\ Len(todo) = 0
      /\ view \in Database /\ call.ops \in Seq(Op) /\ call.parent \in Parents
      /\ call.val \in Vals /\ todo \in Seq(Op)
  BY CallType DEF WriteCreate, TypeOK, CallOK
<1>2. CASE view.parent[call.parent] # None
  BY <1>2 DEF WriteCreate, EndsCall
<1>3. CASE view.parent[call.parent] = None
  <2> DEFINE from == [view EXCEPT !.parent[call.parent] = call.val]
             after(q) == Carried(call.parent, q, FALSE, from)
  <2>1. from \in Database /\ from = WithOwnRow(view)
    BY <1>1, SetParent, RowType DEF WithOwnRow
  <2> HIDE DEF from
  <2>2. PICK q \in Orders(payload) :
            \/ EndsCall
            \/ /\ after(q) # None /\ view' = after(q) /\ pc' = "check"
               /\ policy' = policy /\ db' = db /\ call' = call
    BY <1>3 DEF WriteCreate, EndsCall, from
  <2>3. CASE EndsCall
    BY <2>3
  <2>4. CASE ~EndsCall
    <3>1. /\ Carried(call.parent, q, FALSE, from) # None
          /\ view' = Carried(call.parent, q, FALSE, from) /\ pc' = "check"
          /\ policy' = policy /\ db' = db /\ call' = call
      BY <2>2, <2>4
    <3>2. PICK A, B :
              /\ Split(call.ops, todo, A, B, Yielding)
              /\ Carried(call.parent, Places(call.ops, A), TRUE, db) = view
              /\ Len(payload) = Len(B)
              /\ \A i \in DOMAIN B : StandsFor(Constant, payload[i], call.ops[B[i]])
              /\ Len(A) = 0
      BY <1>1 DEF Progress
    <3>3. Places(call.ops, A) \in Seq(Op) /\ Len(Places(call.ops, A)) = 0
      BY <1>1, <3>2, PlacesType
    <3>4. \A s : Carried(call.parent, Places(call.ops, A), TRUE, s) = s
      <4>1. PICK yes : yes = TRUE
        OBVIOUS
      <4>2. \A s : Carried(call.parent, Places(call.ops, A), yes, s) = s
        BY <3>3, CarriedNothing
      <4> QED BY <4>1, <4>2
    <3>5. view = db
      BY <3>2, <3>4
    <3>6. PICK r \in OrdersOf(call.ops, Lasting(call.ops, Yielding)) :
                Carried(call.parent, r, TRUE, from) = Carried(call.parent, q, FALSE, from)
      <4>1. Parted(A, B, from, from)
        BY <3>2, <3>4 DEF Parted
      <4>2. InOne(call.parent, q, from) # None
        BY <3>1 DEF InOne
      <4>3. PICK r \in OrdersOf(call.ops, Lasting(call.ops, Yielding)) :
                OneByOne(call.parent, r, from) = InOne(call.parent, q, from)
        BY <1>1, <2>1, <4>1, <4>2, LastDoesTheRest
      <4> QED BY <4>3 DEF OneByOne, InOne
    <3>7. Result(r) = view' /\ r \in Seq(Op)
      BY <1>1, <2>1, <3>1, <3>5, <3>6, OrdersOfIs DEF Result, Lasting
    <3>8. Result(r)' = view'
      BY <1>1, <3>1, <3>7, SameResult
    <3> QED BY <3>1, <3>6, <3>8, SameYielding DEF AllDone
  <2> QED BY <2>3, <2>4
<1> QED BY <1>2, <1>3

LEMMA AppliedStep ==
    ASSUME TypeOK, CallOK, AppliedInv, [Next]_vars
    PROVE  AppliedInv'
<1>0. ASSUME EndsCall PROVE AppliedInv'
  BY <1>0 DEF EndsCall, Ends, AppliedInv
<1>1. CASE Start
  BY <1>1 DEF Start, AppliedInv, CallOK
<1>2. CASE UpdateTop \/ CreateTop
  <2>1. /\ pc = "top" /\ call \in Calls /\ view = db /\ payload = <<>> /\ todo = call.ops
    BY <1>2 DEF UpdateTop, CreateTop, AppliedInv, CallOK
  <2>2. Progress
    BY <2>1, ProgressStarts
  <2>3. \/ EndsCall
        \/ pc' = "visit" /\ UNCHANGED <<policy, db, view, call, todo, payload>>
    BY <1>2 DEF UpdateTop, CreateTop, EndsCall
  <2>4. ASSUME pc' = "visit", UNCHANGED <<policy, db, view, call, todo, payload>>
        PROVE  Progress'
    <3>1. PICK A, B :
            /\ Split(call.ops, todo, A, B, Yielding)
            /\ Carried(call.parent, Places(call.ops, A), TRUE, db) = view
            /\ Len(payload) = Len(B)
            /\ \A i \in DOMAIN B : StandsFor(Constant, payload[i], call.ops[B[i]])
            /\ call.op = "create" => Len(A) = 0
      BY <2>2 DEF Progress
    <3>2. PICK p, q, s : p = call.parent /\ q = Places(call.ops, A) /\ s = db
      OBVIOUS
    <3>3. q \in Seq(Op)
      BY <2>1, <3>1, <3>2, CallType, PlacesType DEF TypeOK
    <3>4. Carried(p, q, TRUE, s)' = view'
      BY <2>4, <3>1, <3>2, <3>3, SamePolicy
    <3>5. Constant' = Constant
      BY <2>4, SamePolicy
    <3> QED BY <2>4, <3>1, <3>2, <3>4, <3>5, SameYielding DEF Progress
  <2> QED BY <1>0, <2>3, <2>4 DEF AppliedInv
<1>3. CASE Visit
  <2>1. pc = "visit" /\ todo # <<>> /\ Progress
    BY <1>3 DEF Visit, AppliedInv
  <2>2. CASE Goes(Head(todo))
    <3>1. Progress'
      BY <2>1, <2>2, ProgressSteps DEF Goes
    <3> QED BY <2>1, <2>2, <3>1 DEF Goes, AppliedInv
  <2> QED BY <1>0, <1>3, <2>2, VisitDoes
<1>4. CASE WriteUpdate \/ WriteCreate
  <2>1. Progress
    BY <1>4 DEF WriteUpdate, WriteCreate, AppliedInv
  <2>2. EndsCall \/ (pc' = "check" /\ AllDone')
    BY <1>4, <2>1, WriteUpdateDoes, WriteCreateDoes
  <2> QED BY <1>0, <2>2 DEF AppliedInv
<1>5. CASE RunPostWriteChecks
  BY <1>5 DEF RunPostWriteChecks, Ends, AppliedInv
<1>6. CASE UNCHANGED vars
  <2>1. /\ policy' = policy /\ db' = db /\ view' = view /\ pc' = pc /\ call' = call
        /\ todo' = todo /\ payload' = payload
    BY <1>6 DEF vars
  <2>2. (pc = "top" => view = db /\ payload = <<>> /\ todo = call.ops)'
    BY <2>1 DEF AppliedInv
  <2>3. ASSUME pc = "visit" PROVE Progress'
    <3>0. call \in Calls /\ Progress
      BY <2>3 DEF CallOK, AppliedInv
    <3>1. PICK A, B :
            /\ Split(call.ops, todo, A, B, Yielding)
            /\ Carried(call.parent, Places(call.ops, A), TRUE, db) = view
            /\ Len(payload) = Len(B)
            /\ \A i \in DOMAIN B : StandsFor(Constant, payload[i], call.ops[B[i]])
            /\ call.op = "create" => Len(A) = 0
      BY <3>0 DEF Progress
    <3>2. PICK p, q, s : p = call.parent /\ q = Places(call.ops, A) /\ s = db
      OBVIOUS
    <3>3. q \in Seq(Op)
      BY <3>0, <3>1, <3>2, CallType, PlacesType DEF TypeOK
    <3>4. Carried(p, q, TRUE, s)' = view'
      BY <2>1, <3>1, <3>2, <3>3, SamePolicy
    <3>5. Constant' = Constant
      BY <2>1, SamePolicy
    <3> QED BY <2>1, <3>1, <3>2, <3>4, <3>5, SameYielding DEF Progress
  <2>4. ASSUME pc = "check" PROVE AllDone'
    <3>1. call \in Calls /\ call.ops \in Seq(Op)
      BY <2>4, CallType DEF CallOK
    <3>2. PICK q \in OrdersOf(call.ops, Lasting(call.ops, Yielding)) : Result(q) = view
      BY <2>4 DEF AppliedInv, AllDone
    <3>3. q \in Seq(Op)
      BY <3>1, <3>2, OrdersOfIs DEF Lasting
    <3>4. Result(q)' = view'
      BY <2>1, <3>1, <3>2, <3>3, SameResult
    <3> QED BY <2>1, <3>2, <3>4, SameYielding DEF AllDone
  <2> QED BY <2>1, <2>2, <2>3, <2>4 DEF AppliedInv
<1> QED BY <1>1, <1>2, <1>3, <1>4, <1>5, <1>6 DEF Next

\* A call that succeeds has done each of its nested writes exactly once, in an
\* order the database may have chosen, but for the items of a deleteMany that
\* handler.ts overwrites with a later one: the callbacks of doUpdate and doCreate
\* and the statement that ends the call lose no other of them between each other,
\* repeat none, and leave the children of other parents alone.
THEOREM NestedWritesApplyOnce == Spec => EachWriteAppliesOnce
<1>1. Init => TypeOK /\ CallOK /\ AppliedInv
  BY NestedWriteAssumption DEF Init, TypeOK, CallOK, AppliedInv
<1>2. TypeOK /\ CallOK /\ AppliedInv /\ [Next]_vars => (TypeOK /\ CallOK /\ AppliedInv)'
  BY NestedTypeStep, AppliedStep
<1>3. {i \in DOMAIN call.ops : ~Overwritten(i)} = Lasting(call.ops, Yielding)
  <2>1. "delete" \in Constant <=> SameForEveryRow("delete", Rules("delete"))
    BY DEF Constant
  <2> QED BY <2>1 DEF Lasting, Yielding, Yields, Overwritten
<1>4. TypeOK /\ CallOK /\ AppliedInv /\ [Next]_vars =>
        [outcome = "none" /\ outcome' = "done" =>
            \E q \in OrdersOf(call.ops, {i \in DOMAIN call.ops : ~Overwritten(i)}) :
                Result(q) = db']_vars
  <2> SUFFICES ASSUME AppliedInv, Next, TypeOK, CallOK, outcome = "none", outcome' = "done"
               PROVE  \E q \in OrdersOf(call.ops, {i \in DOMAIN call.ops : ~Overwritten(i)}) :
                        Result(q) = db'
    OBVIOUS
  <2>1. RunPostWriteChecks
    BY DEF Next, Start, UpdateTop, CreateTop, Visit, WriteUpdate, WriteCreate, Ends, Leaves, Overwrites,
        Removes, Creates, LeavesUpdate, VisitCreate, VisitCreateMany, VisitUpdate, VisitUpsert,
        VisitConnect, VisitConnectOrCreate, VisitDisconnect, VisitSet, VisitDelete, VisitUpdateMany,
        VisitDeleteMany, VisitNewChild, VisitNewConnect, VisitNewConnectOrCreate
  <2>2. pc = "check" /\ db' = view
    BY <2>1 DEF RunPostWriteChecks, Ends
  <2>3. AllDone
    BY <2>2 DEF AppliedInv
  <2> QED BY <1>3, <2>2, <2>3 DEF AllDone
<1> QED BY <1>1, <1>2, <1>4, PTL DEF Spec, EachWriteAppliesOnce
=============================================================================
