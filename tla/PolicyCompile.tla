---------------------------- MODULE PolicyCompile ----------------------------
(***************************************************************************)
(* The policy compiler: what packages/schema turns the @@allow and @@deny  *)
(* rules of a model into, and what the compiled pieces answer together.    *)
(*                                                                         *)
(* A rule is a record.  The compiler never looks at what a rule says, only *)
(* at its shape, so a rule carries its shape and T stands for the set of   *)
(* rules whose condition holds of the row in question:                     *)
(*   deny     @@deny rather than @@allow                                   *)
(*   literal  the condition is the literal true                            *)
(*   fields   it reads a field of the model (this, future() or a name)     *)
(*   future   it uses future()                                             *)
(*   cross    it compares fields of two models                             *)
(*   onInput  it can be decided from the data of a create alone            *)
(* Every operation compiles to a query guard, which becomes part of the    *)
(* WHERE of a query, and, for rules a query cannot express, to a checker   *)
(* that is run on the entity the query returns.                            *)
(***************************************************************************)
Kinds == {"create", "read", "update", "postUpdate", "delete"}

Allows(R) == {r \in R : ~r.deny}
Denies(R) == {r \in R : r.deny}
HasFuture(X) == \E r \in X : r.future
Cross(X) == {r \in X : r.cross}

\* Faulty: only the rules that use future() wait for the update.
RulesForEach(kind, X) ==
    {r \in X : /\ kind = "update" => ~r.future
               /\ kind = "postUpdate" => r.future}

\* One future() among the rules of an update moves all of them to the check
\* after the update.  It is applied to the allow rules, to the deny rules
\* and to the cross-model part of each on their own.
RulesFor(kind, X) ==
    {r \in X : /\ kind = "update" => ~HasFuture(X)
               /\ kind = "postUpdate" => HasFuture(X)}

-----------------------------------------------------------------------------
\* A policy decided when it is compiled.
StaticNo(R) == (\E d \in Denies(R) : d.literal) \/ Allows(R) = {}
StaticYes(R) == Denies(R) = {} /\ \E a \in Allows(R) : a.literal

\* The guard generated from allow rules A and deny rules D.  Cross-model
\* rules are left out of it; when no rule reads a field it is a function that
\* returns a Boolean, otherwise a condition for the database.
QueryGuard(kind, A, D, T) ==
    LET a == A \ Cross(A)
        d == D \ Cross(D)
        allowed == a \cap T # {}
        denied == d \cap T # {}
    IN IF \A r \in a \cup d : ~r.fields
       THEN ~denied /\ (allowed \/ a # A \/ kind = "postUpdate")
       ELSE ~denied /\ (allowed \/ a = {})

\* The guard of an operation, constant when that can be told beforehand.
Guard(kind, R, T) ==
    LET A == RulesFor(kind, Allows(R))
        D == RulesFor(kind, Denies(R))
    IN IF kind = "update" /\ A = {} THEN RulesFor("postUpdate", Allows(R)) # {}
       ELSE IF kind = "postUpdate" THEN A \cup D = {} \/ QueryGuard(kind, A, D, T)
       ELSE ~StaticNo(R) /\ (StaticYes(R) \/ QueryGuard(kind, A, D, T))

\* The answer of the guard is the same for every row.
SameForEveryRow(kind, R) ==
    LET A == RulesFor(kind, Allows(R))
        D == RulesFor(kind, Denies(R))
    IN \/ kind = "update" /\ A = {}
       \/ kind # "postUpdate" /\ (StaticNo(R) \/ StaticYes(R))
       \/ \A r \in (A \cup D) \ Cross(R) : ~r.fields

\* The checker is attached when a cross-model rule is left for it ...
HasChecker(kind, R) ==
    RulesFor(kind, Cross(Allows(R))) \cup RulesFor(kind, Cross(Denies(R))) # {}

\* ... and evaluates all the rules, the denials first.
Checker(kind, R, T) ==
    /\ RulesFor(kind, Denies(R)) \cap T = {}
    /\ RulesFor(kind, Allows(R)) \cap T # {} \/ kind = "postUpdate"

Passes(kind, R, T) ==
    Guard(kind, R, T) /\ (HasChecker(kind, R) => Checker(kind, R, T))

\* A create is decided on its data, before it is sent, when every rule of it
\* can be.
CanCheckCreateBasedOnInput(R) == \A r \in R : r.onInput
InputChecker(R, T) == Allows(R) \cap T # {} /\ Denies(R) \cap T = {}

-----------------------------------------------------------------------------
\* Rules of a field: it is open to everybody when nothing allows it.
FieldGuard(A, D, T) ==
    LET a == A \ Cross(A)
        d == D \ Cross(D)
        allowed == a \cap T # {}
        denied == d \cap T # {}
    IN IF \A r \in a \cup d : ~r.fields
       THEN ~denied /\ (allowed \/ A = {} \/ a # A)
       ELSE ~denied /\ (allowed \/ a = {})

FieldChecker(R, T) ==
    Denies(R) \cap T = {} /\ (Allows(R) \cap T # {} \/ Allows(R) = {})

FieldPasses(R, T) ==
    /\ FieldGuard(Allows(R), Denies(R), T)
    /\ Cross(R) # {} => FieldChecker(R, T)

-----------------------------------------------------------------------------
(***************************************************************************)
(* What the rules of an operation mean: some rule allows it and none       *)
(* denies it.                                                              *)
(***************************************************************************)
Decides(R, T) == Allows(R) \cap T # {} /\ Denies(R) \cap T = {}

\* A rule reads the row after the update where it says future() and the row
\* before it elsewhere, so an update has one set of rules that hold.
MayUpdate(R, T) == Passes("update", R, T) /\ Passes("postUpdate", R, T)

\* Conditions that are the literal true hold.
LiteralsHold(R, T) == \A r \in R : r.literal => r \in T

\* future() is followed by a field.
FutureReadsFields(R) == \A r \in R : r.future => r.fields

FieldDecides(R, T) ==
    Denies(R) \cap T = {} /\ (Allows(R) \cap T # {} \/ Allows(R) = {})

\* When the compiled pieces mean what the rules say:
\* the deny rules are deferred with the allow rules,
DeniesFollowAllows(R) ==
    HasFuture(Allows(R)) => (Denies(R) = {} \/ HasFuture(Denies(R)))
\* no cross-model rule allows what is decided after the update,
NoLateCrossAllow(R) == HasFuture(Allows(R)) => Cross(Allows(R)) = {}
\* cross-model denials are deferred with the other denials,
CrossDeniesFollowDenies(R) ==
    HasFuture(Denies(R)) => (Cross(Denies(R)) = {} \/ HasFuture(Cross(Denies(R))))
\* (so that the rules of an update are deferred together or not at all),
Faithful(R) == DeniesFollowAllows(R) /\ NoLateCrossAllow(R) /\ CrossDeniesFollowDenies(R)
\* and no operation is allowed by a query and by a checker at a time.
OneSortOfAllow(R) == Cross(Allows(R)) = {} \/ Cross(Allows(R)) = Allows(R)
=============================================================================
