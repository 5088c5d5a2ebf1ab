--------------------------- MODULE MCPolicyWrite ---------------------------
(***************************************************************************)
(* Small policies and requests for TLC.  Rows have a flag a and a flag b;  *)
(* a policy's guards are given by the rows, or the rows and their          *)
(* neighbours, they hold on.                                               *)
(***************************************************************************)
EXTENDS PolicyWrite, FiniteSets

CONSTANTS i1, i2, fa, fb

Row(a, b) == [f \in Fields |-> IF f = fa THEN a ELSE b]
OnRows(R) == {x \in Sites : x[2][x[1]] \in R}
WithA(v) == {row \in Rows : row[fa] = v}
WithB(v) == {row \in Rows : row[fb] = v}

\* guards over a related row: another row exists, or has flag a
HasNeighbour == {x \in Sites : \E j \in Ids \ {x[1]} : x[2][j] # NoRow}
HasFlaggedNeighbour ==
    {x \in Sites : \E j \in Ids \ {x[1]} : x[2][j] \in WithA(1)}

Everywhere == [f \in Fields |-> Sites]
Nowhere == [f \in Fields |-> {}]

\* no policy, no schema: the 'policy' kind is not among the enhancement kinds
Open ==
    [read |-> Sites, create |-> Sites, update |-> Sites, delete |-> Sites,
     post |-> PostSites, postGuarded |-> FALSE, needsPre |-> FALSE,
     fieldGuard |-> Everywhere, override |-> Nowhere,
     fieldChecker |-> Everywhere,
     updateChecker |-> Sites, deleteChecker |-> Sites,
     inputAllow |-> Rows, inputDeny |-> {}, valid |-> Rows]

\* generated policies always have a post-update guard, constant or not
Guarded == [Open EXCEPT !.postGuarded = TRUE, !.inputAllow = {}]

\* rows of the user have b = 1 and cannot be given away; a = 1 is published
Owner ==
    [Guarded EXCEPT
        !.read = OnRows(WithA(1)), !.create = OnRows(WithB(1)),
        !.update = OnRows(WithB(1)), !.delete = OnRows(WithB(1)),
        !.needsPre = TRUE,
        !.post = {x \in PostSites :
                    x[3][x[1]] # NoRow /\ x[2] # NoRow /\ x[3][x[1]][fb] = x[2][fb]},
        !.inputAllow = {Row(1, 1)}, !.inputDeny = WithB(0)]

\* rules over related rows: delete leaves one row, publish next to a published
Related ==
    [Guarded EXCEPT
        !.delete = HasNeighbour, !.create = Sites,
        !.update = HasFlaggedNeighbour]

\* b is updated where a = 1 and, overriding the model, where the row is (0, 0)
FieldLevel ==
    [Guarded EXCEPT
        !.update = OnRows(WithB(1)),
        !.fieldGuard = [f \in Fields |-> IF f = fb THEN OnRows(WithA(1)) ELSE Sites],
        !.override = [f \in Fields |-> IF f = fb THEN OnRows({Row(0, 0)}) ELSE {}]]

\* cross-model comparisons, checked in JavaScript on the candidates
Compared ==
    [Guarded EXCEPT
        !.updateChecker = HasNeighbour, !.deleteChecker = OnRows(WithB(1))]

\* a schema that rejects (0, 1), whose guards deny everything but update
Validated ==
    [Guarded EXCEPT
        !.valid = Rows \ {Row(0, 1)}, !.delete = {}, !.create = {}]

\* the same schema, and an override that lets b be set on any row with b = 0
Overridden ==
    [Validated EXCEPT
        !.update = OnRows(WithB(1)),
        !.override = [f \in Fields |-> IF f = fb THEN OnRows(WithB(0)) ELSE {}]]

\* a field rule that compares across models: b is set where a = 1
FieldCompared ==
    [Guarded EXCEPT
        !.postGuarded = FALSE,
        !.fieldChecker =
            [f \in Fields |-> IF f = fb THEN OnRows(WithA(1)) ELSE Sites]]

MCPolicyOf ==
    [n \in {"Open", "Owner", "Related", "FieldLevel", "Compared", "Validated",
            "Overridden", "FieldCompared"} |->
        CASE n = "Open" -> Open [] n = "Owner" -> Owner
          [] n = "Related" -> Related [] n = "FieldLevel" -> FieldLevel
          [] n = "Compared" -> Compared [] n = "Validated" -> Validated
          [] n = "Overridden" -> Overridden
          [] n = "FieldCompared" -> FieldCompared]

AnyRow == Ids \X Rows
Item(n, i, row) == [row |-> row, slot |-> n, id |-> i]
Set(f, v) == [g \in {f} |-> v]

\* a call in a transaction of its own
Request(op, p, i, where, items, skip, data) ==
    [op |-> op, pol |-> p, app |-> "plain", isolation |-> "Serializable",
     id |-> i, where |-> where, items |-> items, skipDuplicates |-> skip,
     returning |-> FALSE, data |-> data]

NoData == [f \in {} |-> 0]

Create(p, i, row) ==
    Request("create", p, i, {}, {Item(1, i, row)}, FALSE, NoData)
CreateMany(p, items, skip) ==
    Request("createMany", p, i1, {}, items, skip, NoData)
Update(p, i, data) == Request("update", p, i, {}, {}, FALSE, data)
UpdateMany(p, data) == Request("updateMany", p, i1, AnyRow, {}, FALSE, data)
Upsert(p, i, row, data) ==
    Request("upsert", p, i, {}, {Item(1, i, row)}, FALSE, data)
Delete(p, i) == Request("delete", p, i, {}, {}, FALSE, NoData)
DeleteMany(p, w) == Request("deleteMany", p, i1, w, {}, FALSE, NoData)
Returning(r) == [r EXCEPT !.returning = TRUE]
Interactive(r) == [r EXCEPT !.app = "interactive"]
Swallowed(r) == [r EXCEPT !.app = "swallow"]

\* The requests keep to the combinations for which the code does what the
\* contract says; the other ones are MCOverridden and MCCompared with a compound
\* identity, below, and updateMany under FieldCompared.
MCRequests ==
    {Create("Owner", i1, Row(0, 1)),
     Create("Owner", i2, Row(1, 1)),
     CreateMany("Owner", {Item(1, i1, Row(1, 1)), Item(2, i2, Row(0, 1))}, TRUE),
     Returning(CreateMany("Owner", {Item(1, i2, Row(1, 1))}, FALSE)),
     Interactive(Returning(CreateMany("Open", {Item(1, i1, Row(0, 0)),
                                 Item(2, i1, Row(1, 0))}, TRUE))),
     Update("Owner", i1, Set(fb, 0)),
     Interactive(Update("Owner", i1, Set(fa, 0))),
     Update("Related", i2, Set(fa, 1)),
     Update("FieldLevel", i1, Set(fb, 1)),
     Update("Validated", i2, NoData),
     Update("FieldCompared", i1, Set(fb, 0)),
     UpdateMany("Related", Set(fa, 0)),
     Returning(UpdateMany("Open", Set(fb, 1))),
     Returning(UpdateMany("Compared", Set(fb, 0))),
     Upsert("Owner", i2, Row(1, 1), Set(fa, 0)),
     Upsert("Validated", i2, Row(1, 1), Set(fa, 0)),
     Delete("Related", i1), Delete("Related", i2),
     DeleteMany("Compared", AnyRow),
     DeleteMany("Owner", {x \in AnyRow : x[2] \in WithA(0)}) }

\* Calls under weaker isolation, of policies that look only at the row: single
\* rows against each other and against set operations.
At(level, r) == [r EXCEPT !.isolation = level]

MCWeakRequests ==
    {At("ReadCommitted", r) : r \in
        {CreateMany("Owner", {Item(1, i1, Row(1, 1)), Item(2, i2, Row(0, 1))}, TRUE),
         Update("Owner", i1, Set(fa, 0)), Update("Owner", i2, Set(fb, 0)),
         Swallowed(Upsert("Owner", i1, Row(1, 1), Set(fb, 0))),
         Delete("Owner", i2),
         UpdateMany("Open", Set(fb, 0)),
         Returning(UpdateMany("Open", Set(fa, 1))),
         DeleteMany("Owner", {x \in AnyRow : x[2] \in WithA(0)})}}
    \cup
    {At("Snapshot", r) : r \in
        {Create("Owner", i1, Row(0, 1)),
         Update("Owner", i1, Set(fa, 1)), Update("FieldLevel", i1, Set(fb, 1)),
         Update("Validated", i2, Set(fa, 0)),
         Upsert("Owner", i2, Row(0, 1), Set(fa, 0)),
         Interactive(Update("Owner", i1, Set(fa, 0))),
         Delete("Owner", i1)}}

\* updateMany against another write, where it departs from the contract
MCCompared ==
    {UpdateMany("Compared", Set(fa, 1)), Update("Owner", i1, Set(fa, 1)),
     DeleteMany("Compared", AnyRow), Create("Owner", i1, Row(0, 1))}
MCOverridden ==
    {UpdateMany("Overridden", Set(fb, 1)), Update("Owner", i1, Set(fa, 1))}

\* no rows, a published and a private row, one row that field rules single out
MCInitialStates ==
    {NoRows,
     [i \in Ids |-> IF i = i1 THEN Row(0, 1) ELSE Row(1, 1)],
     [i \in Ids |-> IF i = i1 THEN Row(0, 0) ELSE NoRow]}
=============================================================================
