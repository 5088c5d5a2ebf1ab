-------------------------- MODULE PolicyWriteProofs --------------------------
(***************************************************************************)
(* What the write path guarantees for any number of clients, rows, fields, *)
(* policies and requests: its variables keep their types, and a refused    *)
(* call changes nothing.                                                   *)
(***************************************************************************)
EXTENDS PolicyWrite, TLAPS

\* What a request names is a row, items, a payload and an operation.
LEMMA RequestIsTyped ==
    ASSUME NEW r \in Requests
    PROVE  /\ r.id \in Ids
           /\ r.items \subseteq Items
           /\ r.data \in PartialRows
           /\ r.op \in Ops
  BY ConstantsAssumption DEF RequestType

\* An update of a row with a typed payload is again a complete row.
LEMMA WrittenIsRow ==
    ASSUME NEW row \in Rows, NEW data \in PartialRows
    PROVE  Written(row, data) \in Rows
<1>1. PICK F \in SUBSET Fields : data \in [F -> Vals]
  BY DEF PartialRows
<1> QED
  BY <1>1 DEF Written, Rows

\* What a client sees and what its commit leaves are database states.
LEMMA ViewIsState ==
    ASSUME TypeOK, NEW c \in Clients
    PROVE  View(c) \in States /\ Merged(c) \in States /\ WrittenIds(c) \subseteq Ids
<1>1. Base(c) \in States
  BY DEF TypeOK, Base
<1>2. wr[c] \in [Ids -> Rows \cup {NoRow, Clean}] /\ db \in States
  BY DEF TypeOK
<1> QED
  BY <1>1, <1>2 DEF View, Merged, WrittenIds, States

\* A native statement writes rows, or removes them, at identities of the model.
LEMMA NativeWritesAreRows ==
    ASSUME NEW r \in Requests, NEW s \in States, NEW P,
           NEW w \in NativeWrites(r, s, P)
    PROVE  /\ DOMAIN w \subseteq Ids
           /\ \A i \in DOMAIN w : w[i] \in Rows \cup {NoRow}
<1>1. CASE r.op = "createMany"
  <2>1. w \in [FreeIds(r.items, s) -> Rows]
    BY <1>1 DEF NativeWrites, NativeCreates
  <2>2. FreeIds(r.items, s) \subseteq Ids
    BY RequestIsTyped DEF FreeIds, Items
  <2> QED
    BY <2>1, <2>2
<1>2. CASE r.op = "updateMany"
  <2>1. w = [i \in Updatable(r, s) \cap P |-> Written(s[i], r.data)]
    BY <1>2 DEF NativeWrites
  <2>2. \A i \in Updatable(r, s) : i \in Ids /\ s[i] \in Rows
    BY DEF Updatable, Matching, States
  <2> QED
    BY <2>1, <2>2, WrittenIsRow, RequestIsTyped
<1>3. CASE r.op \notin {"createMany", "updateMany"}
  <2>1. w = [i \in Deletable(r, s) \cap P |-> NoRow]
    BY <1>3 DEF NativeWrites
  <2> QED
    BY <2>1 DEF Deletable, Matching
<1> QED
  BY <1>1, <1>2, <1>3

-----------------------------------------------------------------------------
(* Types: the control helpers first, then one step per action. *)

\* Ending a call, with its transaction rolled back or committed, keeps the types.
LEMMA FinishIsTyped ==
    ASSUME TypeOK, NEW c \in Clients, req[c] \in Requests,
           NEW a \in Refusals \cup {"none", "ok", "notReadable", "dbError"},
           db' \in States, Finish(c, a)
    PROVE  TypeOK'
<1>1. NoRows \in States /\ AllClean \in [Ids -> Rows \cup {NoRow, Clean}]
  BY DEF NoRows, States, AllClean
<1> QED
  BY <1>1 DEF TypeOK, Finish, Goto, Answer

\* An error thrown by the handler keeps the types, caught by the caller or not.
LEMMA RefuseIsTyped ==
    ASSUME TypeOK, NEW c \in Clients, req[c] \in Requests,
           NEW a \in Refusals, Refuse(c, a)
    PROVE  TypeOK'
<1>1. CASE req[c].app = "swallow"
  BY <1>1 DEF TypeOK, Refuse, Goto, Answer, Stages
<1>2. CASE req[c].app # "swallow"
  <2>1. Finish(c, a) /\ db' = db
    BY <1>2 DEF Refuse
  <2> QED
    BY <2>1, FinishIsTyped DEF TypeOK
<1> QED
  BY <1>1, <1>2

\* Writing rows into a transaction's write set keeps it a write set.
LEMMA PutIsTyped ==
    ASSUME TypeOK, NEW c \in Clients, NEW w, Put(c, w),
           \A i \in DOMAIN w : i \in Ids => w[i] \in Rows \cup {NoRow}
    PROVE  wr' \in [Clients -> [Ids -> Rows \cup {NoRow, Clean}]]
  BY DEF TypeOK, Put

\* Going on to the post-write checks, or past them, keeps the types.
LEMMA RegisterIsTyped ==
    ASSUME TypeOK, NEW c \in Clients, req[c] \in Requests,
           NEW ks \in SUBSET Checks, Register(c, ks),
           wr' \in [Clients -> [Ids -> Rows \cup {NoRow, Clean}]],
           todo' \in [Clients -> SUBSET (Items \X {"lookup", "create"})],
           UNCHANGED <<db, req, snap, picked, resp>>
    PROVE  TypeOK'
<1>1. AfterChecks(req[c]) \in Stages /\ "post" \in Stages
  BY DEF AfterChecks, Stages
<1>2. /\ checks' = [checks EXCEPT ![c] = ks]
      /\ pc' = [pc EXCEPT ![c] = IF ks = {} THEN AfterChecks(req[c]) ELSE "post"]
  BY DEF Register, Goto
<1> QED
  BY <1>1, <1>2 DEF TypeOK

\* Making a call keeps the types.
LEMMA IssueIsTyped ==
    ASSUME TypeOK, NEW c \in Clients, NEW r \in Requests, Issue(c, r)
    PROVE  TypeOK'
  BY DEF TypeOK, Issue, Goto

\* Every step of the handler keeps the types, one step of the proof per action.
LEMMA StepIsTyped ==
    ASSUME TypeOK, NEW c \in Clients, Step(c)
    PROVE  TypeOK'
<1>1. pc[c] # "idle" /\ req[c] \in Requests
  <2>1. pc[c] # "idle"
    BY DEF Step, Prepare, Begin, Probe, Exist, CheckPolicy, ReadPreValue,
           WriteRow, Insert, ReadFirst, Lookup, CreateItem, FindCandidates,
           Native, PostCheck, ReadBack, Rethrow, Commit, Direct, ReadAfter,
           Abort, Stages
  <2> QED
    BY <2>1 DEF TypeOK
<1>2. View(c) \in States /\ Merged(c) \in States /\ WrittenIds(c) \subseteq Ids
  BY ViewIsState
<1>3. req[c].id \in Ids /\ req[c].items \subseteq Items /\ req[c].data \in PartialRows
  BY <1>1, RequestIsTyped
<1>4. CASE Prepare(c)
  BY <1>4, <1>1 DEF TypeOK, Prepare, Goto, Answer, Stages, Refusals
<1>5. CASE Begin(c)
  <2>1. FirstStage(req[c]) \in Stages
    BY DEF FirstStage, Stages
  <2>2. todo' \in [Clients -> SUBSET (Items \X {"lookup", "create"})]
    BY <1>5, <1>3 DEF TypeOK, Begin
  <2> QED
    BY <1>5, <1>1, <2>1, <2>2 DEF TypeOK, Begin, Goto
<1>6. CASE Probe(c)
  BY <1>6, <1>1 DEF TypeOK, Probe, Goto, Stages
<1>7. CASE Exist(c)
  <2>1. CASE \E a \in Refusals : Refuse(c, a)
    BY <2>1, <1>1, RefuseIsTyped
  <2>2. CASE /\ pc' = [pc EXCEPT ![c] = "write"] \/ pc' = [pc EXCEPT ![c] = "check"]
             /\ UNCHANGED <<db, req, snap, wr, checks, todo, picked, resp>>
    BY <2>2, <1>1 DEF TypeOK, Stages
  <2> QED
    BY <1>7, <2>1, <2>2 DEF Exist, Goto, Refusals
<1>8. CASE CheckPolicy(c)
  <2>1. CASE Refuse(c, "denied")
    BY <2>1, <1>1, RefuseIsTyped DEF Refusals
  <2>2. CASE ~Refuse(c, "denied")
    <3>1. [kind |-> "postUpdate", id |-> req[c].id, pre |-> NoRow] \in Checks
      BY <1>3 DEF Checks
    <3>2. PICK ks \in SUBSET Checks : checks' = [checks EXCEPT ![c] = ks]
      BY <1>8, <2>2, <3>1 DEF CheckPolicy
    <3>3. /\ \E stage \in {"pre", "write"} : pc' = [pc EXCEPT ![c] = stage]
          /\ UNCHANGED <<db, req, snap, wr, todo, picked, resp>>
      BY <1>8, <2>2 DEF CheckPolicy, Goto
    <3> QED
      BY <3>2, <3>3, <1>1 DEF TypeOK, Stages
  <2> QED
    BY <2>1, <2>2
<1>9. CASE ReadPreValue(c)
  <2>1. [kind |-> "postUpdate", id |-> req[c].id, pre |-> View(c)[req[c].id]] \in Checks
    BY <1>2, <1>3 DEF Checks, States
  <2> QED
    BY <1>9, <2>1, <1>1 DEF TypeOK, ReadPreValue, Goto, Stages
<1>10. CASE WriteRow(c)
  <2>1. View(c)[req[c].id] \in Rows /\ checks[c] \in SUBSET Checks
    BY <1>10, <1>2, <1>3 DEF TypeOK, WriteRow, States
  <2>2. UNCHANGED <<db, req, snap, todo, picked, resp>>
    BY <1>10 DEF WriteRow
  <2>3. CASE /\ Put(c, [j \in {req[c].id} |-> NoRow])
             /\ Goto(c, "commit") /\ UNCHANGED checks
    BY <2>2, <2>3, <1>1, PutIsTyped DEF TypeOK, Goto, Stages
  <2>4. CASE /\ Put(c, [j \in {req[c].id} |->
                         Written(View(c)[req[c].id], req[c].data)])
             /\ Register(c, checks[c])
    <3>1. wr' \in [Clients -> [Ids -> Rows \cup {NoRow, Clean}]]
      BY <2>1, <2>4, <1>3, WrittenIsRow, PutIsTyped
    <3> QED
      BY <3>1, <2>1, <2>2, <2>4, <1>1, RegisterIsTyped DEF TypeOK
  <2> QED
    BY <1>10, <2>3, <2>4 DEF WriteRow
<1>11. CASE Insert(c)
  <2>1. CASE Refuse(c, "denied")
    BY <2>1, <1>1, RefuseIsTyped DEF Refusals
  <2>2. CASE ~Refuse(c, "denied")
    <3>1. PICK x \in req[c].items :
             /\ Put(c, [j \in {x.id} |-> x.row])
             /\ \/ Register(c, {})
                \/ Register(c, {[kind |-> "create", id |-> x.id, pre |-> NoRow]})
             /\ UNCHANGED <<db, req, snap, todo, picked, resp>>
      BY <1>11, <2>2 DEF Insert
    <3>2. x.id \in Ids /\ x.row \in Rows
      BY <1>3, <3>1 DEF Items
    <3>3. [kind |-> "create", id |-> x.id, pre |-> NoRow] \in Checks
      BY <3>2 DEF Checks
    <3>4. PICK ks \in SUBSET Checks : Register(c, ks)
      BY <3>1, <3>3
    <3>5. /\ wr' \in [Clients -> [Ids -> Rows \cup {NoRow, Clean}]]
          /\ todo' \in [Clients -> SUBSET (Items \X {"lookup", "create"})]
      BY <3>1, <3>2, PutIsTyped DEF TypeOK
    <3> QED
      BY <3>1, <3>4, <3>5, <1>1, RegisterIsTyped
  <2> QED
    BY <2>1, <2>2
<1>12. CASE ReadFirst(c)
  BY <1>12, <1>1 DEF TypeOK, ReadFirst, Goto, Answer, Stages
<1>13. ASSUME NEW t \in todo[c], Lookup(c, t[1]) PROVE TypeOK'
  <2>1. t[1] \in Items /\ todo[c] \subseteq Items \X {"lookup", "create"}
    BY DEF TypeOK
  <2>2. todo' \in [Clients -> SUBSET (Items \X {"lookup", "create"})]
    BY <1>13, <2>1 DEF TypeOK, Lookup
  <2>3. /\ UNCHANGED <<db, req, snap, wr, picked, resp>>
        /\ Register(c, checks[c]) \/ UNCHANGED <<pc, checks>>
    BY <1>13 DEF Lookup
  <2>4. checks[c] \in SUBSET Checks
    BY DEF TypeOK
  <2> QED
    BY <2>2, <2>3, <2>4, <1>1, RegisterIsTyped DEF TypeOK
<1>14. ASSUME NEW t \in todo[c], CreateItem(c, t[1]) PROVE TypeOK'
  <2> DEFINE x == t[1]
             ks == checks[c] \cup {[kind |-> "create", id |-> x.id, pre |-> NoRow]}
  <2>1. x \in Items /\ todo[c] \subseteq Items \X {"lookup", "create"}
    BY DEF TypeOK
  <2>2. x.id \in Ids /\ x.row \in Rows
    BY <2>1 DEF Items
  <2>3. todo' \in [Clients -> SUBSET (Items \X {"lookup", "create"})]
    BY <1>14, <2>1 DEF TypeOK, CreateItem
  <2>4. ks \in SUBSET Checks
    BY <2>2 DEF TypeOK, Checks
  <2>5. /\ UNCHANGED <<db, req, snap, picked, resp>>
        /\ Put(c, [j \in {x.id} |-> x.row])
        /\ \/ Register(c, ks)
           \/ checks' = [checks EXCEPT ![c] = ks] /\ UNCHANGED pc
    BY <1>14 DEF CreateItem
  <2>6. wr' \in [Clients -> [Ids -> Rows \cup {NoRow, Clean}]]
    BY <2>2, <2>5, PutIsTyped
  <2>7. CASE Register(c, ks)
    BY <2>3, <2>4, <2>5, <2>6, <2>7, <1>1, RegisterIsTyped
  <2>8. CASE checks' = [checks EXCEPT ![c] = ks] /\ UNCHANGED pc
    BY <2>3, <2>4, <2>5, <2>6, <2>8, <1>1 DEF TypeOK
  <2> HIDE DEF x, ks
  <2> QED
    BY <2>5, <2>7, <2>8
<1>15. CASE FindCandidates(c)
  <2>1. View(c) \in States /\ \A S : IdFilter(UpdateCandidates(req[c], S)) \subseteq Ids
                           /\ IdFilter(DeleteCandidates(req[c], S)) \subseteq Ids
    BY <1>2 DEF IdFilter, UpdateCandidates, DeleteCandidates, Updatable,
                Deletable, Matching
  <2>2. picked' \in [Clients -> SUBSET Ids]
    BY <1>15, <2>1 DEF TypeOK, FindCandidates
  <2>3. \A i \in UpdateCandidates(req[c], View(c)) :
          [kind |-> "postUpdate", id |-> i,
           pre |-> IF Pol(req[c]).needsPre THEN View(c)[i] ELSE NoRow] \in Checks
    BY <1>2 DEF UpdateCandidates, Updatable, Matching, Checks, States
  <2>4. checks' \in [Clients -> SUBSET Checks]
    BY <1>15, <2>3 DEF TypeOK, FindCandidates
  <2> QED
    BY <1>15, <2>2, <2>4, <1>1 DEF TypeOK, FindCandidates, Goto, Stages
<1>16. CASE Native(c)
  <2>1. PICK w \in NativeWrites(req[c], View(c), picked[c]) : Put(c, w)
    BY <1>16 DEF Native
  <2>2. wr' \in [Clients -> [Ids -> Rows \cup {NoRow, Clean}]]
    BY <2>1, <1>1, <1>2, NativeWritesAreRows, PutIsTyped
  <2>3. /\ checks[c] \in SUBSET Checks /\ Register(c, checks[c])
        /\ UNCHANGED <<db, req, snap, todo, picked, resp>>
    BY <1>16 DEF TypeOK, Native
  <2> QED
    BY <2>2, <2>3, <1>1, RegisterIsTyped DEF TypeOK
<1>17. CASE PostCheck(c)
  <2>1. CASE Refuse(c, "denied")
    BY <2>1, <1>1, RefuseIsTyped DEF Refusals
  <2>2. CASE ~Refuse(c, "denied")
    <3>1. PICK k \in checks[c] :
             /\ Register(c, checks[c] \ {k})
             /\ UNCHANGED <<db, req, snap, wr, todo, picked, resp>>
      BY <1>17, <2>2 DEF PostCheck
    <3>2. checks[c] \ {k} \in SUBSET Checks
      BY DEF TypeOK
    <3> QED
      BY <3>1, <3>2, <1>1, RegisterIsTyped DEF TypeOK
  <2> QED
    BY <2>1, <2>2
<1>18. CASE ReadBack(c)
  BY <1>18, <1>1 DEF TypeOK, ReadBack, ReadResult, Goto, Answer, Stages
<1>19. CASE Rethrow(c)
  BY <1>19, <1>1, FinishIsTyped DEF TypeOK, Rethrow
<1>20. CASE Commit(c)
  <2>1. db' \in States
    BY <1>20, <1>2 DEF Commit
  <2>2. CASE \E a \in Refusals \cup {"none", "ok", "notReadable", "dbError"} :
                Finish(c, a)
    BY <2>1, <2>2, <1>1, FinishIsTyped
  <2>3. CASE /\ Goto(c, "readAfter")
             /\ picked' = [picked EXCEPT ![c] = WrittenIds(c)]
             /\ snap' = [snap EXCEPT ![c] = NoRows]
             /\ wr' = [wr EXCEPT ![c] = AllClean]
             /\ UNCHANGED <<req, checks, todo, resp>>
    BY <2>1, <2>3, <1>1, <1>2 DEF TypeOK, Goto, NoRows, States, AllClean
  <2> QED
    BY <1>20, <2>2, <2>3 DEF Commit, TypeOK
<1>21. CASE Direct(c)
  <2>1. PICK w \in NativeWrites(req[c], db, Ids) :
           /\ db' = [i \in Ids |-> IF i \in DOMAIN w THEN w[i] ELSE db[i]]
           /\ \/ /\ Goto(c, "readAfter")
                 /\ picked' = [picked EXCEPT ![c] = DOMAIN w]
                 /\ UNCHANGED <<req, snap, wr, checks, todo, resp>>
              \/ \E a \in {"ok", "dbError"} : Finish(c, a)
    BY <1>21 DEF Direct
  <2>2. DOMAIN w \subseteq Ids /\ \A i \in DOMAIN w : w[i] \in Rows \cup {NoRow}
    BY <2>1, <1>1, NativeWritesAreRows DEF TypeOK
  <2>3. db' \in States
    BY <2>1, <2>2 DEF TypeOK, States
  <2>4. CASE \E a \in {"ok", "dbError"} : Finish(c, a)
    BY <2>3, <2>4, <1>1, FinishIsTyped
  <2>5. CASE /\ Goto(c, "readAfter")
             /\ picked' = [picked EXCEPT ![c] = DOMAIN w]
             /\ UNCHANGED <<req, snap, wr, checks, todo, resp>>
    BY <2>2, <2>3, <2>5, <1>1 DEF TypeOK, Goto
  <2> QED
    BY <2>1, <2>4, <2>5
<1>22. CASE ReadAfter(c)
  BY <1>22, <1>1, FinishIsTyped DEF TypeOK, ReadAfter, ReadResult
<1>23. CASE Abort(c)
  BY <1>23, <1>1, FinishIsTyped DEF TypeOK, Abort
<1> QED
  BY <1>4, <1>5, <1>6, <1>7, <1>8, <1>9, <1>10, <1>11, <1>12, <1>13, <1>14,
     <1>15, <1>16, <1>17, <1>18, <1>19, <1>20, <1>21, <1>22, <1>23 DEF Step

\* Whatever the clients, rows and policies, every variable keeps its type: a
\* commit writes complete rows, a check names a row, an answer is one of five.
THEOREM TypeCorrect == Spec => []TypeOK
<1>1. Init => TypeOK
  BY ConstantsAssumption DEF Init, TypeOK, NoRows, States, AllClean
<1>2. TypeOK /\ [Next]_vars => TypeOK'
  <2>1. ASSUME TypeOK, Next PROVE TypeOK'
    BY <2>1, IssueIsTyped, StepIsTyped DEF Next
  <2>2. ASSUME TypeOK, UNCHANGED vars PROVE TypeOK'
    BY <2>2 DEF TypeOK, vars
  <2> QED
    BY <2>1, <2>2
<1> QED
  BY <1>1, <1>2, PTL DEF Spec

-----------------------------------------------------------------------------
(* Refusals.  A client that was told it is refused has nothing more to do, *)
(* unless its caller caught the refusal in a transaction still open: the   *)
(* strengthening that makes RefusedLeavesNoTrace inductive, for a commit   *)
(* answers what was decided in an earlier step.                            *)

RefusalIsFinal(c) ==
    resp[c] \in Refusals =>
        \/ pc[c] = "done"
        \/ pc[c] = "commit" /\ req[c].app = "swallow"

RefusalsAreFinal == \A c \in Clients : RefusalIsFinal(c)

\* what a step of c does to the control state: only c's, and never both a
\* refusal and a write
RefusesCleanly(c) ==
    /\ \A d \in Clients \ {c} : pc'[d] = pc[d] /\ resp'[d] = resp[d]
    /\ req' = req
    /\ RefusalIsFinal(c)'
    /\ resp'[c] \in Refusals /\ req[c].app # "swallow" => db' = db

\* Ending a call refuses it cleanly if a refusal leaves the rows alone.
LEMMA FinishRefusesCleanly ==
    ASSUME TypeOK, NEW c \in Clients, NEW a, Finish(c, a),
           a \in Refusals /\ req[c].app # "swallow" => db' = db
    PROVE  RefusesCleanly(c)
<1>1. pc'[c] = "done" /\ resp'[c] = a /\ req' = req
  BY DEF TypeOK, Finish, Goto, Answer
<1>2. \A d \in Clients \ {c} : pc'[d] = pc[d] /\ resp'[d] = resp[d]
  BY DEF TypeOK, Finish, Goto, Answer
<1> QED
  BY <1>1, <1>2 DEF RefusesCleanly, RefusalIsFinal

\* An error thrown by the handler writes no committed row.
LEMMA RefuseRefusesCleanly ==
    ASSUME TypeOK, NEW c \in Clients, NEW a \in Refusals, Refuse(c, a)
    PROVE  RefusesCleanly(c)
<1>1. CASE req[c].app = "swallow"
  BY <1>1 DEF TypeOK, Refuse, Goto, Answer, RefusesCleanly, RefusalIsFinal
<1>2. CASE req[c].app # "swallow"
  BY <1>2, FinishRefusesCleanly DEF Refuse
<1> QED
  BY <1>1, <1>2

\* A step that keeps the answer, while it is no refusal, refuses nothing.
LEMMA GoingOnRefusesCleanly ==
    ASSUME TypeOK, NEW c \in Clients, RefusalIsFinal(c),
           pc[c] \notin {"done", "commit"},
           \A d \in Clients \ {c} : pc'[d] = pc[d],
           UNCHANGED <<req, resp>>
    PROVE  RefusesCleanly(c)
  BY DEF RefusesCleanly, RefusalIsFinal

\* Registering checks moves the control of one client only.
LEMMA RegisterMovesOne ==
    ASSUME TypeOK, NEW c \in Clients, NEW ks, Register(c, ks)
    PROVE  \A d \in Clients \ {c} : pc'[d] = pc[d]
  BY DEF TypeOK, Register, Goto

\* Every step of the handler refuses cleanly, one step of the proof per action.
LEMMA StepRefusesCleanly ==
    ASSUME TypeOK, NEW c \in Clients, RefusalIsFinal(c), Step(c)
    PROVE  RefusesCleanly(c)
<1>1. CASE Prepare(c)
  BY <1>1 DEF TypeOK, Prepare, Goto, Answer, RefusesCleanly, RefusalIsFinal
<1>2. CASE Begin(c) \/ Probe(c) \/ ReadPreValue(c) \/ FindCandidates(c)
  <2>1. pc[c] \notin {"done", "commit"} /\ UNCHANGED <<req, resp>>
    BY <1>2 DEF Begin, Probe, ReadPreValue, FindCandidates
  <2>2. \A d \in Clients \ {c} : pc'[d] = pc[d]
    BY <1>2 DEF TypeOK, Begin, Probe, ReadPreValue, FindCandidates, Goto
  <2> QED
    BY <2>1, <2>2, GoingOnRefusesCleanly
<1>3. CASE Exist(c)
  <2>1. CASE \E a \in Refusals : Refuse(c, a)
    BY <2>1, RefuseRefusesCleanly
  <2>2. CASE ~ \E a \in Refusals : Refuse(c, a)
    BY <1>3, <2>2, GoingOnRefusesCleanly DEF TypeOK, Exist, Goto, Refusals
  <2> QED
    BY <2>1, <2>2
<1>4. CASE CheckPolicy(c)
  <2>1. CASE Refuse(c, "denied")
    BY <2>1, RefuseRefusesCleanly DEF Refusals
  <2>2. CASE ~Refuse(c, "denied")
    BY <1>4, <2>2, GoingOnRefusesCleanly DEF TypeOK, CheckPolicy, Goto
  <2> QED
    BY <2>1, <2>2
<1>5. CASE WriteRow(c)
  <2>1. pc[c] = "write" /\ UNCHANGED <<req, resp>>
    BY <1>5 DEF WriteRow
  <2>2. \A d \in Clients \ {c} : pc'[d] = pc[d]
    BY <1>5, RegisterMovesOne DEF TypeOK, WriteRow, Goto
  <2> QED
    BY <2>1, <2>2, GoingOnRefusesCleanly
<1>6. CASE Insert(c)
  <2>1. CASE Refuse(c, "denied")
    BY <2>1, RefuseRefusesCleanly DEF Refusals
  <2>2. CASE ~Refuse(c, "denied")
    <3>1. pc[c] = "insert" /\ UNCHANGED <<req, resp>>
      BY <1>6, <2>2 DEF Insert
    <3>2. \E ks : Register(c, ks)
      BY <1>6, <2>2 DEF Insert
    <3> QED
      BY <3>1, <3>2, RegisterMovesOne, GoingOnRefusesCleanly
  <2> QED
    BY <2>1, <2>2
<1>7. CASE ReadFirst(c) \/ ReadBack(c)
  <2>1. PICK a \in {"ok", "notReadable"} : resp' = [resp EXCEPT ![c] = a]
    BY <1>7 DEF ReadFirst, ReadBack, ReadResult, Answer
  <2>2. UNCHANGED req /\ \A d \in Clients \ {c} : pc'[d] = pc[d]
    BY <1>7 DEF TypeOK, ReadFirst, ReadBack, Goto
  <2> QED
    BY <2>1, <2>2 DEF TypeOK, RefusesCleanly, RefusalIsFinal, Refusals
<1>8. ASSUME NEW x, Lookup(c, x) \/ CreateItem(c, x) PROVE RefusesCleanly(c)
  <2>1. pc[c] = "items" /\ UNCHANGED <<req, resp>>
    BY <1>8 DEF Lookup, CreateItem
  <2>2. (\E ks : Register(c, ks)) \/ UNCHANGED pc
    BY <1>8 DEF Lookup, CreateItem
  <2> QED
    BY <2>1, <2>2, RegisterMovesOne, GoingOnRefusesCleanly
<1>9. CASE Native(c)
  BY <1>9, RegisterMovesOne, GoingOnRefusesCleanly DEF Native
<1>10. CASE PostCheck(c)
  <2>1. CASE Refuse(c, "denied")
    BY <2>1, RefuseRefusesCleanly DEF Refusals
  <2>2. CASE ~Refuse(c, "denied")
    <3>1. pc[c] = "post" /\ UNCHANGED <<req, resp>>
      BY <1>10, <2>2 DEF PostCheck
    <3>2. \E ks : Register(c, ks)
      BY <1>10, <2>2 DEF PostCheck
    <3> QED
      BY <3>1, <3>2, RegisterMovesOne, GoingOnRefusesCleanly
  <2> QED
    BY <2>1, <2>2
<1>11. CASE Rethrow(c) \/ ReadAfter(c) \/ Abort(c)
  BY <1>11, FinishRefusesCleanly DEF Rethrow, ReadAfter, Abort
<1>12. CASE Commit(c)
  <2>1. pc[c] = "commit"
    BY <1>12 DEF Commit
  <2>2. CASE \E a \in {IF resp[c] = "none" THEN "ok" ELSE resp[c], "dbError"} :
                Finish(c, a)
    \* the answer is a refusal only if it was one before this step
    <3>1. PICK a \in {IF resp[c] = "none" THEN "ok" ELSE resp[c], "dbError"} :
                Finish(c, a)
      BY <2>2
    <3>2. a \in Refusals => resp[c] \in Refusals
      BY DEF Refusals
    <3>3. a \in Refusals => req[c].app = "swallow"
      BY <2>1, <3>2 DEF RefusalIsFinal
    <3> QED
      BY <3>1, <3>3, FinishRefusesCleanly
  <2>3. CASE Goto(c, "readAfter") /\ req[c].app = "plain" /\ UNCHANGED <<req, resp>>
    BY <2>1, <2>3 DEF TypeOK, Goto, RefusesCleanly, RefusalIsFinal
  <2> QED
    BY <1>12, <2>2, <2>3 DEF Commit
<1>13. CASE Direct(c)
  <2>1. pc[c] = "direct"
    BY <1>13 DEF Direct
  <2>2. CASE \E a \in {"ok", "dbError"} : Finish(c, a)
    BY <2>2, FinishRefusesCleanly DEF Refusals
  <2>3. CASE Goto(c, "readAfter") /\ UNCHANGED <<req, resp>>
    BY <2>1, <2>3, GoingOnRefusesCleanly DEF TypeOK, Goto
  <2> QED
    BY <1>13, <2>2, <2>3 DEF Direct
<1> QED
  BY <1>1, <1>2, <1>3, <1>4, <1>5, <1>6, <1>7, <1>8, <1>9, <1>10, <1>11,
     <1>12, <1>13 DEF Step

\* The strengthening is inductive: no step takes a client past its refusal.
LEMMA RefusalsStayFinal ==
    ASSUME TypeOK, RefusalsAreFinal, [Next]_vars
    PROVE  RefusalsAreFinal'
<1>1. ASSUME NEW c \in Clients, NEW r \in Requests, Issue(c, r)
      PROVE  RefusalsAreFinal'
  BY <1>1 DEF TypeOK, Issue, Goto, RefusalsAreFinal, RefusalIsFinal
<1>2. ASSUME NEW c \in Clients, Step(c)
      PROVE  RefusalsAreFinal'
  <2>1. RefusesCleanly(c)
    BY <1>2, StepRefusesCleanly DEF RefusalsAreFinal
  <2> QED
    BY <2>1 DEF RefusesCleanly, RefusalsAreFinal, RefusalIsFinal
<1>3. CASE UNCHANGED vars
  BY <1>3 DEF vars, RefusalsAreFinal, RefusalIsFinal
<1> QED
  BY <1>1, <1>2, <1>3 DEF Next

\* A refused call, whatever it wrote before the refusal and whatever other
\* clients do meanwhile, changes no committed row (unless its own caller
\* swallows the refusal inside a transaction it goes on to commit).
THEOREM RefusalsLeaveNoTrace == Spec => RefusedLeavesNoTrace
<1>1. Init => RefusalsAreFinal
  BY DEF Init, RefusalsAreFinal, RefusalIsFinal, Refusals
<1>2. ASSUME TypeOK, RefusalsAreFinal, [Next]_vars,
             NEW c \in Clients, resp'[c] \in Refusals, pc[c] # pc'[c],
             req[c].app # "swallow"
      PROVE  db' = db
  <2>1. CASE UNCHANGED vars
    BY <2>1 DEF vars
  <2>2. ASSUME NEW d \in Clients, NEW r \in Requests, Issue(d, r)
        PROVE  db' = db
    BY <2>2 DEF Issue
  <2>3. ASSUME NEW d \in Clients, Step(d)
        PROVE  db' = db
    <3>1. RefusesCleanly(d)
      BY <2>3, StepRefusesCleanly, <1>2 DEF RefusalsAreFinal
    <3> QED
      BY <3>1, <1>2 DEF RefusesCleanly
  <2> QED
    BY <1>2, <2>1, <2>2, <2>3 DEF Next
<1>3. TypeOK /\ RefusalsAreFinal /\ [Next]_vars
        => [\A c \in Clients :
              /\ resp'[c] \in Refusals /\ pc[c] # pc'[c]
              /\ req[c].app # "swallow"
              => db' = db]_vars
  BY <1>2
<1>4. TypeOK /\ RefusalsAreFinal /\ [Next]_vars => RefusalsAreFinal'
  BY RefusalsStayFinal
<1> QED
  BY <1>1, <1>3, <1>4, TypeCorrect, PTL DEF Spec, RefusedLeavesNoTrace
=============================================================================
