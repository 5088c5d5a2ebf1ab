----------------------------- MODULE PolicyWrite -----------------------------
(***************************************************************************)
(* The write path of the policy enhancement (policy/handler.ts) over the   *)
(* database it delegates to.  A client makes one call (a session that      *)
(* makes several is several clients), one action per database statement;   *)
(* between two of them any other client may run.  The database is          *)
(* external: it isolates, locks, conflicts, times out and loses            *)
(* acknowledgements as the isolation level of each call allows.            *)
(***************************************************************************)
EXTENDS AccessPolicy

CONSTANTS
    Clients,        \* calls of enhanced clients of the same database
    Requests,       \* the calls they may make
    InitialStates,
    CompoundId,     \* the model's identity has several fields
    NoReq, Clean    \* "no request", "not written by the transaction"

ASSUME ConstantsAssumption ==
    /\ Requests \subseteq RequestType
    /\ \A r \in Requests : WellFormed(r)
    /\ InitialStates \subseteq States
    /\ CompoundId \in BOOLEAN
    /\ NoReq \notin Requests
    /\ Clean \notin Rows \cup {NoRow}

VARIABLES
    db,         \* the committed rows
    pc,         \* the statement each client executes next
    req,        \* its request
    snap,       \* the committed rows when its transaction began
    wr,         \* the rows its transaction wrote
    checks,     \* its post-write checks still to run
    todo,       \* createMany: items still to look up or to create
    picked,     \* updateMany, deleteMany: the id filter, then the result ids
    resp        \* its answer, once known

vars == <<db, pc, req, snap, wr, checks, todo, picked, resp>>

Stages == {"begin", "probe", "exist", "check", "pre", "write", "insert",
           "items", "candidates", "native", "readFirst", "post", "readBack",
           "commit"}
Refusals == {"denied", "notFound"}
Checks == [kind : {"create", "postUpdate"}, id : Ids, pre : Rows \cup {NoRow}]
AllClean == [i \in Ids |-> Clean]

TypeOK ==
    /\ db \in States
    /\ pc \in [Clients -> Stages \cup
                             {"idle", "called", "direct", "readAfter", "done"}]
    /\ req \in [Clients -> Requests \cup {NoReq}]
    /\ snap \in [Clients -> States]
    /\ wr \in [Clients -> [Ids -> Rows \cup {NoRow, Clean}]]
    /\ checks \in [Clients -> SUBSET Checks]
    /\ todo \in [Clients -> SUBSET (Items \X {"lookup", "create"})]
    /\ picked \in [Clients -> SUBSET Ids]
    /\ resp \in [Clients -> Refusals \cup {"none", "ok", "notReadable", "dbError"}]
    /\ \A c \in Clients : pc[c] # "idle" => req[c] \in Requests

-----------------------------------------------------------------------------
(* The database: what a transaction reads, writes and commits. *)

Base(c) == IF req[c].isolation = "ReadCommitted" THEN db ELSE snap[c]

View(c) == [i \in Ids |-> IF wr[c][i] = Clean THEN Base(c)[i] ELSE wr[c][i]]

Merged(c) == [i \in Ids |-> IF wr[c][i] = Clean THEN db[i] ELSE wr[c][i]]

\* A write waits for the row locks of other transactions; under snapshot
\* isolation a row changed since the snapshot cannot be written at all.
CanWrite(c, D) ==
    \A i \in D :
        /\ \A d \in Clients \ {c} : wr[d][i] = Clean
        /\ req[c].isolation = "Snapshot" => db[i] = snap[c][i]

\* A serializable database is one whose transactions might have run one
\* after the other: nothing is committed between the begin and the commit.
CanCommit(c) == req[c].isolation = "Serializable" => db = snap[c]

WrittenIds(c) == {i \in Ids : wr[c][i] # Clean}

-----------------------------------------------------------------------------
(* Control helpers.  Finish ends a call outside a transaction or discards  *)
(* one; Refuse is an error thrown by the handler inside a transaction,     *)
(* which aborts it unless the caller owns it and swallows the error.       *)

Goto(c, stage) == pc' = [pc EXCEPT ![c] = stage]
Answer(c, a) == resp' = [resp EXCEPT ![c] = a]
Put(c, w) == wr' = [wr EXCEPT ![c] = [i \in Ids |->
                        IF i \in DOMAIN w THEN w[i] ELSE wr[c][i]]]

Finish(c, a) ==
    /\ Goto(c, "done")
    /\ Answer(c, a)
    /\ snap' = [snap EXCEPT ![c] = NoRows]
    /\ wr' = [wr EXCEPT ![c] = AllClean]
    /\ checks' = [checks EXCEPT ![c] = {}]
    /\ todo' = [todo EXCEPT ![c] = {}]
    /\ picked' = [picked EXCEPT ![c] = {}]
    /\ UNCHANGED req

\* Faulty: a refusal that leaves the transaction open, or is retried.
RefuseAndCommit(c, a) ==
    /\ Goto(c, "commit") /\ Answer(c, a)
    /\ UNCHANGED <<db, req, snap, wr, checks, todo, picked>>
RefuseAndRetry(c, a) ==
    /\ Goto(c, "begin")
    /\ wr' = [wr EXCEPT ![c] = AllClean] /\ checks' = [checks EXCEPT ![c] = {}]
    /\ UNCHANGED <<db, req, snap, todo, picked, resp>>

Refuse(c, a) ==
    IF req[c].app = "swallow"
    THEN Goto(c, "commit") /\ Answer(c, a)
         /\ UNCHANGED <<db, req, snap, wr, checks, todo, picked>>
    ELSE Finish(c, a) /\ UNCHANGED db

-----------------------------------------------------------------------------
(* Issuing a call: the part of each operation that needs no statement. *)

RefusedUpFront(r) ==
    \/ /\ r.op \in {"create", "createMany", "upsert"}
       /\ StaticallyDenied(Pol(r), "create")
    \/ r.op \in {"updateMany", "upsert"} /\ StaticallyDenied(Pol(r), "update")
    \/ r.op \in {"delete", "deleteMany"} /\ StaticallyDenied(Pol(r), "delete")
    \/ /\ r.op \in {"create", "createMany"}
       /\ \E x \in r.items : x.row \in Pol(r).inputDeny
    \/ r.op = "createMany" /\ \E x \in r.items : x.row \notin Pol(r).valid
    \/ r.op = "updateMany" /\ ~ValidData(Pol(r), r.data)

\* set operations that need no check before or after the native statement
IsDirect(r) ==
    \/ r.op = "createMany" /\ \A x \in r.items : x.row \in Pol(r).inputAllow
    \/ r.op = "updateMany" /\ ~NeedsPostUpdate(Pol(r))
                           /\ Pol(r).updateChecker = Sites
    \/ r.op = "deleteMany" /\ Pol(r).deleteChecker = Sites

FirstStage(r) ==
    CASE r.op = "create" -> "insert"
      [] r.op = "update" -> "exist"
      [] r.op = "upsert" -> "probe"
      [] r.op = "delete" -> "readFirst"
      [] OTHER -> IF IsDirect(r) THEN "native"
                  ELSE IF r.op = "createMany" THEN "items" ELSE "candidates"

\* A call returns a deferred promise: nothing runs before it is awaited.
Issue(c, r) ==
    /\ pc[c] = "idle"
    /\ req' = [req EXCEPT ![c] = r]
    /\ Goto(c, "called")
    /\ UNCHANGED <<db, snap, wr, checks, todo, picked, resp>>

Prepare(c) ==
    /\ pc[c] = "called"
    /\ IF RefusedUpFront(req[c])
       THEN Goto(c, "done") /\ Answer(c, "denied")
       ELSE /\ Goto(c, IF IsDirect(req[c]) /\ req[c].app = "plain"
                       THEN "direct" ELSE "begin")
            /\ UNCHANGED resp
    /\ UNCHANGED <<db, req, snap, wr, checks, todo, picked>>

Begin(c) ==
    /\ pc[c] = "begin"
    /\ Goto(c, FirstStage(req[c]))
    /\ snap' = [snap EXCEPT ![c] = db]
    /\ picked' = [picked EXCEPT ![c] = Ids]
    /\ todo' = [todo EXCEPT ![c] =
                  IF FirstStage(req[c]) # "items" THEN {}
                  ELSE req[c].items \X
                         {IF req[c].skipDuplicates THEN "lookup" ELSE "create"}]
    /\ UNCHANGED <<db, req, wr, checks, resp>>

-----------------------------------------------------------------------------
(* Inside the transaction: creating, updating, deleting one row. *)

\* the stage after the writes once no check is left
AfterChecks(r) ==
    IF \/ r.op \in {"create", "update", "upsert"}
       \/ r.returning /\ (r.op = "createMany" \/ r.app # "plain")
    THEN "readBack" ELSE "commit"

\* Faulty: the post-write checks are collected and never run.
RegisterNothing(c, ks) ==
    /\ checks' = [checks EXCEPT ![c] = {}]
    /\ Goto(c, AfterChecks(req[c]))

Register(c, ks) ==
    /\ checks' = [checks EXCEPT ![c] = ks]
    /\ Goto(c, IF ks = {} THEN AfterChecks(req[c]) ELSE "post")

\* upsert is decomposed: is there a row to update?
Probe(c) ==
    /\ pc[c] = "probe"
    /\ Goto(c, IF View(c)[req[c].id] # NoRow THEN "exist" ELSE "insert")
    /\ UNCHANGED <<db, req, snap, wr, checks, todo, picked, resp>>

Exist(c) ==
    LET r == req[c]
        isUpdate == r.op # "delete"
        writesRow == isUpdate /\ DOMAIN r.data # {}
        denied == \/ isUpdate /\ ~ValidData(Pol(r), r.data)
                  \/ writesRow /\ StaticallyDenied(Pol(r), "update")
    IN  /\ pc[c] = "exist"
        /\ \/ View(c)[r.id] = NoRow /\ Refuse(c, "notFound")
           \/ View(c)[r.id] # NoRow /\ denied /\ Refuse(c, "denied")
           \/ /\ View(c)[r.id] # NoRow /\ ~denied
              /\ Goto(c, IF isUpdate /\ ~writesRow THEN "write" ELSE "check")
              /\ UNCHANGED <<db, req, snap, wr, checks, todo, picked, resp>>

\* Faulty: the rules of all fields apply, not those of the written ones.
AllowedInAllFields(r, s) ==
    IF r.op = "delete"
    THEN MayDelete(Pol(r), r.id, s)
    ELSE MayUpdate(Pol(r), Fields, r.id, s)

Allowed(r, s) ==
    IF r.op = "delete"
    THEN MayDelete(Pol(r), r.id, s)
    ELSE MayUpdate(Pol(r), DOMAIN r.data, r.id, s)

\* checkPolicyForUnique, then the registration of the post-update check
CheckPolicy(c) ==
    LET r == req[c]
        registers == r.op # "delete" /\ NeedsPostUpdate(Pol(r))
    IN  /\ pc[c] = "check"
        /\ IF ~Allowed(r, View(c))
           THEN Refuse(c, "denied")
           ELSE /\ Goto(c, IF registers /\ Pol(r).needsPre THEN "pre" ELSE "write")
                /\ checks' = [checks EXCEPT ![c] =
                      IF registers /\ ~Pol(r).needsPre
                      THEN {[kind |-> "postUpdate", id |-> r.id, pre |-> NoRow]}
                      ELSE {}]
                /\ UNCHANGED <<db, req, snap, wr, todo, picked, resp>>

ReadPreValue(c) ==
    /\ pc[c] = "pre"
    /\ checks' = [checks EXCEPT ![c] =
          {[kind |-> "postUpdate", id |-> req[c].id, pre |-> View(c)[req[c].id]]}]
    /\ Goto(c, "write")
    /\ UNCHANGED <<db, req, snap, wr, todo, picked, resp>>

\* The native update or delete is by identity alone: the guard was checked
\* by an earlier statement.  If the row is gone by now the statement fails.
WriteRow(c) ==
    LET r == req[c]
        i == r.id
    IN  /\ pc[c] = "write"
        /\ View(c)[i] # NoRow
        /\ CanWrite(c, {i})
        /\ \/ /\ r.op = "delete"
              /\ Put(c, [j \in {i} |-> NoRow])
              /\ Goto(c, "commit")
              /\ UNCHANGED checks
           \/ /\ r.op # "delete"
              /\ Put(c, [j \in {i} |-> Written(View(c)[i], r.data)])
              /\ Register(c, checks[c])
        /\ UNCHANGED <<db, req, snap, todo, picked, resp>>

\* The simple create needs no check after it; doCreate always registers one.
Insert(c) ==
    LET r == req[c] IN
    /\ pc[c] = "insert"
    /\ \E x \in r.items :
          \/ x.row \notin Pol(r).valid /\ Refuse(c, "denied")
          \/ /\ x.row \in Pol(r).valid
             /\ View(c)[x.id] = NoRow
             /\ CanWrite(c, {x.id})
             /\ Put(c, [j \in {x.id} |-> x.row])
             /\ Register(c, IF r.op = "create" /\ x.row \in Pol(r).inputAllow
                            THEN {}
                            ELSE {[kind |-> "create", id |-> x.id, pre |-> NoRow]})
             /\ UNCHANGED <<db, req, snap, todo, picked, resp>>

\* delete reads its result before the row goes
ReadFirst(c) ==
    /\ pc[c] = "readFirst"
    /\ Answer(c, IF Found(Pol(req[c]).read, req[c].id, View(c))
                 THEN "ok" ELSE "notReadable")
    /\ Goto(c, "exist")
    /\ UNCHANGED <<db, req, snap, wr, checks, todo, picked>>

-----------------------------------------------------------------------------
(* Inside the transaction: set operations. *)

\* doCreateMany runs its items concurrently (Promise.all): their look-ups and
\* creates interleave in any order.
Lookup(c, x) ==
    LET others == todo[c] \ {<<x, "lookup">>}
        left == IF View(c)[x.id] = NoRow THEN others \cup {<<x, "create">>} ELSE others
    IN  /\ pc[c] = "items"
        /\ <<x, "lookup">> \in todo[c]
        /\ todo' = [todo EXCEPT ![c] = left]
        /\ IF left = {} THEN Register(c, checks[c]) ELSE UNCHANGED <<pc, checks>>
        /\ UNCHANGED <<db, req, snap, wr, picked, resp>>

CreateItem(c, x) ==
    LET left == todo[c] \ {<<x, "create">>}
        ks == checks[c] \cup {[kind |-> "create", id |-> x.id, pre |-> NoRow]}
    IN  /\ pc[c] = "items"
        /\ <<x, "create">> \in todo[c]
        /\ View(c)[x.id] = NoRow
        /\ CanWrite(c, {x.id})
        /\ Put(c, [j \in {x.id} |-> x.row])
        /\ todo' = [todo EXCEPT ![c] = left]
        /\ IF left = {} THEN Register(c, ks)
           ELSE checks' = [checks EXCEPT ![c] = ks] /\ UNCHANGED pc
        /\ UNCHANGED <<db, req, snap, picked, resp>>

\* buildIdFilterWithEntityChecker: "in" the filtered identities, but the
\* conjunction of their equalities when the identity is compound
IdFilter(filtered) ==
    IF CompoundId THEN {i \in Ids : \A j \in filtered : i = j} ELSE filtered

\* Faulty: the candidates are not filtered by the entity checker.
UncheckedCandidates(r, s) == Updatable(r, s)

\* the model's guard is merged a second time, without the field-level rules
UpdateCandidates(r, s) ==
    {i \in Updatable(r, s) :
        <<i, s>> \in Pol(r).update \cap Pol(r).updateChecker}
DeleteCandidates(r, s) ==
    {i \in Deletable(r, s) : <<i, s>> \in Pol(r).deleteChecker}

FindCandidates(c) ==
    LET r == req[c]
        s == View(c)
        isUpdate == r.op = "updateMany"
    IN  /\ pc[c] = "candidates"
        /\ picked' = [picked EXCEPT ![c] =
              IF ~isUpdate THEN IdFilter(DeleteCandidates(r, s))
              ELSE IF Pol(r).updateChecker = Sites THEN Ids
              ELSE IdFilter(UpdateCandidates(r, s))]
        /\ checks' = [checks EXCEPT ![c] =
              IF ~isUpdate THEN {}
              ELSE {[kind |-> "postUpdate", id |-> i,
                     pre |-> IF Pol(r).needsPre THEN s[i] ELSE NoRow] :
                        i \in UpdateCandidates(r, s)}]
        /\ Goto(c, "native")
        /\ UNCHANGED <<db, req, snap, wr, todo, resp>>

\* What the native statement may write, seeing s, with the id filter P.  No
\* outcome: a unique constraint fails the statement.
FreeIds(items, s) == {x.id : x \in {y \in items : s[y.id] = NoRow}}

NativeCreates(r, s) ==
    {w \in [FreeIds(r.items, s) -> Rows] :
        /\ \A i \in DOMAIN w : \E x \in r.items : x.id = i /\ x.row = w[i]
        /\ ~r.skipDuplicates =>
              /\ \A x \in r.items : s[x.id] = NoRow
              /\ \A x, y \in r.items : x.id = y.id => x = y}

\* Faulty: the guard is not merged into the filter of the statement.
UnguardedWrites(r, s, P) ==
    CASE r.op = "createMany" -> NativeCreates(r, s)
      [] r.op = "updateMany" ->
            {[i \in Matching(r, s) \cap P |-> Written(s[i], r.data)]}
      [] OTHER -> {[i \in Matching(r, s) \cap P |-> NoRow]}

NativeWrites(r, s, P) ==
    CASE r.op = "createMany" -> NativeCreates(r, s)
      [] r.op = "updateMany" ->
            {[i \in Updatable(r, s) \cap P |-> Written(s[i], r.data)]}
      [] OTHER -> {[i \in Deletable(r, s) \cap P |-> NoRow]}

Native(c) ==
    /\ pc[c] = "native"
    /\ \E w \in NativeWrites(req[c], View(c), picked[c]) :
          CanWrite(c, DOMAIN w) /\ Put(c, w)
    /\ Register(c, checks[c])
    /\ UNCHANGED <<db, req, snap, todo, picked, resp>>

-----------------------------------------------------------------------------
(* Checks after the writes, reading the result, and the end. *)

\* Faulty: only the checks of created rows can fail.
ChecksCreateOnly(r, k, s) ==
    k.kind = "create" => PassesCreate(Pol(r), k.id, s)

CheckPasses(r, k, s) ==
    IF k.kind = "create"
    THEN PassesCreate(Pol(r), k.id, s)
    ELSE PassesPostUpdate(Pol(r), k.id, k.pre, s)

PostCheck(c) ==
    /\ pc[c] = "post"
    /\ \E k \in checks[c] :
          IF CheckPasses(req[c], k, View(c))
          THEN /\ Register(c, checks[c] \ {k})
               /\ UNCHANGED <<db, req, snap, wr, todo, picked, resp>>
          ELSE Refuse(c, "denied")

ReadResult(r, ids, s) ==
    IF \A i \in ids : Found(Pol(r).read, i, s) THEN "ok" ELSE "notReadable"

\* An unreadable result does not undo the write: it is returned as an error
\* out of the transaction and thrown after the commit.
ReadBack(c) ==
    /\ pc[c] = "readBack"
    /\ Answer(c, ReadResult(req[c], WrittenIds(c), View(c)))
    /\ Goto(c, "commit")
    /\ UNCHANGED <<db, req, snap, wr, checks, todo, picked>>

\* ... unless the transaction is the caller's, and the error aborts it.
Rethrow(c) ==
    /\ pc[c] = "commit"
    /\ req[c].app = "interactive" /\ resp[c] = "notReadable"
    /\ Finish(c, "notReadable")
    /\ UNCHANGED db

Commit(c) ==
    /\ pc[c] = "commit"
    /\ ~(req[c].app = "interactive" /\ resp[c] = "notReadable")
    /\ CanCommit(c)
    /\ db' = Merged(c)
    /\ IF req[c].op = "updateMany" /\ req[c].returning /\ req[c].app = "plain"
       THEN /\ Goto(c, "readAfter")
            /\ picked' = [picked EXCEPT ![c] = WrittenIds(c)]
            /\ snap' = [snap EXCEPT ![c] = NoRows]
            /\ wr' = [wr EXCEPT ![c] = AllClean]
            /\ UNCHANGED <<req, checks, todo, resp>>
       ELSE \E a \in {IF resp[c] = "none" THEN "ok" ELSE resp[c], "dbError"} :
               Finish(c, a)

\* A native statement outside a transaction commits by itself.
Direct(c) ==
    /\ pc[c] = "direct"
    /\ \E w \in NativeWrites(req[c], db, Ids) :
          /\ \A i \in DOMAIN w, d \in Clients \ {c} : wr[d][i] = Clean
          /\ db' = [i \in Ids |-> IF i \in DOMAIN w THEN w[i] ELSE db[i]]
          /\ IF req[c].returning
             THEN /\ Goto(c, "readAfter")
                  /\ picked' = [picked EXCEPT ![c] = DOMAIN w]
                  /\ UNCHANGED <<req, snap, wr, checks, todo, resp>>
             ELSE \E a \in {"ok", "dbError"} : Finish(c, a)

\* AndReturn variants read their result when the writes are committed.
ReadAfter(c) ==
    /\ pc[c] = "readAfter"
    /\ Finish(c, ReadResult(req[c], picked[c], db))
    /\ UNCHANGED db

\* The database fails the statement or the transaction: a constraint, a row
\* that is gone, a conflict, a deadlock, transactionTimeout, a lost connection.
Abort(c) ==
    /\ pc[c] \in Stages \cup {"direct", "readAfter"}
    /\ Finish(c, "dbError")
    /\ UNCHANGED db

-----------------------------------------------------------------------------
Init ==
    /\ db \in InitialStates
    /\ pc = [c \in Clients |-> "idle"]
    /\ req = [c \in Clients |-> NoReq]
    /\ snap = [c \in Clients |-> NoRows]
    /\ wr = [c \in Clients |-> AllClean]
    /\ checks = [c \in Clients |-> {}]
    /\ todo = [c \in Clients |-> {}]
    /\ picked = [c \in Clients |-> {}]
    /\ resp = [c \in Clients |-> "none"]

\* the handler's steps once the promise is awaited
Step(c) ==
    \/ Prepare(c) \/ Begin(c) \/ Probe(c) \/ Exist(c) \/ CheckPolicy(c)
    \/ ReadPreValue(c) \/ WriteRow(c) \/ Insert(c) \/ ReadFirst(c)
    \/ \E t \in todo[c] : Lookup(c, t[1]) \/ CreateItem(c, t[1])
    \/ FindCandidates(c) \/ Native(c) \/ PostCheck(c) \/ ReadBack(c)
    \/ Rethrow(c) \/ Commit(c) \/ Direct(c) \/ ReadAfter(c) \/ Abort(c)

Next ==
    \E c \in Clients :
        \/ \E r \in Requests : Issue(c, r)
        \/ Step(c)

Spec == Init /\ [][Next]_vars

\* The event loop keeps running a call that was awaited, and the database
\* answers or fails every statement in the end.
FairSpec == Spec /\ \A c \in Clients : WF_vars(Step(c))

-----------------------------------------------------------------------------
(* Properties. *)

Contract == INSTANCE PolicyContract WITH
    call <- req,
    status <- [c \in Clients |->
                 CASE pc[c] = "idle" -> "idle"
                   [] pc[c] = "done" -> "answered"
                   [] pc[c] = "readAfter" -> "applied"
                   [] OTHER -> "called"],
    answer <- [c \in Clients |-> IF pc[c] = "done" THEN resp[c] ELSE "none"]

\* With a serializable database every call behaves as the contract says: it
\* is refused without trace or applies exactly its permitted effect at once,
\* however its statements interleave with those of other clients, and answers
\* with the result only if the user may read it.
ImplementsContract == Contract!Spec

\* A refusal is justified by the rows the call saw: on those rows the policy
\* does not permit what it asked for, and only a missing row is not found.
RefusalJustified ==
    [][\A c \in Clients :
         /\ pc'[c] = "done" /\ pc[c] # "done" /\ resp'[c] = "denied" =>
               LET s == IF pc[c] = "called" THEN db ELSE snap[c]
               IN  ~ \E t \in States : Contract!Permitted(req[c], s, t)
         /\ pc'[c] = "done" /\ pc[c] # "done" /\ resp'[c] = "notFound" =>
               snap[c][req[c].id] = NoRow]_vars

\* Only a call that is not refused changes the committed rows, whatever the
\* isolation level and whatever it wrote before; except that a caller may catch
\* the refusal in a transaction of its own, and commit what was written.
RefusedLeavesNoTrace ==
    [][\A c \in Clients :
         /\ resp'[c] \in Refusals /\ pc[c] # pc'[c]
         /\ req[c].app # "swallow"
         => db' = db]_vars

\* A set operation done by one native statement carries its guard in the
\* statement, so it obeys the policy on the rows it finds at any isolation.
SingleStatementObeysPolicy ==
    [][\A c \in Clients :
         /\ pc[c] = "direct"
         /\ pc'[c] = "readAfter" \/ resp'[c] = "ok"
         => Contract!Permitted(req[c], db, db')]_vars

\* The native update and delete are by identity, their guard was evaluated by
\* an earlier statement.  Under snapshot isolation a policy that looks only
\* at the row itself still holds on the rows the commit replaces, unless the
\* caller owns the transaction and an unreadable result aborts it.
SnapshotObeysRowPolicy ==
    [][\A c \in Clients :
         /\ pc[c] = "commit" /\ pc'[c] # "commit"
         /\ resp'[c] \notin Refusals \cup {"dbError"}
         /\ resp'[c] = "notReadable" => req[c].app # "interactive"
         /\ req[c].isolation = "Snapshot"
         /\ req[c].op \in {"create", "update", "upsert", "delete"}
         => Contract!Permitted(req[c], db, db')]_vars

\* What a transaction creates or updates by identity passes, as committed, the
\* create guard or the post-update rules and the schema, for policies that look
\* only at the row: nothing can slip in between the check and the commit.
WrittenRowsPassChecks ==
    [][\A c \in Clients :
         /\ pc[c] = "commit" /\ pc'[c] # "commit"
         /\ resp[c] \notin Refusals /\ db' # db
         => LET p == Pol(req[c]) IN
           \A i \in WrittenIds(c) :
             /\ req[c].op \in {"create", "createMany"} =>
                   <<i, db'>> \in p.create /\ db'[i] \in p.valid
             /\ req[c].op = "update" /\ DOMAIN req[c].data # {} =>
                   /\ db'[i] \in p.valid
                   /\ \E pre \in Rows \cup {NoRow} : <<i, pre, db'>> \in p.post
         ]_vars

\* handler.ts:720: of an updateMany "entities not passing policy check are
\* silently ignored", here with the entity checkers among the policies.
UpdateManyIgnoresRejected ==
    [][\A c \in Clients :
         /\ pc[c] \in {"direct", "commit"} /\ pc'[c] # pc[c]
         /\ req[c].op = "updateMany"
         => \A i \in Ids : db'[i] # db[i] => i \in Contract!Chosen(req[c], db)]_vars

\* handler.ts:774: "both "post-update" rules and Zod schemas require a
\* post-update check"; so whatever a plain updateMany writes has passed them.
UpdateManyIsPostChecked ==
    [][\A c \in Clients :
         /\ pc[c] = "commit" /\ pc'[c] # "commit"
         /\ req[c].op = "updateMany" /\ req[c].app = "plain"
         => \A i \in WrittenIds(c) :
              db' # db => Contract!PostUpdated(req[c], i, db, db')]_vars

\* Every call that is awaited is answered, although transactions wait for
\* each other's rows.
Answered ==
    \A c \in Clients : pc[c] = "called" ~> pc[c] = "done"

=============================================================================
