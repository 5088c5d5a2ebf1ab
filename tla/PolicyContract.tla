--------------------------- MODULE PolicyContract ---------------------------
(***************************************************************************)
(* What an enhanced client promises: a call is either refused, and then    *)
(* leaves no trace, or takes effect in one step, and then does exactly     *)
(* what its payload says to exactly the rows the policy lets it touch.     *)
(* A result the user may not read is withheld, not rolled back, unless the *)
(* caller owns the transaction and lets the error abort it.                *)
(***************************************************************************)
EXTENDS AccessPolicy

CONSTANTS Clients, Requests, InitialStates, NoReq

VARIABLES
    db,         \* the committed rows
    call,       \* the request each client has in progress
    status,     \* "idle", "called", "applied" or "answered"
    answer      \* what the client was told

vars == <<db, call, status, answer>>

Refusals == {"denied", "notFound"}
Answers == Refusals \cup {"ok", "notReadable", "dbError"}

-----------------------------------------------------------------------------
(* Permitted(r, s, t): policy allows request r to take the database from s *)
(* to t, and t is what r asks for.                                         *)

CreatedRow(p, x, t) ==
    /\ t[x.id] = x.row
    /\ x.row \in p.valid
    /\ <<x.id, t>> \in p.create

CreateOne(r, s, t) ==
    \E x \in r.items :
        /\ s[x.id] = NoRow
        /\ t = [s EXCEPT ![x.id] = x.row]
        /\ x.row \notin Pol(r).inputDeny
        /\ CreatedRow(Pol(r), x, t)

NewIds(r, s) == {x.id : x \in {y \in r.items : s[y.id] = NoRow}}

CreateAll(r, s, t) ==
    /\ \A x \in r.items : x.row \in Pol(r).valid \ Pol(r).inputDeny
    /\ \A i \in Ids \ NewIds(r, s) : t[i] = s[i]
    /\ \A i \in NewIds(r, s) :
          \E x \in r.items : x.id = i /\ CreatedRow(Pol(r), x, t)
    /\ ~r.skipDuplicates =>
          /\ \A x \in r.items : s[x.id] = NoRow
          /\ \A x, y \in r.items : x.id = y.id => x = y

\* the row as updated passes the post-update rules and the schema
PostUpdated(r, i, s, t) ==
    /\ t[i] \in Pol(r).valid
    /\ <<i, IF Pol(r).needsPre THEN s[i] ELSE NoRow, t>> \in Pol(r).post

\* an update that writes no field of the row is not checked
UpdateOne(r, s, t) ==
    /\ s[r.id] # NoRow
    /\ t = [s EXCEPT ![r.id] = Written(s[r.id], r.data)]
    /\ DOMAIN r.data # {} =>
          /\ <<r.id, s>> \in UpdateGuard(Pol(r), DOMAIN r.data)
                              \cap UpdateChecker(Pol(r), DOMAIN r.data)
          /\ PostUpdated(r, r.id, s, t)

\* entities that fail the policy check are silently left alone
Chosen(r, s) ==
    {i \in Updatable(r, s) : <<i, s>> \in UpdateChecker(Pol(r), DOMAIN r.data)}

UpdateAll(r, s, t) ==
    /\ \A i \in Ids \ Chosen(r, s) : t[i] = s[i]
    /\ \A i \in Chosen(r, s) :
          t[i] = Written(s[i], r.data) /\ PostUpdated(r, i, s, t)
    /\ ValidData(Pol(r), r.data)

DeleteOne(r, s, t) ==
    /\ Found(Pol(r).delete \cap Pol(r).deleteChecker, r.id, s)
    /\ t = [s EXCEPT ![r.id] = NoRow]

DeleteAll(r, s, t) ==
    t = [i \in Ids |->
            IF i \in Deletable(r, s) /\ <<i, s>> \in Pol(r).deleteChecker
            THEN NoRow ELSE s[i]]

\* an upsert needs both operations not to be denied outright
Permitted(r, s, t) ==
    CASE r.op = "create" -> CreateOne(r, s, t)
      [] r.op = "createMany" ->
            CreateAll(r, s, t) /\ ~StaticallyDenied(Pol(r), "create")
      [] r.op = "update" -> UpdateOne(r, s, t)
      [] r.op = "updateMany" ->
            UpdateAll(r, s, t) /\ ~StaticallyDenied(Pol(r), "update")
      [] r.op = "upsert" ->
            /\ IF s[r.id] # NoRow THEN UpdateOne(r, s, t) ELSE CreateOne(r, s, t)
            /\ ~StaticallyDenied(Pol(r), "create")
            /\ ~StaticallyDenied(Pol(r), "update")
      [] r.op = "delete" -> DeleteOne(r, s, t)
      [] r.op = "deleteMany" ->
            DeleteAll(r, s, t) /\ ~StaticallyDenied(Pol(r), "delete")

\* The rows a result shows are readable: a deleted row is read before it goes.
Readable(r, s, t) ==
    CASE r.op \in {"create", "createMany"} ->
            \A i \in NewIds(r, s) : <<i, t>> \in Pol(r).read
      [] r.op = "update" -> <<r.id, t>> \in Pol(r).read
      [] r.op = "upsert" ->
            IF s[r.id] # NoRow
            THEN <<r.id, t>> \in Pol(r).read
            ELSE \A x \in r.items : <<x.id, t>> \in Pol(r).read
      [] r.op = "updateMany" ->
            \A i \in Chosen(r, s) : <<i, t>> \in Pol(r).read
      [] r.op = "delete" -> <<r.id, s>> \in Pol(r).read
      [] r.op = "deleteMany" -> TRUE

ShowsResult(r) ==
    r.op \in {"create", "update", "upsert", "delete"} \/ r.returning

-----------------------------------------------------------------------------
Init ==
    /\ db \in InitialStates
    /\ call = [c \in Clients |-> NoReq]
    /\ status = [c \in Clients |-> "idle"]
    /\ answer = [c \in Clients |-> "none"]

Call(c, r) ==
    /\ status[c] = "idle"
    /\ call' = [call EXCEPT ![c] = r]
    /\ status' = [status EXCEPT ![c] = "called"]
    /\ UNCHANGED <<db, answer>>

\* The database may fail any call; only a caller that owns the transaction
\* loses its writes to an unreadable result.
Refuse(c) ==
    /\ status[c] = "called"
    /\ answer' \in {[answer EXCEPT ![c] = a] :
                        a \in Refusals \cup {"dbError"}
                              \cup IF call[c].app = "interactive"
                                   THEN {"notReadable"} ELSE {}}
    /\ status' = [status EXCEPT ![c] = "answered"]
    /\ UNCHANGED <<db, call>>

\* The answer is given with the effect, or later when the result of a set
\* operation is read after the commit.  A lost acknowledgement is a dbError.
Apply(c) ==
    /\ status[c] = "called"
    /\ Permitted(call[c], db, db')
    /\ \/ /\ status' = [status EXCEPT ![c] = "answered"]
          /\ \/ /\ ShowsResult(call[c]) => Readable(call[c], db, db')
                /\ answer' = [answer EXCEPT ![c] = "ok"]
             \/ /\ ShowsResult(call[c]) /\ ~Readable(call[c], db, db')
                /\ answer' = [answer EXCEPT ![c] = "notReadable"]
             \/ answer' = [answer EXCEPT ![c] = "dbError"]
       \/ /\ call[c].returning
          /\ status' = [status EXCEPT ![c] = "applied"]
          /\ UNCHANGED answer
    /\ UNCHANGED call

Conclude(c) ==
    /\ status[c] = "applied"
    /\ answer' \in {[answer EXCEPT ![c] = a] :
                        a \in {"ok", "notReadable", "dbError"}}
    /\ status' = [status EXCEPT ![c] = "answered"]
    /\ UNCHANGED <<db, call>>

Next ==
    \E c \in Clients :
        \/ \E r \in Requests : Call(c, r)
        \/ Refuse(c) \/ Apply(c) \/ Conclude(c)

Spec == Init /\ [][Next]_vars

=============================================================================
