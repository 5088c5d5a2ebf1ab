---------------------------- MODULE Enhancements ----------------------------
(***************************************************************************)
(* What one call of an enhanced client does to the rows: the layers that   *)
(* createEnhancement stacks (default-auth over policy over encryption over *)
(* password), each call in one transaction.  The schema:                   *)
(*                                                                         *)
(*   model User { id @id; posts Post[]; @@allow('read', true) }            *)
(*   model Post { a; b; @@id([a, b]);  owner User? (default auth())        *)
(*                secret @encrypted @length(max);  pass @password @omit    *)
(*                @@allow('create,update,delete', owner == auth())         *)
(*                @@allow('read', owner == auth() || owner == null) }      *)
(*                                                                         *)
(* A row is [id, owner, secret, pass]; a table is a sequence of rows in    *)
(* the database's order.                                                   *)
(***************************************************************************)
EXTENDS Integers, Sequences, FiniteSets

CONSTANTS
    Users,      \* the users' rows
    Nobody,     \* null: no user, no owner
    Absent,     \* a relation the payload does not mention
    Keys,       \* encryption keys
    Empty,      \* the empty text
    TooLong     \* texts that break @length

ASSUME Distinct ==
    Nobody \notin Users /\ Absent \notin Users \cup {Nobody} /\ {"none", "hash"} \cap Keys = {}

-----------------------------------------------------------------------------
(* encryption.ts, encryption/, password.ts *)

Plain(t) == [text |-> t, coat |-> "none"]

Hash(v) == [v EXCEPT !.coat = "hash"]

\* An empty text is kept as it is, and so is one whose encryption fails: the
\* handler builds the error and does not throw it.
Seal(config, v) ==
    IF v.text = Empty \/ ~config.healthy THEN v ELSE [v EXCEPT !.coat = config.seal]

\* Faulty: the decrypter knows the current key only.
OpenByCurrentKey(config, v) == IF v.coat = config.seal THEN Plain(v.text) ELSE v

\* A text that no key opens is handed out as it is stored.
Open(config, v) == IF v.coat \in config.open THEN Plain(v.text) ELSE v

\* Faulty: the payload is not visited.
AsGiven(config, t) == [secret |-> Plain(t), pass |-> Plain(t)]

\* The payload of create, update and upsert is visited, that of updateMany is
\* not: NestedWriteVisitor looks for fields beside `where` and `data`.
Stored(config, t) == [secret |-> Seal(config, Plain(t)), pass |-> Hash(Plain(t))]

-----------------------------------------------------------------------------
(* The policy of Post, and its validation *)

MayWrite(user, row) == user # Nobody /\ row.owner = user

MayRead(user, row) == row.owner = Nobody \/ MayWrite(user, row)

\* A cipher text is longer than any @length allows.
Valid(v) == v.coat = "none" /\ v.text \notin TooLong

\* the validation after an update, of the row as it is read
ReadsValid(config, row) == Valid(Open(config, row.secret))

-----------------------------------------------------------------------------
(* The calls.  The result is the table and the outcome; only "done",       *)
(* "created" and "unreadable" leave a changed table.                       *)

Find(posts, id) == {i \in DOMAIN posts : posts[i].id = id}

Exists(posts, id) == Find(posts, id) # {}

At(posts, id) == CHOOSE i \in Find(posts, id) : TRUE

\* The rows at the places given, in their order.  (Written without recursion,
\* which the theorems about the tables could not see through.)
Picked(posts, places) ==
    LET rank(k) == Cardinality({i \in places : i <= k})
    IN [n \in 1..Cardinality(places) |-> posts[CHOOSE k \in places : rank(k) = n]]

Row(id, owner, stored) ==
    [id |-> id, owner |-> owner, secret |-> stored.secret, pass |-> stored.pass]

Refuse(posts, outcome) == [posts |-> posts, outcome |-> outcome]

Known(owner) == owner \in Users \cup {Nobody, Absent}

\* readBack: a caller that may not read its own result gets an error, after
\* the transaction was committed.
ReadBack(posts, by, row, outcome) ==
    [posts |-> posts, outcome |-> IF MayRead(by, row) THEN outcome ELSE "unreadable"]

\* Faulty: the insertion does not mind a row of the same id.
InsertTwice(posts, config, by, id, owner, text) ==
    LET row == Row(id, owner, Stored(config, text))
    IN IF ~Valid(Plain(text)) THEN Refuse(posts, "invalid")
       ELSE IF ~Known(owner) THEN Refuse(posts, "notFound")
       ELSE IF ~MayWrite(by, row) THEN Refuse(posts, "denied")
       ELSE ReadBack(Append(posts, row), by, row, "created")

\* create of the policy handler: the owner is a foreign key, so that the rule
\* is checked on the row created.
Insert(posts, config, by, id, owner, text) ==
    LET row == Row(id, owner, Stored(config, text))
    IN IF ~Valid(Plain(text)) THEN Refuse(posts, "invalid")
       ELSE IF ~Known(owner) THEN Refuse(posts, "notFound")
       ELSE IF Exists(posts, id) THEN Refuse(posts, "conflict")
       ELSE IF ~MayWrite(by, row) THEN Refuse(posts, "denied")
       ELSE ReadBack(Append(posts, row), by, row, "created")

\* @default(auth()) needs a user, in the create payload of an upsert too.
WithDefaultAuth(by, owner) == IF owner = Absent THEN by ELSE owner

Undefaulted(q) == q.owner = Absent /\ q.by = Nobody

Create(posts, config, q) ==
    IF Undefaulted(q) THEN Refuse(posts, "refused")
    ELSE Insert(posts, config, q.by, q.id, WithDefaultAuth(q.by, q.owner), q.text)

\* Faulty: the validation after the update does not undo it.
RewriteForGood(posts, config, by, i, row) ==
    LET after == [posts EXCEPT ![i] = row]
    IN IF ~MayWrite(by, posts[i]) THEN Refuse(posts, "denied")
       ELSE IF ~Known(row.owner) THEN Refuse(posts, "notFound")
       ELSE IF ~ReadsValid(config, row) THEN Refuse(after, "invalid")
       ELSE ReadBack(after, by, row, "done")

\* the update of the i-th row to `row`, once its payload is validated
Rewrite(posts, config, by, i, row) ==
    IF ~MayWrite(by, posts[i]) THEN Refuse(posts, "denied")
    ELSE IF ~Known(row.owner) THEN Refuse(posts, "notFound")
    ELSE IF ~ReadsValid(config, row) THEN Refuse(posts, "invalid")
    ELSE ReadBack([posts EXCEPT ![i] = row], by, row, "done")

OwnerGiven(q, row) == IF q.owner = Absent THEN row.owner ELSE q.owner

Update(posts, config, q) ==
    LET i == At(posts, q.id)
    IN IF ~Exists(posts, q.id) THEN Refuse(posts, "notFound")
       ELSE IF ~Valid(Plain(q.text)) THEN Refuse(posts, "invalid")
       ELSE Rewrite(posts, config, q.by, i,
                    Row(q.id, OwnerGiven(q, posts[i]), Stored(config, q.text)))

\* post.update with a `connect` or `disconnect` of its owner
Give(posts, config, q) ==
    LET i == At(posts, q.id)
    IN IF ~Exists(posts, q.id) THEN Refuse(posts, "notFound")
       ELSE Rewrite(posts, config, q.by, i, [posts[i] EXCEPT !.owner = q.owner])

Upsert(posts, config, q) ==
    IF Undefaulted(q) THEN Refuse(posts, "refused")
    ELSE IF Exists(posts, q.id) THEN Update(posts, config, q)
    ELSE Insert(posts, config, q.by, q.id, WithDefaultAuth(q.by, q.owner), q.text)

\* The values reach the database as they are given.
UpdateMany(posts, config, q) ==
    IF ~Valid(Plain(q.text)) THEN Refuse(posts, "invalid")
    ELSE [posts |-> [i \in DOMAIN posts |->
                        IF MayWrite(q.by, posts[i])
                        THEN [posts[i] EXCEPT !.secret = Plain(q.text), !.pass = Plain(q.text)]
                        ELSE posts[i]],
          outcome |-> "done"]

Delete(posts, q) ==
    LET i == At(posts, q.id)
    IN IF ~Exists(posts, q.id) THEN Refuse(posts, "notFound")
       ELSE IF ~MayWrite(q.by, posts[i]) THEN Refuse(posts, "denied")
       ELSE [posts |-> Picked(posts, DOMAIN posts \ {i}), outcome |-> "done"]

DeleteMany(posts, q) ==
    [posts |-> Picked(posts, {i \in DOMAIN posts : ~MayWrite(q.by, posts[i])}),
     outcome |-> "done"]

FindUnique(posts, q) ==
    Refuse(posts, IF \E i \in Find(posts, q.id) : MayRead(q.by, posts[i])
                  THEN "done" ELSE "notFound")

\* user.update with `connect`, `disconnect` or `set` of posts: each post that
\* is listed, and for `disconnect` is the user's, is updated by its own rule;
\* the posts that `set` replaces are not checked.
Relate(posts, config, q, verb) ==
    LET mine(id) == \E i \in Find(posts, id) : posts[i].owner = q.user
        touched == {id \in q.ids : verb # "disconnect" \/ mine(id)}
        after == [i \in DOMAIN posts |->
                    [posts[i] EXCEPT !.owner =
                        IF verb # "disconnect" /\ posts[i].id \in touched THEN q.user
                        ELSE IF verb = "set" /\ @ = q.user THEN Nobody
                        ELSE IF verb = "disconnect" /\ posts[i].id \in touched THEN Nobody
                        ELSE @]]
    IN IF q.user \notin Users THEN Refuse(posts, "notFound")
       ELSE IF \E id \in touched : ~\E i \in Find(posts, id) : MayWrite(q.by, posts[i])
       THEN Refuse(posts, "denied")
       ELSE IF \E i \in DOMAIN posts : posts[i].id \in touched /\ ~ReadsValid(config, posts[i])
       THEN Refuse(posts, "invalid")
       ELSE [posts |-> after, outcome |-> "done"]

Perform(posts, config, op, q) ==
    CASE op = "create" -> Create(posts, config, q)
      [] op = "upsert" -> Upsert(posts, config, q)
      [] op = "update" -> Update(posts, config, q)
      [] op = "updateMany" -> UpdateMany(posts, config, q)
      [] op = "delete" -> Delete(posts, q)
      [] op = "deleteMany" -> DeleteMany(posts, q)
      [] op = "findUnique" -> FindUnique(posts, q)
      [] op = "give" -> Give(posts, config, q)
      [] op \in {"connect", "disconnect", "set"} -> Relate(posts, config, q, op)
=============================================================================
