------------------------------- MODULE RestApi -------------------------------
(***************************************************************************)
(* The web API over an enhanced client: the JSON:API handler               *)
(* (server/src/api/rest/index.ts) and the RPC handler                      *)
(* (server/src/api/rpc/index.ts).  Clients send writes, and repeat them    *)
(* when an answer was lost; a deployment changes the encryption keys; and  *)
(* one client walks the posts of a user along the links it is answered.    *)
(***************************************************************************)
EXTENDS Enhancements, Paging

CONSTANTS
    Requests,       \* what clients send besides the walk
    Seeds,          \* the rows at the start: [id, owner, text]
    FirstKey,
    Walker,         \* the user that walks its own posts,
    Wanted,         \* and the ids its filter asks for
    \* Bounds: requests and deployments, and requests before a walk starts
    MaxRequests, MaxDeploys, MaxBefore

\* The database's unique constraint holds at the start, and who sends a request
\* is somebody or nobody; whom and what it names may be unknown.
ASSUME SeedTypes ==
    /\ DOMAIN Seeds = 1..Len(Seeds) /\ Len(Seeds) \in Nat /\ FirstKey \in Keys
    /\ \A i \in DOMAIN Seeds : Seeds[i].owner \in Users \cup {Nobody}
    /\ \A i, j \in DOMAIN Seeds : Seeds[i].id = Seeds[j].id => i = j

ASSUME RequestTypes ==
    \A q \in Requests :
        /\ q = [by |-> q.by, api |-> q.api, verb |-> q.verb, path |-> q.path, id |-> q.id,
                ids |-> q.ids, user |-> q.user, owner |-> q.owner, text |-> q.text]
        /\ q.by \in Users \cup {Nobody} /\ q.api \in {"rest", "rpc"}

VARIABLES
    posts,
    config,         \* what is deployed: the keys, and whether encryption works
    answer,         \* the latest answered request and its status
    handled,        \* requests answered so far
    walk

vars == <<posts, config, answer, handled, walk>>

-----------------------------------------------------------------------------
(* Routes.  A request is [by, api, verb, path, id, ids, user, owner, text];  *)
(* "upsert" stands for the collection with upsert meta, "owner" and "posts"  *)
(* for the relationships of a post and of a user.                            *)

\* a wrong path, a verb the path does not know, or a to-one relationship that
\* is not updated
NoOperation == "none"

RestOperation(verb, path) ==
    LET puts == verb \in {"PATCH", "PUT"}
    IN CASE path = "collection" /\ verb = "POST" -> "create"
         [] path = "upsert" /\ verb = "POST" -> "upsert"
         [] path = "single" /\ verb = "GET" -> "findUnique"
         [] path = "single" /\ puts -> "update"
         [] path = "single" /\ verb = "DELETE" -> "delete"
         [] path = "owner" /\ puts -> "give"
         [] path = "posts" /\ verb = "POST" -> "connect"
         [] path = "posts" /\ verb = "DELETE" -> "disconnect"
         [] path = "posts" /\ puts -> "set"
         [] OTHER -> NoOperation

RpcMethods ==
    [create |-> {"POST"}, upsert |-> {"POST"}, findUnique |-> {"GET"},
     update |-> {"PUT", "PATCH"}, updateMany |-> {"PUT", "PATCH"},
     delete |-> {"DELETE"}, deleteMany |-> {"DELETE"}]

Operation(q) ==
    IF q.api = "rest" THEN RestOperation(q.verb, q.path)
    ELSE IF q.path \in DOMAIN RpcMethods /\ q.verb \in RpcMethods[q.path] THEN q.path
    ELSE NoOperation

-----------------------------------------------------------------------------
(* Resource ids.  The parts of a compound id are joined by the divider,    *)
(* which they may hold themselves; a URL's id is split at each.  A part is *)
(* a sequence of what lies between dividers.                               *)

Join(id) == id[1] \o id[2]

Address(text) == <<<<text[1]>>, <<text[2]>>>>

\* An RPC call gives the parts by name, and so do the attributes of a payload.
Addressed(q) ==
    IF q.api = "rpc" \/ Operation(q) \in {"create", "upsert"} THEN q
    ELSE [q EXCEPT !.id = Address(Join(@)), !.ids = {Address(Join(id)) : id \in @}]

-----------------------------------------------------------------------------
(* Handling a request *)

\* processRequestBody validates the attributes before anything else; the
\* relationships of a payload must not be null, and that of an owner has data.
BadBody(q) ==
    /\ q.api = "rest"
    /\ \/ Operation(q) \in {"create", "upsert", "update"}
          /\ (~Valid(Plain(q.text)) \/ q.owner = Nobody)
       \/ Operation(q) = "give" /\ q.owner = Absent

Result(q) ==
    IF Operation(q) = NoOperation THEN Refuse(posts, "refused")
    ELSE IF BadBody(q)
         THEN Refuse(posts, IF Operation(q) = "give" \/ Valid(Plain(q.text)) THEN "refused"
                            ELSE "invalid")
    ELSE Perform(posts, config, Operation(q), Addressed(q))

\* handlePrismaError, ERROR_STATUS_MAPPING.  An upsert answers 201 also when
\* it updated; an RPC read of nothing answers null.
Status(q, outcome) ==
    IF outcome \in {"done", "created"}
    THEN IF Operation(q) \in {"create", "upsert"} THEN 201 ELSE 200
    ELSE IF outcome = "notFound"
    THEN IF q.api = "rpc" /\ Operation(q) = "findUnique" THEN 200 ELSE 404
    ELSE IF outcome \in {"denied", "unreadable"} THEN 403
    ELSE IF outcome = "invalid" THEN 422
    ELSE 400

\* the walker's posts that pass the filter, and those that do not
Listed(table) ==
    LET found == Picked(table, {i \in DOMAIN table : /\ table[i].owner = Walker
                                                     /\ table[i].id \in Wanted})
    IN [i \in DOMAIN found |-> found[i].id]

Unlisted(table) ==
    Cardinality({i \in DOMAIN table : table[i].owner = Walker /\ table[i].id \notin Wanted})

Handle(q) ==
    /\ handled < MaxRequests
    /\ LET result == Result(q)
       IN /\ posts' = result.posts
          /\ answer' = [req |-> q, status |-> Status(q, result.outcome)]
    /\ handled' = handled + 1
    /\ walk' = Disturbed(walk, Listed(posts), Listed(posts'),
                         Unlisted(posts') < Unlisted(posts))
    /\ UNCHANGED config

-----------------------------------------------------------------------------
(* Deployments.  The decrypter knows the encryption key and those that the *)
(* options list besides; `kept` says that no key was ever dropped.  As a   *)
(* walk reads no secrets, no deployment is taken beside one.               *)

Redeploy ==
    /\ walk = Idle /\ config.deploys < MaxDeploys
    /\ \E seal \in Keys, old \in SUBSET Keys, healthy \in BOOLEAN :
           config' = [seal |-> seal, open |-> {seal} \cup old, healthy |-> healthy,
                      deploys |-> config.deploys + 1,
                      kept |-> config.kept /\ config.open \subseteq {seal} \cup old]
    /\ UNCHANGED <<posts, answer, handled, walk>>

-----------------------------------------------------------------------------
(* The walk *)

Start ==
    /\ walk.stage \in {"idle", "over"}
    /\ handled <= MaxBefore /\ config.deploys = 0
    /\ \/ \E q \in Queries : walk' = Ask(q, Listed(posts))
       \/ \E related \in BOOLEAN : walk' = AskPlainly(related, Listed(posts))
    /\ UNCHANGED <<posts, config, answer, handled>>

\* processCollectionRead
FindMany ==
    /\ walk.stage = "asked" /\ ~walk.related /\ walk.page = NotYet
    /\ walk' = FoundPage(walk, Listed(posts))
    /\ UNCHANGED <<posts, config, answer, handled>>

\* Faulty: the count forgets the filter.
CountAll ==
    /\ walk.stage = "asked" /\ ~walk.related /\ walk.total = NotYet
    /\ walk' = Counted(walk, Len(Listed(posts)) + Unlisted(posts))
    /\ UNCHANGED <<posts, config, answer, handled>>

Count ==
    /\ walk.stage = "asked" /\ ~walk.related /\ walk.total = NotYet
    /\ walk' = Counted(walk, Len(Listed(posts)))
    /\ UNCHANGED <<posts, config, answer, handled>>

\* processFetchRelated, processReadRelationship: `_count` is without the filter.
FindRelated ==
    /\ walk.stage = "asked" /\ walk.related /\ walk.page = NotYet
    /\ walk' = Counted(FoundPage(walk, Listed(posts)),
                       Len(Listed(posts)) + Unlisted(posts))
    /\ UNCHANGED <<posts, config, answer, handled>>

FollowNext ==
    /\ Answered(walk) /\ MayGoOn(walk)
    /\ walk' = GoOn(walk)
    /\ UNCHANGED <<posts, config, answer, handled>>

FollowLast ==
    /\ Answered(walk) /\ ~walk.back /\ walk.offset = 0
    /\ walk' = LastPage(walk)
    /\ UNCHANGED <<posts, config, answer, handled>>

End ==
    /\ Answered(walk) /\ ~MayGoOn(walk)
    /\ walk' = Over(walk)
    /\ UNCHANGED <<posts, config, answer, handled>>

-----------------------------------------------------------------------------
NoAnswer == [req |-> <<>>, status |-> 0]

Init ==
    /\ config = [seal |-> FirstKey, open |-> {FirstKey}, healthy |-> TRUE,
                 deploys |-> 0, kept |-> TRUE]
    /\ posts = [i \in DOMAIN Seeds |->
                    Row(Seeds[i].id, Seeds[i].owner, Stored(config, Seeds[i].text))]
    /\ answer = NoAnswer /\ handled = 0
    /\ walk = Idle

Next ==
    \/ \E q \in Requests : Handle(q)
    \/ Redeploy
    \/ Start \/ FindMany \/ Count \/ FindRelated
    \/ FollowNext \/ FollowLast \/ End

\* The database answers, and the walking client goes on until its walk ends.
Fairness ==
    /\ WF_vars(FindMany) /\ WF_vars(Count) /\ WF_vars(FindRelated)
    /\ WF_vars(FollowNext \/ FollowLast) /\ WF_vars(End)

Spec == Init /\ [][Next]_vars /\ Fairness

-----------------------------------------------------------------------------
(* Properties. *)

Ids == {Seeds[i].id : i \in DOMAIN Seeds} \cup {q.id : q \in Requests}

Texts == {Seeds[i].text : i \in DOMAIN Seeds} \cup {q.text : q \in Requests}

Values == [text : Texts, coat : Keys \cup {"none", "hash"}]

Posts == [id : Ids, owner : Users \cup {Nobody}, secret : Values, pass : Values]

Tables == {table \in Seq(Posts) :
            \A i, j \in DOMAIN table : table[i].id = table[j].id => i = j}

Configs == [seal : Keys, open : SUBSET Keys, healthy : BOOLEAN, deploys : Nat, kept : BOOLEAN]

Answers == [req : Requests, status : {200, 201, 400, 403, 404, 422}]

\* Rows and answers are of their types, and an id is that of one row only
\* (doCreate relies on the database's unique constraint).
TypeOK ==
    /\ posts \in Tables
    /\ config \in Configs /\ config.seal \in config.open
    /\ answer \in Answers \cup {NoAnswer}
    /\ handled \in Nat

\* As long as no deployment drops a key, a secret reads as the text it was given,
\* under which key it was sealed, or whether it was sealed at all (doPostProcess
\* of encryption.ts keeps what it cannot decrypt, updateMany stores plain texts).
ReadsShowWhatWasGiven ==
    config.kept => \A i \in DOMAIN posts : Open(config, posts[i].secret).coat = "none"

\* A request leaves no new secret or password in clear, whichever layer rewrote its
\* payload on the way: the encryption and password layers lie under the policy
\* layer that converts an upsert to a create or an update.  Exempt are what updateMany
\* is given, an empty text, and what was written while encryption failed.
SecretsAreSealed ==
    [][config.healthy /\ handled' # handled /\ Operation(answer'.req) # "updateMany" =>
        \A i \in DOMAIN posts' :
            \/ \E j \in DOMAIN posts : /\ posts[j].secret = posts'[i].secret
                                       /\ posts[j].pass = posts'[i].pass
                                       /\ posts[j].id = posts'[i].id
            \/ /\ posts'[i].secret.coat = config.seal \/ posts'[i].secret.text = Empty
               /\ posts'[i].pass.coat = "hash"]_vars

\* What the rows mean to a client, and what a request asks of this meaning.
Meaning(table, c) ==
    {[id |-> table[i].id, owner |-> table[i].owner, secret |-> Open(c, table[i].secret)] :
        i \in DOMAIN table}

Owned(x, owner) == [x EXCEPT !.owner = owner]

AskedFor(q, id, owner) ==
    [id |-> id, owner |-> IF q.owner = Absent THEN owner ELSE q.owner,
     secret |-> Plain(q.text)]

Others(rows, id) == {x \in rows : x.id # id}

Added(rows, q) == rows \cup {AskedFor(q, q.id, q.by)}

Edited(rows, q) ==
    LET others == Others(rows, q.id)
    IN others \cup {AskedFor(q, x.id, x.owner) : x \in rows \ others}

Intended(rows, q) ==
    LET op == Operation(q)
        others == Others(rows, q.id)
        listed == {x \in rows : x.id \in q.ids}
        had == {x \in rows : x.owner = q.user}
    IN CASE op = "create" -> Added(rows, q)
         [] op = "upsert" -> IF rows = others THEN Added(rows, q) ELSE Edited(rows, q)
         [] op = "update" -> Edited(rows, q)
         [] op = "updateMany" -> {IF x.owner = q.by /\ q.by # Nobody
                                  THEN [x EXCEPT !.secret = Plain(q.text)] ELSE x : x \in rows}
         [] op = "delete" -> others
         [] op = "deleteMany" -> {x \in rows : x.owner # q.by \/ q.by = Nobody}
         [] op = "give" -> others \cup {Owned(x, q.owner) : x \in rows \ others}
         [] op = "connect" -> (rows \ listed) \cup {Owned(x, q.user) : x \in listed}
         [] op = "disconnect" -> (rows \ (listed \cap had))
                                 \cup {Owned(x, Nobody) : x \in listed \cap had}
         [] op = "set" -> (rows \ (listed \cup had)) \cup {Owned(x, q.user) : x \in listed}
                          \cup {Owned(x, Nobody) : x \in had \ listed}
         [] OTHER -> rows

Succeeded(status) == status < 300

\* An answer tells what became of the request (handlePrismaError, ERROR_STATUS_MAPPING,
\* and the transactions around each call): after a success the rows mean what was asked and
\* after any other answer nothing has changed, but for a result that the caller may not
\* read: then the change is made and the answer is 403.  A URL that addresses another id
\* than its own, for the divider that it holds, is left out.
AnswersTellTheOutcome ==
    [][handled' # handled =>
        LET q == answer'.req
            rows == Meaning(posts, config)
            after == Meaning(posts', config)
            unreadable == /\ answer'.status = 403 /\ after = Intended(rows, q)
                          /\ \E i \in Find(posts', q.id) : ~MayRead(q.by, posts'[i])
        IN Addressed(q) = q =>
            IF Succeeded(answer'.status) THEN after = Intended(rows, q)
            ELSE posts' = posts \/ unreadable]_vars

\* A client whose answer was lost may send its request again: after a success the same
\* request changes no meaning, whichever API it takes.
RetriesChangeNothing ==
    [][handled' # handled /\ answer'.req = answer.req /\ Succeeded(answer.status)
       /\ config.kept
        => /\ Meaning(posts', config) = Meaning(posts, config)
           /\ Len(posts') = Len(posts)]_vars

\* The handlers page as PagedWalk promises, for the list of the walker's posts, whatever
\* the requests do to it meanwhile.
P == INSTANCE PagedWalk WITH
        Item <- Ids, list <- Listed(posts), others <- Unlisted(posts)

ImplementsPagedWalk == P!Spec

\* A walk that ends without the rows having changed but at the list's end has met every
\* row it started from, and none twice (makePaginator, getPagination).
WalksAreComplete == P!WalksAreComplete

\* The links of makePaginator lead to an end, whatever limit was asked for.
WalksEnd == walk.stage = "asked" ~> walk.stage = "over"
=============================================================================
