------------------------------ MODULE MCRestApi ------------------------------
(***************************************************************************)
(* Two users, two keys, three ids of two parts and a fourth whose first    *)
(* part holds the divider, so that its address is another post's.          *)
(***************************************************************************)
EXTENDS RestApi

none == "nobody"
absent == "absent"

First == <<<<"a">>, <<"a">>>>
Second == <<<<"a">>, <<"b">>>>
Third == <<<<"b">>, <<"a">>>>
Divided == <<<<"a", "b">>, <<"a">>>>

MCUsers == {"ann", "bob"}
MCKeys == {"k1", "k2"}
MCWanted == {First, Second, Divided}
MCTooLong == {"long"}

\* Ann walks along two posts of hers, while a third fails her filter.
MCSeeds == <<[id |-> First, owner |-> "ann", text |-> "x"],
             [id |-> Third, owner |-> "ann", text |-> "x"],
             [id |-> Second, owner |-> "ann", text |-> "x"]>>

MCQueries == {[limit |-> 0, sorted |-> FALSE, related |-> TRUE],
              [limit |-> 1, sorted |-> FALSE, related |-> FALSE],
              [limit |-> 1, sorted |-> TRUE, related |-> TRUE],
              [limit |-> -1, sorted |-> TRUE, related |-> FALSE]}

Request(by, api, verb, path) ==
    [by |-> by, api |-> api, verb |-> verb, path |-> path, id |-> First, ids |-> {},
     user |-> "ann", owner |-> absent, text |-> "x"]

Of(q, id, owner, text) == [q EXCEPT !.id = id, !.owner = owner, !.text = text]

Listing(q, user, ids) == [q EXCEPT !.user = user, !.ids = ids]

MCRequests ==
    LET ann(verb, path) == Request("ann", "rest", verb, path)
        bob(verb, path) == Request("bob", "rest", verb, path)
        rpc(verb, path) == Request("ann", "rpc", verb, path)
    IN \* REST: a post
       {Of(ann("POST", "collection"), Divided, o, t) : o \in {absent, "bob"}, t \in {"", "long"}}
       \cup {Request(none, "rest", "POST", "collection"), bob("POST", "collection")}
       \cup {Of(bob("POST", "upsert"), Divided, "bob", "x"), Of(ann("POST", "upsert"), First, none, "x"),
             Of(ann("POST", "upsert"), Second, "bob", ""), Of(ann("POST", "upsert"), Divided, "gone", "x")}
       \cup {Of(ann("PATCH", "single"), id, absent, "") : id \in {First, Divided}}
       \cup {Of(bob("PUT", "single"), First, absent, "x"), Of(bob("GET", "single"), Second, absent, "x"),
             ann("GET", "single"), ann("PUT", "collection")}
       \cup {Of(q, First, absent, "x") : q \in {ann("DELETE", "single"), bob("DELETE", "single")}}
       \* its owner, and the posts of a user
       \cup {Of(ann("PATCH", "owner"), First, o, "x") : o \in {none, "bob", "gone"}}
       \cup {ann("DELETE", "owner")}
       \cup {Listing(ann(verb, "posts"), "bob", {Second}) : verb \in {"POST", "DELETE"}}
       \cup {Listing(ann("DELETE", "posts"), "ann", {Second, Third}),
             Listing(ann("PATCH", "posts"), "ann", {First, Third}),
             Listing(bob("PUT", "posts"), "ann", {Second}),
             Listing(ann("POST", "posts"), "gone", {})}
       \* RPC
       \cup {Of(rpc("POST", "create"), Divided, absent, "x"), Of(rpc("PUT", "update"), First, absent, "long"),
             Of(rpc("PATCH", "updateMany"), First, absent, ""), Of(rpc("PUT", "updateMany"), First, absent, "long"),
             rpc("DELETE", "delete"), rpc("DELETE", "deleteMany"), rpc("GET", "deleteMany"),
             Of(rpc("GET", "findUnique"), Divided, absent, "x"), Request("bob", "rpc", "POST", "upsert")}
=============================================================================
