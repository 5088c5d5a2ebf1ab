--------------------------- MODULE MCQueryHooks ---------------------------
(***************************************************************************)
(* Instances of QueryHooks: users and their posts, the schema of the tests *)
(* of the hooks, where a post is deleted with its user.                    *)
(***************************************************************************)
EXTENDS QueryHooks

CONSTANTS User, Post, posts, users

MCModels == {User, Post}
MCForeignKeys ==
    {[owner |-> Post, of |-> User, onDelete |-> "Cascade", onUpdate |-> "Cascade", inKey |-> FALSE]}
MCBaseTypes == [m \in MCModels |-> {}]

\* useFindManyPost() and useFindManyUser({ include: { posts: true } })
MCQuery ==
    [q \in Queries |->
        [model |-> IF q = posts THEN Post ELSE User,
         reads |-> IF q = posts THEN {} ELSE {Post},
         filters |-> {}, find |-> TRUE, optIn |-> TRUE]]

NoProvider == [q \in Queries |-> "ProceedDefault"]

CallOf(model, operation, args, optimistic) ==
    [model |-> model, operation |-> operation, args |-> args, nested |-> {},
     rekeyed |-> {},
     invalidateQueries |-> TRUE, optimisticUpdate |-> optimistic, provider |-> NoProvider]

\* An optimistic update, one whose provider computes the result, and a plain
\* hook: a delete that reaches posts by its cascade only.
UpdatePost == CallOf(Post, "update", "full", TRUE)
ProvidedPost == [UpdatePost EXCEPT !.provider = [q \in Queries |-> "Update"]]
DeleteUser == CallOf(User, "delete", "full", FALSE)
CoveredCalls == {UpdatePost, ProvidedPost, DeleteUser}

\* useDeleteManyUser().mutate({}): everything goes.
DeleteAllCalls == {CallOf(User, "deleteMany", "empty", FALSE)}
=============================================================================
