---------------------------- MODULE MCDelegates ----------------------------
(***************************************************************************)
(* A user owns videos and albums, an album holds images, and a clip gets   *)
(* replies.  Asset is a delegate base of Image, Reply and Clip, Clip of    *)
(* Video.  One caller runs transactions and one makes the calls of a       *)
(* single statement beside it.                                             *)
(***************************************************************************)
EXTENDS Delegates, TLC

CONSTANTS User, Album, Asset, Clip, Video, Image, Reply,
          u1, a1, v1, i1, r1, deleter, creator

MCModels == {User, Album, Asset, Clip, Video, Image, Reply}
MCBase == [m \in MCModels |-> CASE m = Video -> Clip
                                [] m \in {Clip, Image, Reply} -> Asset
                                [] OTHER -> NoModel]
MCOwner == [m \in MCModels |-> CASE m \in {Album, Video} -> User
                                 [] m = Image -> Album
                                 [] m = Reply -> Clip
                                 [] OTHER -> NoModel]
MCOnDelete == [m \in MCModels |-> "Cascade"]
MCUpdatedAt == {Asset}
MCIds == {u1, a1, v1, i1, r1}
MCKind == (u1 :> User) @@ (a1 :> Album) @@ (v1 :> Video) @@ (i1 :> Image)
          @@ (r1 :> Reply)

New(m, x, o) == [model |-> m, id |-> x, owner |-> o]

MCMenu == [c \in {deleter, creator} |->
    IF c = creator THEN
        {[op |-> "create", items |-> X] : X \in {
            {New(User, u1, NoId), New(Video, v1, u1)}, {New(Album, a1, u1)},
            {New(Image, i1, a1)}, {New(Reply, r1, v1)}}}
        \cup {[op |-> "upsert", item |-> New(Video, v1, NoId), levels |-> {Clip}]}
    ELSE
        {[op |-> "delete", model |-> x[1], id |-> x[2]] :
            x \in {<<User, u1>>, <<Asset, v1>>, <<Clip, v1>>, <<Video, v1>>}}
        \cup {[op |-> "deleteMany", model |-> Asset, ids |-> {v1, r1}]}
        \cup {[op |-> "createMany",
               items |-> {New(Reply, r1, NoId), New(Video, v1, NoId)}]}
        \cup {[op |-> "update", model |-> User, id |-> u1, levels |-> {},
               nested |-> Video],
              [op |-> "update", model |-> Clip, id |-> v1, levels |-> {Asset, Clip},
               nested |-> NoModel]}
        \cup {[op |-> "updateMany", model |-> Clip, ids |-> {v1}, levels |-> {Clip}],
              [op |-> "updateMany", model |-> Asset, ids |-> {v1}, levels |-> {Asset}]}]
=============================================================================
