-------------------------- MODULE DelegateContract --------------------------
(***************************************************************************)
(* What the delegate (polymorphism) enhancement promises: an entity of a   *)
(* concrete model is one thing, with the fields of every model it          *)
(* inherits from, that is created, changed and deleted as a whole.  The    *)
(* tables it is spread over do not appear here.                            *)
(***************************************************************************)
CONSTANTS
    Ids,            \* identities of entities
    Levels,         \* [Ids -> models an entity has fields of]
    Cascades(_),    \* the owner of the entity takes it along
    Stamped(_),     \* the entity has an inherited @updatedAt field
    NoId, NoEntity

VARIABLE entities

Present == {i \in Ids : entities[i] # NoEntity}

\* entities with data of every level, owned by an entity or by none
Whole(i) == [owner : Ids \cup {NoId}, data : [Levels[i] -> {0, 1}],
             at : {0, 1}]

Init == entities = [i \in Ids |-> NoEntity]

\* The new entities are whole and their owners exist.
Add(S) ==
    /\ S \cap Present = {}
    /\ \A i \in S :
        /\ entities'[i] \in Whole(i)
        /\ entities'[i].owner # NoId =>
             entities'[entities'[i].owner] # NoEntity
    /\ \A i \in Ids \ S : entities'[i] = entities[i]

\* Deleting takes exactly the entities that cascade from the deleted ones;
\* the others forget an owner that is gone.
Dependents(S) ==
    {i \in Present : Cascades(i) /\ entities[i].owner \in S}

Change(R, S) ==
    /\ R \subseteq Present /\ S \subseteq Present \ R
    /\ Dependents(R) \subseteq R
    /\ \A i \in R : entities'[i] = NoEntity
    /\ \A i \in S :
        /\ entities'[i] \in Whole(i)
        /\ entities'[i].data # entities[i].data
        /\ Stamped(i) => entities'[i].at # entities[i].at
        /\ entities'[i].owner = entities[i].owner
    /\ \A i \in Ids \ (R \cup S) :
        \/ entities'[i] = entities[i]
        \/ /\ entities[i] # NoEntity /\ entities[i].owner \in R
           /\ entities'[i] = [entities[i] EXCEPT !.owner = NoId]

Next ==
    \/ \E S \in SUBSET Ids : Add(S)
    \/ \E R, S \in SUBSET Ids : Change(R, S)

Spec == Init /\ [][Next]_entities
=============================================================================
