------------------------- MODULE QueryHooksProofs -------------------------
(***************************************************************************)
(* Theorems about QueryAnalyzer and QueryHooks, for every schema, every    *)
(* set of queries and mutations and every choice of hook options.          *)
(***************************************************************************)
EXTENDS QueryHooks, TLAPS

(***************************************************************************)
(* The analyzer                                                            *)
(***************************************************************************)
\* A closure contains its seed and is closed: what a cascade starts from and
\* reaches is collected.
LEMMA ClosureContains ==
    ASSUME NEW next \in [Models -> SUBSET Models], NEW S \in SUBSET Models
    PROVE  /\ ClosureOf(next, S) \in SUBSET Models
           /\ S \subseteq ClosureOf(next, S)
           /\ \A y \in ClosureOf(next, S) : next[y] \subseteq ClosureOf(next, S)
  BY DEF ClosureOf

\* A closure is the least such set: nothing is collected beyond it.
LEMMA ClosureIsLeast ==
    ASSUME NEW next \in [Models -> SUBSET Models], NEW S \in SUBSET Models,
           NEW C \in SUBSET Models, S \subseteq C,
           \A y \in C : next[y] \subseteq C
    PROVE  ClosureOf(next, S) \subseteq C
  BY DEF ClosureOf

\* What the metadata says of cascades are models.
LEMMA CascadesAreModels == DeleteCascade \in [Models -> SUBSET Models]
  BY ModelMetaAssumption DEF DeleteCascade, Relations

\* What getMutatedModels returns are models, the mutation's own and every
\* visited one among them.
LEMMA MutatedModelsContain ==
    ASSUME NEW c, c.model \in Models, c.operation \in Operations,
           c.nested \in SUBSET Visits
    PROVE  /\ c.model \in MutatedModels(c)
           /\ \A v \in Visited(c) : v.model \in MutatedModels(c)
           /\ \A v \in Visited(c) : v.kind \in Deletes =>
                ClosureOf(DeleteCascade, DeleteCascade[v.model]) \subseteq MutatedModels(c)
  <1> DEFINE visited == {v.model : v \in Visited(c)}
             deleted == {v.model : v \in {w \in Visited(c) : w.kind \in Deletes}}
             cascades == UNION {ClosureOf(DeleteCascade, DeleteCascade[x]) : x \in deleted}
             seed == {c.model} \cup visited \cup cascades
  <1>1. Visited(c) \in SUBSET Visits
    BY DEF Visited, Visits, Operations
  <1>2. visited \in SUBSET Models /\ deleted \in SUBSET Models
    BY <1>1 DEF Visits
  <1>3. \A x \in deleted : ClosureOf(DeleteCascade, DeleteCascade[x]) \in SUBSET Models
    BY <1>2, ClosureContains, CascadesAreModels
  <1>4. seed \in SUBSET Models
    BY <1>2, <1>3
  <1>5. seed \subseteq ClosureOf(BaseTypes, seed)
    BY <1>4, ClosureContains, ModelMetaAssumption
  <1>6. MutatedModels(c) = ClosureOf(BaseTypes, seed)
    BY DEF MutatedModels
  <1>7. \A v \in Visited(c) : v.model \in seed
    OBVIOUS
  <1>8. \A v \in Visited(c) : v.kind \in Deletes =>
            ClosureOf(DeleteCascade, DeleteCascade[v.model]) \subseteq seed
    OBVIOUS
  <1> QED BY <1>5, <1>6, <1>7, <1>8

\* The mutator never changes a query result that the analyzer would not
\* invalidate: an optimistic guess of the default update is always replaced.
\* (applyMutation, getMutatedModels)
THEOREM DefaultUpdatesAreInvalidated ==
    ASSUME NEW c, c.model \in Models, c.operation \in Operations,
           c.nested \in SUBSET Visits,
           NEW q, MayApply(c, q)
    PROVE  Invalidates(c, q)
  BY MutatedModelsContain DEF MayApply, Invalidates

\* Without delegate models, what deletes cascade to, by the relations of the
\* schema, the metadata says too, but that a model may cascade to itself.
LEMMA CascadesAreCollected ==
    ASSUME \A x \in Models : BaseTypes[x] = {}
    PROVE  /\ \A x \in Models : Entity[x] = {x}
           /\ Cascading \in [Models -> SUBSET Models]
           /\ \A x \in Models : Cascading[x] \subseteq DeleteCascade[x] \cup {x}
  <1>1. ASSUME NEW y \in Models PROVE ClosureOf(BaseTypes, {y}) = {y}
    <2>1. ClosureOf(BaseTypes, {y}) \subseteq {y}
      BY ClosureIsLeast, ModelMetaAssumption
    <2> QED BY <2>1, ClosureContains, ModelMetaAssumption
  <1>2. ASSUME NEW x \in Models PROVE Entity[x] = {x}
    <2>1. Entity[x] = {y \in Models : y \in ClosureOf(BaseTypes, {x}) \/ x \in ClosureOf(BaseTypes, {y})}
      BY DEF Entity
    <2>2. \A y \in Models : y \in ClosureOf(BaseTypes, {x}) \/ x \in ClosureOf(BaseTypes, {y}) <=> y = x
      BY <1>1
    <2> QED BY <2>1, <2>2
  <1>3. Cascading = [x \in Models |->
            {k.owner : k \in {f \in ForeignKeys : f.of \in Entity[x] /\ f.onDelete = "Cascade"}}]
    BY DEF Cascading, OwnersBy
  <1>4. Cascading \in [Models -> SUBSET Models]
    BY <1>3, ModelMetaAssumption DEF Relations
  <1>5. ASSUME NEW x \in Models PROVE Cascading[x] \subseteq DeleteCascade[x] \cup {x}
    BY <1>2, <1>3 DEF DeleteCascade
  <1> QED BY <1>2, <1>4, <1>5

\* Without delegate models and but for a delete without its where, the analyzer
\* finds every model of which the writes of a mutation or the cascades of its
\* deletes change rows. (getMutatedModels, collectDeleteCascades)
LEMMA WritesAndCascadesAreFound ==
    ASSUME NEW c, c.model \in Models, c.operation \in Operations,
           c.nested \in SUBSET Visits,
           c.args = "full", c.operation \in Deletes => c.nested = {},
           \A x \in Models : BaseTypes[x] = {}
    PROVE  /\ {v.model : v \in Writes(c)} \subseteq Models \cap MutatedModels(c)
           /\ Gone(c) \subseteq Models \cap MutatedModels(c)
  <1> DEFINE deleted == {v.model : v \in {w \in Writes(c) : w.kind \in Deletes}}
             swept == deleted \cup
                UNION {ClosureOf(DeleteCascade, DeleteCascade[x]) : x \in deleted}
  <1>1. Visited(c) = Writes(c)
    BY DEF Visited, Writes
  <1>2. Writes(c) \in SUBSET Visits /\ deleted \in SUBSET Models
    BY DEF Visits, Writes
  <1>3. \A x \in deleted :
            /\ ClosureOf(DeleteCascade, DeleteCascade[x]) \in SUBSET Models
            /\ DeleteCascade[x] \subseteq ClosureOf(DeleteCascade, DeleteCascade[x])
            /\ \A y \in ClosureOf(DeleteCascade, DeleteCascade[x]) :
                DeleteCascade[y] \subseteq ClosureOf(DeleteCascade, DeleteCascade[x])
    BY <1>2, ClosureContains, CascadesAreModels
  <1>4. swept \in SUBSET Models
    BY <1>2, <1>3
  <1>5. \A y \in swept : Cascading[y] \subseteq swept
    <2>1. ASSUME NEW y \in deleted PROVE DeleteCascade[y] \subseteq swept
      BY <1>3
    <2>2. ASSUME NEW x \in deleted, NEW y \in ClosureOf(DeleteCascade, DeleteCascade[x])
          PROVE  DeleteCascade[y] \subseteq swept
      <3>1. DeleteCascade[y] \subseteq ClosureOf(DeleteCascade, DeleteCascade[x])
        BY <1>3
      <3> QED BY <3>1
    <2>3. \A y \in swept : DeleteCascade[y] \subseteq swept
      BY <2>1, <2>2
    <2> HIDE DEF swept
    <2> QED BY <2>3, <1>4, CascadesAreCollected
  <1>6. Gone(c) \subseteq swept
    <2>1. deleted \subseteq swept
      OBVIOUS
    <2>2. Gone(c) = ClosureOf(Cascading, deleted)
      BY DEF Gone
    <2> HIDE DEF swept, deleted
    <2> QED BY <2>1, <2>2, <1>2, <1>4, <1>5, CascadesAreCollected, ClosureIsLeast
  <1>7. swept \subseteq MutatedModels(c)
    BY <1>1, MutatedModelsContain
  <1>8. {v.model : v \in Writes(c)} \subseteq MutatedModels(c)
    BY <1>1, MutatedModelsContain
  <1>9. {v.model : v \in Writes(c)} \subseteq Models
    BY <1>2 DEF Visits
  <1> HIDE DEF swept
  <1> QED BY <1>4, <1>6, <1>7, <1>8, <1>9

\* Without delegate models, a delete with its where and a query that neither
\* filters nor sorts by another model, the analyzer finds every query whose result
\* the mutation may change, by its writes or the cascades of its deletes. What it
\* misses are queries that read a model changed by nothing but another referential
\* action: a relation set to null or to its default when the row it refers to goes,
\* or that follows a key which is updated.
\* (getMutatedModels, collectDeleteCascades, getReadModels)
THEOREM AnalyzerIsComplete ==
    ASSUME NEW c, c.model \in Models, c.operation \in Operations,
           c.nested \in SUBSET Visits,
           c.args = "full", c.operation \in Deletes => c.nested = {},
           NEW q, q.filters \subseteq ReadModels(q),
           \A x \in Models : BaseTypes[x] = {},
           Affects(c, q)
    PROVE  Invalidates(c, q) \/ Overlooked(c) \cap ReadModels(q) # {}
  <1>1. PICK x \in {v.model : v \in Writes(c)} \cup Gone(c) \cup Adjusted(c) :
            Entity[x] \cap ReadModels(q) # {}
    BY DEF Affects, TouchedModels
  <1>2. CASE x \in Adjusted(c)
    <2>1. PICK y \in Entity[x] : y \in ReadModels(q)
      BY <1>1
    <2>2. y \in MutatedModels(c) \/ y \in Overlooked(c)
      BY <1>2, <2>1 DEF Overlooked
    <2> QED BY <2>1, <2>2 DEF Invalidates
  <1>3. CASE x \in {v.model : v \in Writes(c)} \cup Gone(c)
    <2>1. x \in Models \cap MutatedModels(c)
      BY <1>3, WritesAndCascadesAreFound
    <2> QED BY <1>1, <2>1, CascadesAreCollected DEF Invalidates
  <1> QED BY <1>1, <1>2, <1>3

(***************************************************************************)
(* Types                                                                   *)
(***************************************************************************)
\* A fetch that begins is one in flight.
LEMMA NewFetchIsTyped ==
    ASSUME NEW W \in SUBSET Clicks
    PROVE  /\ NewFetch(W) \in Fetches
           /\ NewFetch(W).phase = "sent" /\ NewFetch(W).awaited = W
           /\ NewFetch(W).joined = FALSE
  BY DEF NewFetch, NoFetch, Fetches

\* An entry that is not being fetched has nobody waiting.
LEMMA NobodyAwaitsNoFetch ==
    ASSUME NEW q \in Queries, fetch[q] \in Fetches \cup {Idle, NoFetch("cancelled")}
    PROVE  Fetching(q) <=> fetch[q] \in Fetches
  BY DEF Fetching, Fetches, Idle, NoFetch

\* An invalidation leaves every entry fetched as the query client fetches:
\* begun anew for the click that invalidates, or joined by it.
LEMMA InvalidateIsTyped ==
    ASSUME TypeOK, NEW m \in Clicks, Invalidate(m)
    PROVE  /\ fetch' \in [Queries -> Fetches \cup {Idle, NoFetch("cancelled")}]
           /\ \A q \in Queries :
                IF Invalidates(call[m], Query[q])
                THEN \/ fetch'[q] = NewFetch({m})
                     \/ /\ ~cached[q].loaded
                        /\ fetch'[q].joined
                        /\ fetch'[q].awaited = fetch[q].awaited \cup {m}
                ELSE fetch'[q] = fetch[q]
  <1>1. fetch' = [q \in Queries |->
            IF Invalidates(call[m], Query[q]) THEN RefetchFor(m, q) ELSE fetch[q]]
    BY DEF Invalidate
  <1>2. ASSUME NEW q \in Queries
        PROVE  /\ RefetchFor(m, q) \in Fetches
               /\ \/ RefetchFor(m, q) = NewFetch({m})
                  \/ /\ ~cached[q].loaded
                     /\ RefetchFor(m, q).joined
                     /\ RefetchFor(m, q).awaited = fetch[q].awaited \cup {m}
    <2>1. CASE Fetching(q) /\ ~cached[q].loaded
      <3>1. fetch[q] \in Fetches
        BY <2>1, NobodyAwaitsNoFetch DEF TypeOK
      <3>2. RefetchFor(m, q) = [fetch[q] EXCEPT !.awaited = @ \cup {m}, !.joined = TRUE]
        BY <2>1 DEF RefetchFor
      <3>3. RefetchFor(m, q) \in Fetches
        <4>1. fetch[q].awaited \cup {m} \in SUBSET Clicks
          BY <3>1 DEF Fetches
        <4> DEFINE W == fetch[q].awaited \cup {m}
        <4>2. [fetch[q] EXCEPT !.awaited = W, !.joined = TRUE] \in Fetches
          <5> HIDE DEF W
          <5> QED BY <3>1, <4>1 DEF Fetches, W
        <4> QED BY <3>2, <4>2
      <3>4. RefetchFor(m, q).joined = TRUE
        BY <3>1, <3>2 DEF Fetches
      <3>5. RefetchFor(m, q).awaited = fetch[q].awaited \cup {m}
        BY <3>1, <3>2 DEF Fetches
      <3> QED BY <2>1, <3>3, <3>4, <3>5
    <2>2. CASE ~(Fetching(q) /\ ~cached[q].loaded)
      BY <2>2, NewFetchIsTyped DEF RefetchFor
    <2> QED BY <2>1, <2>2
  <1>3. fetch \in [Queries -> Fetches \cup {Idle, NoFetch("cancelled")}]
    BY DEF TypeOK
  <1> QED BY <1>1, <1>2, <1>3

\* A cache update leaves typed entries and fetches.
LEMMA SetCacheIsTyped ==
    ASSUME TypeOK, NEW m \in Clicks, NEW h \in Reads, SetCache(m, h)
    PROVE  /\ cached' \in [Queries -> Entries]
           /\ fetch' \in [Queries -> Fetches \cup {Idle, NoFetch("cancelled")}]
           /\ \A q \in Queries \ {h.query} : cached'[q] = cached[q] /\ fetch'[q] = fetch[q]
           /\ fetch'[h.query].awaited \in {fetch[h.query].awaited, {}}
  <1>1. h.query \in Queries /\ h.seen \in SUBSET Clicks /\ h.guess \cup {m} \in SUBSET Clicks
    BY DEF Reads
  <1>2. cached' = [cached EXCEPT ![h.query] =
            [loaded |-> TRUE, seen |-> h.seen, guess |-> h.guess \cup {m}, error |-> FALSE]]
    BY DEF SetCache
  <1>3. cached' \in [Queries -> Entries]
    BY <1>1, <1>2 DEF TypeOK, Entries
  <1>4. CASE ~Fetching(h.query)
    BY <1>1, <1>2, <1>3, <1>4 DEF TypeOK, SetCache
  <1>5. CASE Fetching(h.query) /\ adapter = "react-v5"
    BY <1>1, <1>2, <1>3, <1>5 DEF TypeOK, SetCache, Cancel, NoFetch
  <1>6. CASE Fetching(h.query) /\ adapter # "react-v5"
    <2>1. fetch[h.query] \in Fetches
      BY <1>1, <1>6, NobodyAwaitsNoFetch DEF TypeOK
    <2>2. fetch' = [fetch EXCEPT ![h.query] = [fetch[h.query] EXCEPT !.overtaken = TRUE]]
      BY <1>6 DEF SetCache
    <2>3. [fetch[h.query] EXCEPT !.overtaken = TRUE] \in Fetches
      BY <2>1 DEF Fetches
    <2>4. [fetch[h.query] EXCEPT !.overtaken = TRUE].awaited = fetch[h.query].awaited
      BY <2>1 DEF Fetches
    <2> QED BY <1>1, <1>2, <1>3, <2>2, <2>3, <2>4 DEF TypeOK
  <1> QED BY <1>4, <1>5, <1>6

\* The query client's own steps keep the types.
LEMMA ClientIsTyped ==
    ASSUME TypeOK, NEW q \in Queries, Refetch(q) \/ Request(q)
    PROVE  TypeOK'
  <1>1. CASE Refetch(q)
    BY <1>1, NewFetchIsTyped DEF TypeOK, Refetch, clickVars
  <1>2. CASE Serve(q)
    <2>1. fetch[q] \in Fetches
      BY <1>2, NobodyAwaitsNoFetch DEF Serve, TypeOK, Fetching
    <2>2. Current(q) \in SUBSET Clicks
      BY DEF Current, TypeOK
    <2> DEFINE answer == Current(q)
    <2>3. [fetch[q] EXCEPT !.phase = "served", !.seen = answer] \in Fetches
      <3> HIDE DEF answer
      <3> QED BY <2>1, <2>2 DEF Fetches, answer
    <2>4. fetch' = [fetch EXCEPT ![q] = [fetch[q] EXCEPT !.phase = "served", !.seen = answer]]
      BY <1>2 DEF Serve
    <2>5. fetch' \in [Queries -> Fetches \cup {Idle, NoFetch("cancelled")}]
      <3> HIDE DEF answer
      <3> QED BY <2>3, <2>4 DEF TypeOK
    <2> QED BY <1>2, <2>5 DEF TypeOK, Serve, clickVars
  <1>3. CASE Deliver(q)
    <2>1. fetch[q].seen \in SUBSET Clicks
      BY DEF TypeOK, Fetches, Idle, NoFetch
    <2>2. cached' \in [Queries -> Entries]
      BY <1>3, <2>1 DEF Deliver, TypeOK, Entries
    <2> QED BY <1>3, <2>2 DEF Deliver, TypeOK, clickVars
  <1>4. CASE Fail(q)
    <2>1. cached' \in [Queries -> Entries]
      BY <1>4 DEF Fail, TypeOK, Entries
    <2> QED BY <1>4, <2>1 DEF Fail, TypeOK, clickVars
  <1> QED BY <1>1, <1>2, <1>3, <1>4 DEF Request

\* So do the steps of a mutation.
LEMMA MutationIsTyped ==
    ASSUME TypeOK, NEW m \in Clicks, Mutate(m) \/ Step(m)
    PROVE  TypeOK'
  <1>1. CASE Mutate(m)
    <2>1. PICK c \in Calls :
            /\ call' = [call EXCEPT ![m] = c]
            /\ IF c.optimisticUpdate
               THEN MoveTo(m, "updating") /\ todo' = [todo EXCEPT ![m] = Queries]
               ELSE MoveTo(m, "sent") /\ UNCHANGED todo
      BY <1>1 DEF Mutate
    <2>2. c # NoCall
      BY HooksAssumption
    <2> QED BY <1>1, <2>1, <2>2 DEF Mutate, TypeOK, MoveTo, Stages
  <1>2. ASSUME NEW q \in Queries, Skip(m, q) PROVE TypeOK'
    BY <1>2 DEF Skip, TypeOK
  <1>3. ASSUME NEW q \in Queries, Examine(m, q) PROVE TypeOK'
    <2>1. [query |-> q, seen |-> cached[q].seen, guess |-> cached[q].guess] \in Reads
      BY DEF TypeOK, Entries, Reads
    <2> QED BY <1>3, <2>1 DEF Examine, TypeOK
  <1>4. CASE Update(m)
    <2>1. PICK h \in held[m] : SetCache(m, h)
      BY <1>4 DEF Update
    <2>2. h \in Reads
      BY DEF TypeOK
    <2>3. /\ cached' \in [Queries -> Entries]
          /\ fetch' \in [Queries -> Fetches \cup {Idle, NoFetch("cancelled")}]
      BY <2>1, <2>2, SetCacheIsTyped
    <2> QED BY <1>4, <2>3 DEF Update, TypeOK
  <1>5. CASE Send(m) \/ Throw(m)
    BY <1>5 DEF Send, Throw, MoveTo, TypeOK, Stages
  <1>6. CASE Apply(m)
    BY <1>6 DEF Apply, MoveTo, TypeOK, Stages
  <1>7. CASE Reject(m)
    BY <1>7 DEF Reject, MoveTo, TypeOK, Stages
  <1>8. CASE Reply(m)
    BY <1>8 DEF Reply, Fetched, MoveTo, TypeOK, Stages
  <1>9. ASSUME \/ Invalidate(m)
               \/ UNCHANGED fetch
        PROVE  fetch' \in [Queries -> Fetches \cup {Idle, NoFetch("cancelled")}]
    BY <1>9, InvalidateIsTyped DEF TypeOK
  <1>10. CASE OnSuccess(m)
    BY <1>9, <1>10 DEF OnSuccess, MoveTo, TypeOK, Stages
  <1>11. CASE OnSettled(m)
    BY <1>9, <1>11 DEF OnSettled, MoveTo, TypeOK, Stages
  <1>12. CASE Done(m)
    BY <1>12 DEF Done, MoveTo, TypeOK, Stages
  <1> QED BY <1>1, <1>2, <1>3, <1>4, <1>5, <1>6, <1>7, <1>8, <1>10, <1>11, <1>12 DEF Step

\* The hooks keep their types: every entry, fetch, mutation and pending read is
\* well formed, and an entry that is not being fetched has nobody waiting.
THEOREM HooksTypeCorrect == Spec => []TypeOK
  <1>1. Init => TypeOK
    <2> SUFFICES ASSUME Init PROVE TypeOK
      OBVIOUS
    <2>1. NewFetch({}) \in Fetches
      BY NewFetchIsTyped
    <2> QED BY <2>1, HooksAssumption DEF Init, TypeOK, Stages, Entries
  <1>2. TypeOK /\ [Next]_vars => TypeOK'
    <2> SUFFICES ASSUME TypeOK, [Next]_vars PROVE TypeOK'
      OBVIOUS
    <2>1. CASE UNCHANGED vars
      BY <2>1 DEF TypeOK, vars, clickVars
    <2> QED BY <2>1, ClientIsTyped, MutationIsTyped DEF Next
  <1> QED BY <1>1, <1>2, PTL DEF Spec

(***************************************************************************)
(* Freshness                                                               *)
(***************************************************************************)
\* The callbacks of m still have an invalidation of q before them, and will
\* come to it unless the answer of an unoptimistic m is lost.
Owes(m, q) ==
    /\ stage[m] # "idle"
    /\ call[m].invalidateQueries
    /\ Invalidates(call[m], Query[q])
    /\ IF call[m].optimisticUpdate
       THEN stage[m] \in {"updating", "sent", "applied", "answered", "succeeding"}
       ELSE /\ Affects(call[m], Query[q])
            /\ \/ stage[m] = "applied"
               \/ stage[m] = "answered" /\ Succeeded(m)

Due(q) == \E m \in Clicks : Owes(m, q)

\* A stale entry is due to be invalidated, or somebody waits for its fetch.
StaleIsDue ==
    \A q \in Queries : Reported(q) /\ Settled(q) =>
        Fresh(q) \/ Due(q) \/ fetch[q].awaited # {}

\* So is one whose fetch brings a stale answer, unless it is a joined first load.
StaleAnswerIsDue ==
    \A q \in Queries : Reported(q) /\ fetch[q].phase = "served" /\ ~fetch[q].joined =>
        fetch[q].seen = Current(q) \/ Due(q)

WaitersWait ==
    \A q \in Queries : \A m \in fetch[q].awaited : stage[m] \in {"succeeding", "settling"}

AppliedIsSent ==
    \A m \in server : stage[m] \notin {"idle", "updating", "sent"}

Unanswered ==
    \A m \in Clicks : stage[m] \in {"idle", "updating", "sent", "applied"} => result[m] = "none"

UpdatesReach ==
    \A m \in Clicks :
        /\ stage[m] = "updating" => call[m].optimisticUpdate
        /\ \A h \in held[m] : stage[m] = "updating" /\ Reaches(m, h.query)

HInv ==
    /\ StaleIsDue /\ StaleAnswerIsDue /\ WaitersWait
    /\ AppliedIsSent /\ Unanswered /\ UpdatesReach

\* A step of m leaves the other mutations alone, and m keeps its call.
LEMMA OthersKeep ==
    ASSUME TypeOK, UpdatesReach, NEW m \in Clicks, Mutate(m) \/ Step(m)
    PROVE  /\ \A n \in Clicks \ {m} :
                /\ call'[n] = call[n] /\ stage'[n] = stage[n] /\ result'[n] = result[n]
                /\ held'[n] = held[n]
           /\ stage[m] # "idle" => call'[m] = call[m]
           /\ stage'[m] # "idle"
  <1>1. CASE Mutate(m)
    BY <1>1 DEF Mutate, MoveTo, TypeOK
  <1>2. CASE Step(m)
    <2>1. ASSUME NEW q \in Queries, Skip(m, q) \/ Examine(m, q)
          PROVE  stage[m] = "updating" /\ UNCHANGED <<call, stage, result>>
                 /\ \A n \in Clicks \ {m} : held'[n] = held[n]
      BY <2>1 DEF Skip, Examine, TypeOK
    <2>2. CASE \E q \in Queries : Skip(m, q) \/ Examine(m, q)
      BY <2>1, <2>2
    <2>3. CASE Update(m)
      BY <2>3 DEF Update, TypeOK, UpdatesReach
    <2>4. CASE Send(m) \/ Throw(m)
      BY <2>4 DEF Send, Throw, MoveTo, TypeOK
    <2>5. CASE Apply(m)
      BY <2>5 DEF Apply, MoveTo, TypeOK
    <2>6. CASE Reject(m)
      BY <2>6 DEF Reject, MoveTo, TypeOK
    <2>7. CASE Reply(m)
      <3>1. PICK r : result' = [result EXCEPT ![m] = r]
        BY <2>7 DEF Reply
      <3> QED BY <2>7, <3>1 DEF Reply, MoveTo, TypeOK
    <2>8. CASE OnSuccess(m)
      BY <2>8 DEF OnSuccess, MoveTo, TypeOK
    <2>9. CASE OnSettled(m)
      BY <2>9 DEF OnSettled, MoveTo, TypeOK
    <2>10. CASE Done(m)
      BY <2>10 DEF Done, MoveTo, TypeOK
    <2> QED BY <1>2, <2>2, <2>3, <2>4, <2>5, <2>6, <2>7, <2>8, <2>9, <2>10 DEF Step
  <1> QED BY <1>1, <1>2

\* What an entry is told of does not become more by a step.
LEMMA ReportedBefore ==
    ASSUME TypeOK, HInv, NEW m \in Clicks, Mutate(m) \/ Step(m), NEW q \in Queries,
           Reported(q)'
    PROVE  Reported(q)
  <1> SUFFICES ASSUME NEW n \in Clicks, stage[n] # "idle", Reaches(n, q) PROVE Reports(n, q)
    BY DEF Reported
  <1>1. call'[n] = call[n] /\ stage'[n] # "idle"
    BY OthersKeep DEF HInv
  <1>2. Reports(n, q)'
    BY <1>1 DEF Reported, Reaches
  <1>3. result[n] = "lost" => result'[n] = "lost"
    <2>1. CASE n # m
      BY <2>1, OthersKeep DEF HInv
    <2>2. CASE n = m
      <3>1. result[m] = "lost" => stage[m] \notin {"idle", "updating", "sent", "applied"}
        BY DEF HInv, Unanswered
      <3>2. result[m] = "lost" => UNCHANGED result
        BY <3>1 DEF Mutate, Step, Skip, Examine, Update, Throw, Send, Apply, Reject, Reply,
                    OnSuccess, OnSettled, Done
      <3> QED BY <2>2, <3>2
    <2> QED BY <2>1, <2>2
  <1> QED BY <1>1, <1>2, <1>3 DEF Reports

\* What the server would answer changes only when it applies a mutation.
LEMMA CurrentKept ==
    ASSUME TypeOK, HInv, NEW m \in Clicks, Mutate(m) \/ Step(m), NEW q \in Queries, ~Apply(m)
    PROVE  Current(q)' = Current(q)
  <1>1. server' = server
    BY DEF Mutate, Step, Skip, Examine, Update, Throw, Send, Apply, Reject, Reply,
           OnSuccess, OnSettled, Done
  <1>2. \A n \in server : call'[n] = call[n]
    BY OthersKeep DEF HInv, AppliedIsSent, TypeOK
  <1> QED BY <1>1, <1>2 DEF Current

\* Until its callbacks invalidate, a mutation that owes goes on owing, except
\* that the answer of an unoptimistic one is lost; another's debt stays.
LEMMA DueKept ==
    ASSUME TypeOK, HInv, NEW m \in Clicks, Mutate(m) \/ Step(m), NEW q \in Queries,
           Reported(q)', Due(q),
           OnSuccess(m) \/ OnSettled(m) => ~Owes(m, q)
    PROVE  Due(q)'
  <1>1. PICK n \in Clicks : Owes(n, q)
    BY DEF Due
  <1>2. CASE n # m
    <2>1. Owes(n, q)'
      BY <1>1, <1>2, OthersKeep DEF HInv, Owes, Succeeded
    <2> QED BY <2>1 DEF Due
  <1>3. CASE n = m
    <2>1. stage[m] # "idle" /\ call'[m] = call[m] /\ stage'[m] # "idle"
      BY <1>1, <1>3, OthersKeep DEF HInv, Owes
    <2>2. ~OnSuccess(m) /\ ~OnSettled(m)
      BY <1>1, <1>3
    <2>3. CASE call[m].optimisticUpdate
      <3>1. stage[m] \in {"updating", "sent", "applied", "answered", "succeeding"}
        BY <1>1, <1>3, <2>3 DEF Owes
      <3>2. stage'[m] \in {"updating", "sent", "applied", "answered", "succeeding"}
        BY <2>1, <2>2, <3>1 DEF Mutate, Step, Skip, Examine, Update, Throw, Send, Apply, Reject,
            Reply, Done, MoveTo, TypeOK
      <3> QED BY <1>1, <1>3, <2>1, <2>3, <3>2 DEF Owes, Due
    <2>4. CASE ~call[m].optimisticUpdate
      <3>1. /\ Affects(call[m], Query[q])
            /\ stage[m] = "applied" \/ (stage[m] = "answered" /\ Succeeded(m))
        BY <1>1, <1>3, <2>4 DEF Owes
      <3>2. Reply(m) \/ (UNCHANGED <<stage, result>>)
        BY <2>1, <2>2, <3>1 DEF Mutate, Step, Skip, Examine, Update, Throw, Send, Apply, Reject,
            Reply, Done, HInv, UpdatesReach
      <3>3. CASE UNCHANGED <<stage, result>>
        BY <1>1, <1>3, <2>1, <3>3 DEF Owes, Due, Succeeded
      <3>4. CASE Reply(m)
        <4>1. result'[m] # "lost"
          BY <2>1, <2>4, <3>1 DEF Reported, Reaches, Reports
        <4>2. result'[m] = "ok"
          BY <3>4, <4>1 DEF Reply, Fetched, TypeOK
        <4>3. stage'[m] = "answered"
          BY <3>4 DEF Reply, MoveTo, TypeOK
        <4> QED BY <1>1, <1>3, <2>1, <2>4, <3>1, <4>2, <4>3 DEF Owes, Due, Succeeded
      <3> QED BY <3>2, <3>3, <3>4
    <2> QED BY <2>3, <2>4
  <1> QED BY <1>2, <1>3

\* Who waits for a fetch is at an await, through every step of a mutation.
LEMMA WaitersKept ==
    ASSUME TypeOK, TypeOK', HInv, NEW m \in Clicks, Mutate(m) \/ Step(m)
    PROVE  WaitersWait'
  <1> SUFFICES ASSUME NEW q \in Queries, NEW n \in fetch'[q].awaited
               PROVE  stage'[n] \in {"succeeding", "settling"}
    BY DEF WaitersWait
  <1>1. n \in Clicks
    BY DEF TypeOK, Fetches, Idle, NoFetch
  <1>2. CASE OnSuccess(m) \/ OnSettled(m)
    <2>1. stage'[m] \in {"succeeding", "settling"}
      BY <1>2 DEF OnSuccess, OnSettled, MoveTo, TypeOK
    <2>2. fetch'[q].awaited \subseteq fetch[q].awaited \cup {m}
      <3>1. CASE UNCHANGED fetch
        BY <3>1
      <3>2. CASE Invalidate(m)
        <4>1. NewFetch({m}).awaited = {m}
          BY NewFetchIsTyped
        <4>2. \/ fetch'[q] = NewFetch({m})
              \/ fetch'[q].awaited = fetch[q].awaited \cup {m}
              \/ fetch'[q] = fetch[q]
          BY <3>2, InvalidateIsTyped
        <4>3. CASE fetch'[q] = NewFetch({m})
          BY <4>1, <4>3
        <4>4. CASE fetch'[q].awaited = fetch[q].awaited \cup {m}
          BY <4>4
        <4>5. CASE fetch'[q] = fetch[q]
          BY <4>5
        <4> QED BY <4>2, <4>3, <4>4, <4>5
      <3> QED BY <1>2, <3>1, <3>2 DEF OnSuccess, OnSettled
    <2> QED BY <1>1, <2>1, <2>2, OthersKeep DEF HInv, WaitersWait
  <1>3. CASE ~(OnSuccess(m) \/ OnSettled(m))
    <2>1. n \in fetch[q].awaited
      <3>1. CASE Update(m)
        <4>1. PICK h \in held[m] : SetCache(m, h)
          BY <3>1 DEF Update
        <4>2. h \in Reads
          BY DEF TypeOK
        <4> QED BY <4>1, <4>2, SetCacheIsTyped
      <3>2. CASE ~Update(m)
        BY <1>3, <3>2 DEF Mutate, Step, Skip, Examine, Throw, Send, Apply, Reject, Reply, Done
      <3> QED BY <3>1, <3>2
    <2>2. stage[n] \in {"succeeding", "settling"}
      BY <2>1 DEF HInv, WaitersWait
    <2>3. CASE n # m
      BY <1>1, <2>2, <2>3, OthersKeep DEF HInv
    <2>4. CASE n = m
      <3>1. ~Done(m)
        BY <2>1, <2>4 DEF Done, Awaits
      <3>2. UNCHANGED stage
        BY <1>3, <2>2, <2>4, <3>1 DEF Mutate, Step, Skip, Examine, Update, Throw, Send, Apply,
            Reject, Reply
      <3> QED BY <2>2, <3>2
    <2> QED BY <2>3, <2>4
  <1> QED BY <1>2, <1>3

\* The plain bookkeeping: a request is applied after it is sent, has no result
\* before it is answered, and an entry held across an await is one m reaches.
LEMMA BookkeepingKept ==
    ASSUME TypeOK, HInv, NEW m \in Clicks, Mutate(m) \/ Step(m)
    PROVE  AppliedIsSent' /\ Unanswered' /\ UpdatesReach'
  <1>1. AppliedIsSent'
    <2>1. server' \subseteq server \cup {m} /\ (server' # server => Apply(m))
      BY DEF Mutate, Step, Skip, Examine, Update, Throw, Send, Apply, Reject, Reply,
             OnSuccess, OnSettled, Done
    <2>2. CASE Apply(m)
      BY <2>1, <2>2, OthersKeep DEF HInv, AppliedIsSent, Apply, MoveTo, TypeOK
    <2>3. CASE ~Apply(m)
      <3>1. server' = server
        BY <2>1, <2>3
      <3>2. \A n \in server \ {m} : stage'[n] = stage[n]
        BY OthersKeep DEF HInv, TypeOK
      <3>3. m \in server => stage'[m] \notin {"idle", "updating", "sent"}
        <4> SUFFICES ASSUME m \in server PROVE stage'[m] \notin {"idle", "updating", "sent"}
          OBVIOUS
        <4>1. stage[m] \notin {"idle", "updating", "sent"}
          BY DEF HInv, AppliedIsSent
        <4> QED BY <4>1 DEF Mutate, Step, Skip, Examine, Update, Throw, Send, Apply, Reject, Reply,
                    OnSuccess, OnSettled, Done, MoveTo, TypeOK, HInv, UpdatesReach
      <3> QED BY <3>1, <3>2, <3>3 DEF HInv, AppliedIsSent
    <2> QED BY <2>2, <2>3
  <1>2. Unanswered'
    <2> SUFFICES ASSUME NEW n \in Clicks,
                        stage'[n] \in {"idle", "updating", "sent", "applied"}
                 PROVE  result'[n] = "none"
      BY DEF Unanswered
    <2>1. CASE n # m
      BY <2>1, OthersKeep DEF HInv, Unanswered
    <2>2. CASE n = m
      <3>1. result' = result /\ stage[m] \in {"idle", "updating", "sent", "applied"}
        BY <2>2 DEF Mutate, Step, Skip, Examine, Update, Throw, Send, Apply, Reject, Reply,
                    OnSuccess, OnSettled, Done, MoveTo, TypeOK, HInv, UpdatesReach
      <3> QED BY <2>2, <3>1 DEF HInv, Unanswered
    <2> QED BY <2>1, <2>2
  <1>3. UpdatesReach'
    <2> SUFFICES ASSUME NEW n \in Clicks
                 PROVE  /\ stage'[n] = "updating" => call'[n].optimisticUpdate
                        /\ \A h \in held'[n] : stage'[n] = "updating" /\ Reaches(n, h.query)'
      BY DEF UpdatesReach
    <2>1. CASE n # m
      <3>1. /\ call'[n] = call[n] /\ stage'[n] = stage[n] /\ held'[n] = held[n]
        BY <2>1, OthersKeep DEF HInv
      <3> QED BY <3>1 DEF HInv, UpdatesReach, Reaches
    <2>2. CASE n = m /\ Mutate(m)
      <3>1. held[m] = {} /\ held' = held
        BY <2>2 DEF Mutate, HInv, UpdatesReach
      <3>2. stage'[m] = "updating" => call'[m].optimisticUpdate
        BY <2>2 DEF Mutate, MoveTo, TypeOK
      <3> QED BY <2>2, <3>1, <3>2
    <2>3. CASE n = m /\ \E q \in Queries : Examine(m, q)
      <3>1. PICK q \in Queries : Examine(m, q)
        BY <2>3
      <3>2. stage' = stage /\ call' = call /\ stage[m] = "updating"
        BY <3>1 DEF Examine
      <3>3. call[m].optimisticUpdate
        BY <3>2 DEF HInv, UpdatesReach
      <3>4. Reaches(m, q)
        BY <3>1, <3>3 DEF Examine, MayUpdate, Reaches
      <3>5. held'[m] = {[query |-> q, seen |-> cached[q].seen, guess |-> cached[q].guess]}
        BY <3>1 DEF Examine, TypeOK
      <3> QED BY <2>3, <3>2, <3>3, <3>4, <3>5 DEF Reaches
    <2>4. CASE n = m /\ ~Mutate(m) /\ ~(\E q \in Queries : Examine(m, q))
      <3>1. call'[m] = call[m] /\ held'[m] \subseteq held[m]
        BY <2>4 DEF Step, Skip, Update, Throw, Send, Apply, Reject, Reply,
                    OnSuccess, OnSettled, Done, TypeOK
      <3>2. stage'[m] = "updating" => stage[m] = "updating"
        BY <2>4 DEF Step, Skip, Update, Throw, Send, Apply, Reject, Reply,
                    OnSuccess, OnSettled, Done, MoveTo, TypeOK
      <3>3. held'[m] # {} => stage'[m] = "updating"
        BY <2>4 DEF Step, Skip, Update, Throw, Send, Apply, Reject, Reply,
                    OnSuccess, OnSettled, Done, MoveTo, TypeOK, HInv, UpdatesReach
      <3> QED BY <2>4, <3>1, <3>2, <3>3 DEF HInv, UpdatesReach, Reaches
    <2> QED BY <2>1, <2>2, <2>3, <2>4
  <1> QED BY <1>1, <1>2, <1>3

\* Through every step of a mutation, a query that is stale, or about to receive
\* a stale answer, has an invalidation or an awaited fetch before it.
LEMMA FreshnessKept ==
    ASSUME TypeOK, TypeOK', HInv, NEW m \in Clicks, Mutate(m) \/ Step(m)
    PROVE  StaleIsDue' /\ StaleAnswerIsDue'
  <1> DEFINE Shown(q) == Settled(q) => Fresh(q) \/ Due(q) \/ fetch[q].awaited # {}
             Answered(q) == fetch[q].phase = "served" /\ ~fetch[q].joined =>
                                fetch[q].seen = Current(q) \/ Due(q)
  <1> SUFFICES ASSUME NEW q \in Queries, Reported(q)' PROVE Shown(q)' /\ Answered(q)'
    BY DEF StaleIsDue, StaleAnswerIsDue
  <1>1. Shown(q) /\ Answered(q) /\ Reported(q)
    BY ReportedBefore DEF HInv, StaleIsDue, StaleAnswerIsDue
  <1>2. ASSUME ~Apply(m), OnSuccess(m) \/ OnSettled(m) => ~Owes(m, q),
               cached'[q] = cached[q], fetch'[q] = fetch[q], outrun' = outrun
        PROVE  Shown(q)' /\ Answered(q)'
    <2>1. Current(q)' = Current(q) /\ (Due(q) => Due(q)')
      BY <1>2, CurrentKept, DueKept
    <2> QED BY <1>1, <1>2, <2>1 DEF Settled, Fresh
  <1>3. CASE Apply(m)
    <2>1. /\ call' = call /\ stage[m] = "sent" /\ stage'[m] = "applied"
          /\ server' = server \cup {m} /\ UNCHANGED <<cached, fetch, outrun>>
      BY <1>3 DEF Apply, MoveTo, TypeOK
    <2>2. CASE Affects(call[m], Query[q])
      <3>1. Reports(m, q)'
        BY <2>1, <2>2 DEF Reported, Reaches
      <3>2. Owes(m, q)'
        BY <2>1, <2>2, <3>1 DEF Reports, Owes
      <3>3. Due(q)'
        BY <3>2 DEF Due
      <3> QED BY <3>3
    <2>3. CASE ~Affects(call[m], Query[q])
      <3>1. Current(q)' = Current(q)
        BY <2>1, <2>3 DEF Current
      <3>2. Due(q) => Due(q)'
        BY <1>3, <2>1, DueKept DEF OnSuccess, OnSettled
      <3> QED BY <1>1, <2>1, <3>1, <3>2 DEF Settled, Fresh
    <2> QED BY <2>2, <2>3
  <1>4. CASE Update(m)
    <2>1. PICK h \in held[m] : SetCache(m, h)
      BY <1>4 DEF Update
    <2>2. h \in Reads /\ stage[m] = "updating" /\ Reaches(m, h.query)
      BY DEF TypeOK, HInv, UpdatesReach
    <2>3. UNCHANGED <<call, stage, result, outrun>>
      BY <1>4 DEF Update
    <2>4. CASE q = h.query
      <3>1. Reports(m, q) /\ call[m].optimisticUpdate
        BY <1>1, <2>2, <2>4 DEF Reported, HInv, UpdatesReach
      <3>2. Owes(m, q)'
        BY <2>2, <2>3, <3>1 DEF Owes, Reports
      <3>3. Due(q)'
        BY <3>2 DEF Due
      <3> QED BY <3>3
    <2>5. CASE q # h.query
      <3>1. cached'[q] = cached[q] /\ fetch'[q] = fetch[q]
        BY <2>1, <2>2, <2>5, SetCacheIsTyped
      <3>2. ~Apply(m) /\ ~OnSuccess(m) /\ ~OnSettled(m)
        BY <2>2 DEF Apply, OnSuccess, OnSettled
      <3> QED BY <1>2, <2>3, <3>1, <3>2
    <2> QED BY <2>4, <2>5
  <1>5. CASE OnSuccess(m) \/ OnSettled(m)
    <2>1. /\ ~Apply(m) /\ UNCHANGED <<cached, outrun>>
          /\ Invalidate(m) \/ fetch' = fetch
      BY <1>5 DEF Apply, OnSuccess, OnSettled
    <2>2. Owes(m, q) => Invalidate(m) /\ Invalidates(call[m], Query[q])
      BY <1>5 DEF Owes, OnSuccess, OnSettled, InvalidatesOnSettled, Succeeded
    <2>3. CASE Invalidate(m) /\ Invalidates(call[m], Query[q])
      <3>1. CASE fetch'[q] = NewFetch({m})
        <4>1. NewFetch({m}).awaited = {m} /\ NewFetch({m}).phase = "sent"
          BY NewFetchIsTyped
        <4>2. fetch'[q].awaited # {} /\ fetch'[q].phase = "sent"
          BY <3>1, <4>1
        <4> QED BY <4>2
      <3>2. CASE fetch'[q].joined /\ fetch'[q].awaited = fetch[q].awaited \cup {m}
        BY <3>2
      <3> QED BY <2>3, <3>1, <3>2, InvalidateIsTyped
    <2>4. CASE ~(Invalidate(m) /\ Invalidates(call[m], Query[q]))
      <3>1. fetch'[q] = fetch[q]
        BY <2>1, <2>4, InvalidateIsTyped
      <3> QED BY <1>2, <2>1, <2>2, <2>4, <3>1
    <2> QED BY <2>3, <2>4
  <1>6. CASE ~Apply(m) /\ ~Update(m) /\ ~OnSuccess(m) /\ ~OnSettled(m)
    <2>1. UNCHANGED <<cached, fetch, outrun>>
      BY <1>6 DEF Mutate, Step, Skip, Examine, Throw, Send, Reject, Reply, Done
    <2> QED BY <1>2, <1>6, <2>1
  <1> QED BY <1>3, <1>4, <1>5, <1>6

\* The query client's steps keep the invariant: a fetch brings what the server
\* has, or what a mutation still has to invalidate.
LEMMA ClientKeeps ==
    ASSUME TypeOK, HInv, NEW q \in Queries, Refetch(q) \/ Request(q)
    PROVE  HInv'
  <1>1. /\ UNCHANGED <<call, stage, result, todo, held, server>>
        /\ \A p \in Queries \ {q} : cached'[p] = cached[p] /\ fetch'[p] = fetch[p]
                                    /\ (p \in outrun' <=> p \in outrun)
    BY DEF Refetch, Request, Serve, Deliver, Fail, clickVars, TypeOK
  <1>2. AppliedIsSent' /\ Unanswered' /\ UpdatesReach'
    BY <1>1 DEF HInv, AppliedIsSent, Unanswered, UpdatesReach, Reaches
  <1>3. \A p \in Queries : /\ Reported(p)' <=> Reported(p)
                           /\ Due(p)' <=> Due(p)
                           /\ Current(p)' = Current(p)
    BY <1>1 DEF Reported, Reaches, Reports, Due, Owes, Succeeded, Current
  <1>4. fetch'[q].awaited \subseteq fetch[q].awaited
    <2>1. CASE Refetch(q)
      BY <2>1, NewFetchIsTyped DEF Refetch, TypeOK
    <2>2. CASE Serve(q)
      BY <2>2 DEF Serve, TypeOK, Fetches, Idle, NoFetch
    <2>3. CASE Deliver(q) \/ Fail(q)
      BY <2>3 DEF Deliver, Fail, TypeOK, Idle, NoFetch
    <2> QED BY <2>1, <2>2, <2>3 DEF Request
  <1>5. WaitersWait'
    BY <1>1, <1>4 DEF HInv, WaitersWait
  <1>6. /\ Reported(q) /\ Settled(q)' => (Fresh(q) \/ Due(q))' \/ fetch'[q].awaited # {}
        /\ Reported(q) /\ fetch'[q].phase = "served" /\ ~fetch'[q].joined =>
            fetch'[q].seen = Current(q) \/ Due(q)
    <2>1. CASE Refetch(q)
      <3>1. fetch[q].awaited = {}
        BY <2>1, NobodyAwaitsNoFetch DEF Refetch, TypeOK, Idle, NoFetch
      <3>2. fetch'[q].phase = "sent" /\ UNCHANGED <<cached, outrun>>
        BY <2>1, NewFetchIsTyped DEF Refetch, TypeOK
      <3> QED BY <1>3, <3>1, <3>2 DEF HInv, StaleIsDue, Settled, Fresh
    <2>2. CASE Serve(q)
      <3>1. fetch[q] \in Fetches
        BY <2>2, NobodyAwaitsNoFetch DEF Serve, TypeOK, Fetching
      <3>2. /\ fetch'[q].seen = Current(q) /\ fetch'[q].awaited = fetch[q].awaited
            /\ UNCHANGED <<cached, outrun>>
        BY <2>2, <3>1 DEF Serve, TypeOK, Fetches
      <3> QED BY <1>3, <3>2 DEF HInv, StaleIsDue, Settled, Fresh
    <2>3. CASE Deliver(q)
      <3>1. fetch'[q].phase = "idle"
        BY <2>3 DEF Deliver, TypeOK, Idle, NoFetch
      <3>2. cached'[q].seen = fetch[q].seen /\ cached'[q].guess = {}
        BY <2>3 DEF Deliver, TypeOK
      <3>3. Settled(q)' => ~fetch[q].joined
        BY <2>3 DEF Deliver, Settled
      <3> QED BY <1>3, <2>3, <3>1, <3>2, <3>3 DEF HInv, StaleAnswerIsDue, Deliver, Fresh
    <2>4. CASE Fail(q)
      <3>1. fetch'[q].phase = "idle"
        BY <2>4 DEF Fail, TypeOK, Idle, NoFetch
      <3>2. cached'[q].error
        BY <2>4 DEF Fail, TypeOK, Entries
      <3> QED BY <3>1, <3>2 DEF Settled
    <2> QED BY <2>1, <2>2, <2>3, <2>4 DEF Request
  <1>7. StaleIsDue'
    BY <1>1, <1>3, <1>6 DEF HInv, StaleIsDue, Settled, Fresh
  <1>8. StaleAnswerIsDue'
    BY <1>1, <1>3, <1>6 DEF HInv, StaleAnswerIsDue
  <1> QED BY <1>2, <1>5, <1>7, <1>8 DEF HInv

\* Whatever queries, mutations, options and adapters there are, and however
\* their callbacks, fetches and requests interleave: when no mutation is in
\* progress every query that was told of the mutations shows what the server
\* has, and no optimistic guess is left.
\* (setupInvalidation, setupOptimisticUpdate, optimisticUpdate)
THEOREM QueriesConverge == Spec => []QuiescentFresh
  <1>1. Init => HInv
    <2> SUFFICES ASSUME Init PROVE HInv
      OBVIOUS
    <2>1. \A q \in Queries : fetch[q].phase = "sent" /\ fetch[q].awaited = {}
      BY NewFetchIsTyped DEF Init
    <2>2. \A q \in Queries : ~cached[q].loaded
      BY DEF Init
    <2> QED BY <2>1, <2>2 DEF Init, HInv, StaleIsDue, StaleAnswerIsDue, Settled,
               WaitersWait, AppliedIsSent, Unanswered, UpdatesReach
  <1>2. TypeOK /\ TypeOK' /\ HInv /\ [Next]_vars => HInv'
    <2> SUFFICES ASSUME TypeOK, TypeOK', HInv, [Next]_vars PROVE HInv'
      OBVIOUS
    <2>1. CASE \E m \in Clicks : Mutate(m) \/ Step(m)
      BY <2>1, FreshnessKept, WaitersKept, BookkeepingKept DEF HInv
    <2>2. CASE \E q \in Queries : Refetch(q) \/ Request(q)
      BY <2>2, ClientKeeps
    <2>3. CASE UNCHANGED vars
      BY <2>3 DEF vars, clickVars, HInv, StaleIsDue, StaleAnswerIsDue, WaitersWait,
          AppliedIsSent, Unanswered, UpdatesReach, Reported, Reaches, Reports, Settled,
          Fresh, Due, Owes, Succeeded, Current
    <2> QED BY <2>1, <2>2, <2>3 DEF Next
  <1>3. TypeOK /\ HInv => QuiescentFresh
    <2> SUFFICES ASSUME TypeOK, HInv, AtRest, NEW q \in Queries, Reported(q), Settled(q)
                 PROVE  Fresh(q)
      BY DEF QuiescentFresh
    <2>1. ~Due(q)
      BY DEF AtRest, Due, Owes
    <2>2. fetch[q].awaited = {}
      <3>1. fetch[q].awaited \subseteq Clicks
        BY DEF TypeOK, Fetches, Idle, NoFetch
      <3> QED BY <3>1 DEF HInv, WaitersWait, AtRest
    <2> QED BY <2>1, <2>2 DEF HInv, StaleIsDue
  <1> QED BY <1>1, <1>2, <1>3, HooksTypeCorrect, PTL DEF Spec

\* Where the analyzer is complete, no query reads a model that a mutation changes by
\* a referential action the analyzer overlooks, and a provider changes no query that
\* its mutation leaves alone, every query settles fresh after mutations that
\* invalidate, as the option promises. (invalidateQueries, getMutatedModels)
THEOREM CoveredQueriesAreRefreshed ==
    ASSUME \A x \in Models : BaseTypes[x] = {},
           \A c \in Calls : c.args = "full" /\ (c.operation \in Deletes => c.nested = {}),
           \A q \in Queries : Query[q].filters \subseteq ReadModels(Query[q]),
           \A c \in Calls, q \in Queries : Overlooked(c) \cap ReadModels(Query[q]) = {},
           \A c \in Calls, q \in Queries :
                c.optimisticUpdate /\ c.provider[q] = "Update" => Invalidates(c, Query[q])
    PROVE  Spec => []AffectedQueriesAreRefreshed
  <1>1. ASSUME NEW c \in Calls
        PROVE  c.model \in Models /\ c.operation \in Operations /\ c.nested \in SUBSET Visits
    BY HooksAssumption DEF Mutations
  <1>2. ASSUME NEW c \in Calls, NEW q \in Queries,
               \/ Affects(c, Query[q])
               \/ MayApply(c, Query[q])
               \/ c.optimisticUpdate /\ c.provider[q] = "Update"
        PROVE  Invalidates(c, Query[q])
    BY <1>1, <1>2, AnalyzerIsComplete, DefaultUpdatesAreInvalidated
  <1>3. TypeOK /\ QuiescentFresh => AffectedQueriesAreRefreshed
    <2> SUFFICES ASSUME TypeOK, QuiescentFresh, AtRest,
                        \A m \in Clicks : stage[m] # "idle" =>
                            call[m].invalidateQueries /\ result[m] # "lost",
                        NEW q \in Queries, Settled(q)
                 PROVE  Fresh(q)
      BY DEF AffectedQueriesAreRefreshed
    <2>1. ASSUME NEW m \in Clicks, stage[m] # "idle", Reaches(m, q) PROVE Reports(m, q)
      <3>1. call[m] \in Calls
        BY <2>1 DEF TypeOK
      <3> QED BY <1>2, <2>1, <3>1 DEF Reaches, Reports
    <2> QED BY <2>1 DEF Reported, QuiescentFresh
  <1> QED BY <1>3, QueriesConverge, HooksTypeCorrect, PTL

(***************************************************************************)
(* Optimistic items                                                        *)
(***************************************************************************)
\* With react-v5 an optimistic update cancels what it would overtake.
NothingOvertaken ==
    adapter = "react-v5" => \A q \in Queries : ~fetch[q].overtaken

\* Whether it marks a fetch it leaves in flight depends on the framework.
LEMMA NothingIsOvertaken == Spec => []NothingOvertaken
  <1>1. \A W, phase : ~NewFetch(W).overtaken /\ ~NoFetch(phase).overtaken
    BY DEF NewFetch, NoFetch
  <1>2. Init => NothingOvertaken
    <2> SUFFICES ASSUME Init, NEW q \in Queries PROVE ~fetch[q].overtaken
      BY DEF NothingOvertaken
    <2>1. fetch[q] = NewFetch({})
      BY DEF Init
    <2> QED BY <1>1, <2>1
  <1>3. TypeOK /\ NothingOvertaken /\ [Next]_vars => NothingOvertaken'
    <2> SUFFICES ASSUME TypeOK, NothingOvertaken, [Next]_vars, adapter' = "react-v5",
                        NEW q \in Queries
                 PROVE  ~fetch'[q].overtaken
      BY DEF NothingOvertaken
    <2>0. adapter = "react-v5" /\ ~fetch[q].overtaken
      <3>1. adapter' = adapter
        BY DEF Next, vars, Refetch, Request, Serve, Deliver, Fail, Mutate, Step, Skip, Examine,
               Update, Throw, Send, Apply, Reject, Reply, OnSuccess, OnSettled, Done
      <3> QED BY <3>1 DEF NothingOvertaken
    <2>1. ASSUME NEW m \in Clicks, Invalidate(m) PROVE ~fetch'[q].overtaken
      <3>1. CASE Fetching(q) /\ ~cached[q].loaded
        <4>1. fetch[q] \in Fetches
          BY <3>1, NobodyAwaitsNoFetch DEF TypeOK
        <4> QED BY <1>1, <2>0, <2>1, <3>1, <4>1 DEF Invalidate, RefetchFor, Fetches
      <3> QED BY <1>1, <2>0, <2>1, <3>1 DEF Invalidate, RefetchFor
    <2>2. ASSUME NEW m \in Clicks, Mutate(m) \/ Step(m) PROVE ~fetch'[q].overtaken
      <3>1. CASE Update(m)
        <4>1. PICK h \in held[m] : SetCache(m, h)
          BY <3>1 DEF Update
        <4>2. fetch' = fetch \/ fetch' = [fetch EXCEPT ![h.query] = NoFetch("cancelled")]
          BY <2>0, <4>1 DEF SetCache, Cancel
        <4> QED BY <1>1, <2>0, <4>2 DEF TypeOK
      <3>2. CASE OnSuccess(m) \/ OnSettled(m)
        BY <2>0, <2>1, <3>2 DEF OnSuccess, OnSettled
      <3>3. CASE ~Update(m) /\ ~OnSuccess(m) /\ ~OnSettled(m)
        BY <2>0, <2>2, <3>3 DEF Mutate, Step, Skip, Examine, Throw, Send, Apply, Reject, Reply, Done
      <3> QED BY <3>1, <3>2, <3>3
    <2>3. ASSUME NEW p \in Queries, Refetch(p) \/ Request(p) PROVE ~fetch'[q].overtaken
      <3>1. CASE Refetch(p) \/ Deliver(p) \/ Fail(p)
        BY <1>1, <2>0, <3>1 DEF Refetch, Deliver, Fail, Idle, TypeOK
      <3>2. CASE Serve(p)
        <4>1. fetch[p] \in Fetches
          BY <3>2, NobodyAwaitsNoFetch DEF Serve, TypeOK, Fetching
        <4> QED BY <2>0, <3>2, <4>1 DEF Serve, TypeOK, Fetches
      <3> QED BY <2>3, <3>1, <3>2 DEF Request
    <2> QED BY <2>0, <2>2, <2>3 DEF Next, vars
  <1> QED BY <1>2, <1>3, HooksTypeCorrect, PTL DEF Spec

\* For every number of queries and mutations an optimistic item of the react-v5
\* adapter is never overwritten by the answer to a fetch that was under way when
\* it was put there. (optimisticUpdate, cancelQueries)
THEOREM GuessesYield == Spec => GuessesYieldToNewerFetches
  <1> DEFINE yields ==
        adapter = "react-v5" =>
            \A q \in Queries : \A m \in cached[q].guess \ cached'[q].guess :
                \/ fetch[q].phase = "served" /\ ~fetch[q].overtaken
                \/ \E n \in Clicks : \E h \in held[n] : h.query = q /\ m \notin h.guess
  <1>1. ASSUME TypeOK, NothingOvertaken, Next PROVE yields
    <2> SUFFICES ASSUME adapter = "react-v5", NEW q \in Queries,
                        NEW m \in cached[q].guess \ cached'[q].guess,
                        fetch[q].phase # "served"
                 PROVE  \E n \in Clicks : \E h \in held[n] : h.query = q /\ m \notin h.guess
      BY <1>1 DEF NothingOvertaken
    <2>1. ~\E p \in Queries : Refetch(p) \/ Request(p)
      <3> SUFFICES ASSUME NEW p \in Queries, Refetch(p) \/ Request(p) PROVE FALSE
        OBVIOUS
      <3>1. CASE Deliver(p)
        BY <1>1, <3>1 DEF Deliver, TypeOK
      <3>2. CASE Fail(p)
        BY <1>1, <3>2 DEF Fail, TypeOK, Entries
      <3>3. CASE Refetch(p) \/ Serve(p)
        BY <3>3 DEF Refetch, Serve
      <3> QED BY <3>1, <3>2, <3>3 DEF Request
    <2>2. PICK n \in Clicks : Update(n)
      BY <1>1, <2>1 DEF Next, Mutate, Step, Skip, Examine, Throw, Send, Apply, Reject, Reply,
          OnSuccess, OnSettled, Done
    <2>3. PICK h \in held[n] : SetCache(n, h)
      BY <2>2 DEF Update
    <2>4. h \in Reads
      BY <1>1 DEF TypeOK
    <2>5. h.query = q
      BY <1>1, <2>3, <2>4, SetCacheIsTyped
    <2>6. cached'[q].guess = h.guess \cup {n}
      BY <1>1, <2>3, <2>5 DEF SetCache, TypeOK
    <2> QED BY <2>5, <2>6
  <1>2. TypeOK /\ NothingOvertaken /\ [Next]_vars => [yields]_vars
    BY <1>1
  <1> QED BY <1>2, NothingIsOvertaken, HooksTypeCorrect, PTL
       DEF Spec, GuessesYieldToNewerFetches
=============================================================================
