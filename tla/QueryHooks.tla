---------------------------- MODULE QueryHooks ----------------------------
(***************************************************************************)
(* The runtime of the generated TanStack Query hooks: mutations with       *)
(* optimistic updates and invalidation (plugins/tanstack-query/src/        *)
(* runtime/common.ts and the useModelMutation of each framework), the      *)
(* query cache they share, and the requests in flight between them and the *)
(* server.                                                                 *)
(*                                                                         *)
(* Of the server's data a model keeps which mutations have been applied:   *)
(* of a query result, which of those it shows (seen) and which it only     *)
(* anticipates (guess, the items marked $optimistic).  All queries are     *)
(* observed; the network settles every request, as success or as failure.  *)
(***************************************************************************)
EXTENDS QueryAnalyzer

CONSTANTS
    Queries,    \* the entries of the query cache
    Query,      \* the query key of each
    Clicks,     \* calls of mutate() in a run
    Calls,      \* mutations and hook options to choose from
    Adapters,   \* frameworks to choose from
    NoCall      \* "not called yet"

Providers == [Queries -> {"Update", "Skip", "ProceedDefault"}]

\* A provider that always proceeds is the same as none.
ASSUME HooksAssumption ==
    /\ Query \in [Queries -> QueryKeys]
    /\ \A c \in Calls :
        /\ [model |-> c.model, operation |-> c.operation,
            args |-> c.args, nested |-> c.nested, rekeyed |-> c.rekeyed] \in Mutations
        /\ c.invalidateQueries \in BOOLEAN
        /\ c.optimisticUpdate \in BOOLEAN
        /\ c.provider \in Providers
    /\ NoCall \notin Calls
    /\ Adapters \subseteq {"react-v5", "other"}

VARIABLES
    adapter,    \* "react-v5" cancels fetches on an optimistic update, others do not
    call,       \* the mutation each click runs
    stage,      \* where its callbacks are
    result,     \* how its request ended
    todo,       \* cache entries optimisticUpdate has not come to yet
    held,       \* the entry it read before awaiting, at most one
    server,     \* mutations applied by the server
    cached,     \* the state of each cache entry
    fetch,      \* its fetch in flight
    outrun      \* entries filled by a first load that an invalidation joined

clickVars == <<call, stage, result, todo, held>>
vars == <<adapter, clickVars, server, cached, fetch, outrun>>

Entries == [loaded : BOOLEAN, seen : SUBSET Clicks, guess : SUBSET Clicks, error : BOOLEAN]
Reads == [query : Queries, seen : SUBSET Clicks, guess : SUBSET Clicks]

\* awaited are the clicks whose invalidation waits for the fetch; joined, that
\* one of them found it under way; overtaken, that an optimistic update did.
Fetches == [phase : {"sent", "served"}, seen : SUBSET Clicks, awaited : SUBSET Clicks,
            joined : BOOLEAN, overtaken : BOOLEAN]
NoFetch(phase) == [phase |-> phase, seen |-> {}, awaited |-> {},
                   joined |-> FALSE, overtaken |-> FALSE]
Idle == NoFetch("idle")

Stages == {"idle", "updating", "sent", "applied", "answered",
           "succeeding", "settling", "done"}

TypeOK ==
    /\ adapter \in Adapters
    /\ call \in [Clicks -> Calls \cup {NoCall}]
    /\ stage \in [Clicks -> Stages]
    /\ \A m \in Clicks : call[m] = NoCall <=> stage[m] = "idle"
    /\ result \in [Clicks -> {"none", "ok", "refused", "lost"}]
    /\ todo \in [Clicks -> SUBSET Queries]
    /\ held \in [Clicks -> SUBSET Reads]
    /\ server \in SUBSET Clicks
    /\ cached \in [Queries -> Entries]
    /\ fetch \in [Queries -> Fetches \cup {Idle, NoFetch("cancelled")}]
    /\ outrun \in SUBSET Queries

Fetching(q) == fetch[q].phase \in {"sent", "served"}

\* What the server would answer now.
Current(q) == {m \in server : Affects(call[m], Query[q])}

NewFetch(waiting) == [NoFetch("sent") EXCEPT !.awaited = waiting]

Init ==
    /\ adapter \in Adapters
    /\ call = [m \in Clicks |-> NoCall]
    /\ stage = [m \in Clicks |-> "idle"]
    /\ result = [m \in Clicks |-> "none"]
    /\ todo = [m \in Clicks |-> {}]
    /\ held = [m \in Clicks |-> {}]
    /\ server = {}
    /\ cached = [q \in Queries |->
                    [loaded |-> FALSE, seen |-> {}, guess |-> {}, error |-> FALSE]]
    /\ fetch = [q \in Queries |-> NewFetch({})]
    /\ outrun = {}

(***************************************************************************)
(* The query client                                                        *)
(***************************************************************************)
\* Window focus, remount, reconnection or the application refetches.
Refetch(q) ==
    /\ ~Fetching(q)
    /\ fetch' = [fetch EXCEPT ![q] = NewFetch({})]
    /\ UNCHANGED <<adapter, clickVars, server, cached, outrun>>

\* The server reads its data; the answer is on its way.
Serve(q) ==
    /\ fetch[q].phase = "sent"
    /\ fetch' = [fetch EXCEPT ![q].phase = "served", ![q].seen = Current(q)]
    /\ UNCHANGED <<adapter, clickVars, server, cached, outrun>>

Deliver(q) ==
    /\ fetch[q].phase = "served"
    /\ cached' = [cached EXCEPT ![q] =
            [loaded |-> TRUE, seen |-> fetch[q].seen, guess |-> {}, error |-> FALSE]]
    /\ outrun' = IF fetch[q].joined THEN outrun \cup {q} ELSE outrun \ {q}
    /\ fetch' = [fetch EXCEPT ![q] = Idle]
    /\ UNCHANGED <<adapter, clickVars, server>>

\* All retries have failed: the entry keeps its data beside the error.
Fail(q) ==
    /\ Fetching(q)
    /\ cached' = [cached EXCEPT ![q].error = TRUE]
    /\ fetch' = [fetch EXCEPT ![q] = Idle]
    /\ UNCHANGED <<adapter, clickVars, server, outrun>>

\* Faulty: an invalidation joins whatever fetch is in flight.
JoinsFetch(m, q) ==
    IF Fetching(q) THEN [fetch[q] EXCEPT !.awaited = @ \cup {m}] ELSE NewFetch({m})

\* invalidateQueries: a fetch in flight is cancelled and started again, except
\* that a first load is joined.
RefetchFor(m, q) ==
    IF Fetching(q) /\ ~cached[q].loaded
    THEN [fetch[q] EXCEPT !.awaited = @ \cup {m}, !.joined = TRUE]
    ELSE NewFetch({m})

Invalidate(m) ==
    fetch' = [q \in Queries |->
        IF Invalidates(call[m], Query[q]) THEN RefetchFor(m, q) ELSE fetch[q]]

\* Faulty: waits while anything is being fetched.
AwaitsAnyFetch(m) == \E q \in Queries : Fetching(q)

Awaits(m) == \E q \in Queries : m \in fetch[q].awaited

(***************************************************************************)
(* The optimistic update                                                   *)
(***************************************************************************)
MoveTo(m, s) == stage' = [stage EXCEPT ![m] = s]

\* mutate(): onMutate comes before the request.
Mutate(m) ==
    /\ stage[m] = "idle"
    /\ \E c \in Calls :
        /\ call' = [call EXCEPT ![m] = c]
        /\ IF c.optimisticUpdate
           THEN MoveTo(m, "updating") /\ todo' = [todo EXCEPT ![m] = Queries]
           ELSE MoveTo(m, "sent") /\ UNCHANGED todo
    /\ UNCHANGED <<adapter, result, held, server, cached, fetch, outrun>>

\* Before its first await the loop body looks at the entry's error and opt-in.
Takes(q) == ~cached[q].error /\ Query[q].optIn

\* The provider's word, then the default.
MayUpdate(m, q) ==
    \/ call[m].provider[q] = "Update"
    \/ /\ call[m].provider[q] = "ProceedDefault"
       /\ MayApply(call[m], Query[q])
       /\ cached[q].loaded

Skip(m, q) ==
    /\ stage[m] = "updating" /\ held[m] = {} /\ q \in todo[m]
    /\ ~(Takes(q) /\ call[m].provider[q] = "Update")
    /\ todo' = [todo EXCEPT ![m] = @ \ {q}]
    /\ UNCHANGED <<adapter, call, stage, result, held, server, cached, fetch, outrun>>

Examine(m, q) ==
    /\ stage[m] = "updating" /\ held[m] = {} /\ q \in todo[m]
    /\ Takes(q) /\ MayUpdate(m, q)
    /\ held' = [held EXCEPT ![m] =
            {[query |-> q, seen |-> cached[q].seen, guess |-> cached[q].guess]}]
    /\ todo' = [todo EXCEPT ![m] = @ \ {q}]
    /\ UNCHANGED <<adapter, call, stage, result, server, cached, fetch, outrun>>

\* Faulty: cancelling forgets who waits for the fetch.
CancelKeepingWaiters(q) == [fetch EXCEPT ![q].phase = "cancelled"]

\* cancelQueries with silent: those that wait for the fetch go on.
Cancel(q) == [fetch EXCEPT ![q] = NoFetch("cancelled")]

\* Faulty: like the other frameworks, react-v5 lets the fetch go on.
SetCacheOnly(m, h) ==
    /\ cached' = [cached EXCEPT ![h.query] =
            [loaded |-> TRUE, seen |-> h.seen, guess |-> h.guess \cup {m}, error |-> FALSE]]
    /\ fetch' = [fetch EXCEPT ![h.query].overtaken = Fetching(h.query)]

\* setQueryData with what was computed from the entry as it was read, and the
\* cancellation of the fetch in flight.
SetCache(m, h) ==
    /\ cached' = [cached EXCEPT ![h.query] =
            [loaded |-> TRUE, seen |-> h.seen, guess |-> h.guess \cup {m}, error |-> FALSE]]
    /\ fetch' = IF ~Fetching(h.query) THEN fetch
                 ELSE IF adapter = "react-v5" THEN Cancel(h.query)
                 ELSE [fetch EXCEPT ![h.query].overtaken = TRUE]

Update(m) ==
    /\ \E h \in held[m] : SetCache(m, h)
    /\ held' = [held EXCEPT ![m] = {}]
    /\ UNCHANGED <<adapter, call, stage, result, todo, server, outrun>>

\* The provider or the application's own onMutate throws: no request is made,
\* and the mutation settles as one that failed.
Throw(m) ==
    /\ stage[m] = "updating"
    /\ todo' = [todo EXCEPT ![m] = {}]
    /\ held' = [held EXCEPT ![m] = {}]
    /\ result' = [result EXCEPT ![m] = "refused"]
    /\ MoveTo(m, "answered")
    /\ UNCHANGED <<adapter, call, server, cached, fetch, outrun>>

Send(m) ==
    /\ stage[m] = "updating" /\ todo[m] = {} /\ held[m] = {}
    /\ MoveTo(m, "sent")
    /\ UNCHANGED <<adapter, call, result, todo, held, server, cached, fetch, outrun>>

(***************************************************************************)
(* The request                                                             *)
(***************************************************************************)
Apply(m) ==
    /\ stage[m] = "sent"
    /\ server' = server \cup {m}
    /\ MoveTo(m, "applied")
    /\ UNCHANGED <<adapter, call, result, todo, held, cached, fetch, outrun>>

\* The server refuses, or the request does not reach it.
Reject(m) ==
    /\ stage[m] = "sent"
    /\ result' = [result EXCEPT ![m] = "refused"]
    /\ MoveTo(m, "answered")
    /\ UNCHANGED <<adapter, call, todo, held, server, cached, fetch, outrun>>

\* Hooks are generated with checkReadBack for the operations that return a row.
ReadsBack(c) == c.operation \in {"create", "update", "upsert", "delete"}

\* fetcher: an unreadable result is a success without a value.
Fetched(answer) == IF answer = "unreadable" THEN "ok" ELSE answer

\* The server's answer is a result, or an error because it may not be read, or
\* does not arrive.
Reply(m) ==
    /\ stage[m] = "applied"
    /\ \E answer \in {"ok", "lost"} \cup (IF ReadsBack(call[m]) THEN {"unreadable"} ELSE {}) :
        result' = [result EXCEPT ![m] = Fetched(answer)]
    /\ MoveTo(m, "answered")
    /\ UNCHANGED <<adapter, call, todo, held, server, cached, fetch, outrun>>

Succeeded(m) == result[m] = "ok"

(***************************************************************************)
(* Settlement                                                              *)
(***************************************************************************)
OnSuccess(m) ==
    /\ stage[m] = "answered" /\ Succeeded(m)
    /\ IF call[m].invalidateQueries THEN Invalidate(m) ELSE UNCHANGED fetch
    /\ MoveTo(m, "succeeding")
    /\ UNCHANGED <<adapter, call, result, todo, held, server, cached, outrun>>

\* setupOptimisticUpdate invalidates once more, whatever the outcome.
InvalidatesOnSettled(m) == call[m].optimisticUpdate /\ call[m].invalidateQueries

OnSettled(m) ==
    /\ \/ stage[m] = "answered" /\ ~Succeeded(m)
       \/ stage[m] = "succeeding" /\ ~Awaits(m)
    /\ IF InvalidatesOnSettled(m) THEN Invalidate(m) ELSE UNCHANGED fetch
    /\ MoveTo(m, "settling")
    /\ UNCHANGED <<adapter, call, result, todo, held, server, cached, outrun>>

\* mutateAsync() resolves: the invalidated queries have been fetched.
Done(m) ==
    /\ stage[m] = "settling" /\ ~Awaits(m)
    /\ MoveTo(m, "done")
    /\ UNCHANGED <<adapter, call, result, todo, held, server, cached, fetch, outrun>>

Step(m) ==
    \/ \E q \in Queries : Skip(m, q) \/ Examine(m, q)
    \/ Update(m) \/ Throw(m) \/ Send(m)
    \/ Apply(m) \/ Reject(m) \/ Reply(m)
    \/ OnSuccess(m) \/ OnSettled(m) \/ Done(m)

Request(q) == Serve(q) \/ Deliver(q) \/ Fail(q)

Next ==
    \/ \E m \in Clicks : Mutate(m) \/ Step(m)
    \/ \E q \in Queries : Refetch(q) \/ Request(q)

\* The event loop continues what has been awaited, and requests end.
Fairness ==
    /\ \A m \in Clicks : WF_vars(Step(m))
    /\ \A q \in Queries : WF_vars(Request(q))

Spec == Init /\ [][Next]_vars /\ Fairness

(***************************************************************************)
(* Properties                                                              *)
(***************************************************************************)
AtRest == \A m \in Clicks : stage[m] \in {"idle", "done"}

Fresh(q) == cached[q].seen = Current(q) /\ cached[q].guess = {}

\* The mutation may change what the entry holds, at the server or in the cache.
Reaches(m, q) ==
    \/ Affects(call[m], Query[q])
    \/ /\ call[m].optimisticUpdate
       /\ \/ call[m].provider[q] = "Update"
          \/ call[m].provider[q] = "ProceedDefault" /\ MayApply(call[m], Query[q])

\* The hook is there to tell the entry: it has not been told not to, the
\* analyzer finds the entry, and a success is not taken for a failure (an
\* optimistic mutation invalidates after a failure too).
Reports(m, q) ==
    /\ call[m].invalidateQueries
    /\ Invalidates(call[m], Query[q])
    /\ call[m].optimisticUpdate \/ result[m] # "lost"

Reported(q) ==
    \A m \in Clicks : stage[m] # "idle" /\ Reaches(m, q) => Reports(m, q)

Settled(q) == cached[q].loaded /\ ~cached[q].error /\ q \notin outrun

\* When no mutation is in progress every query shows what the server has, and
\* no optimistic item is left, however fetches, optimistic updates and
\* invalidations of several mutations interleaved: the refetch is awaited
\* before a mutation settles, and an update that overwrites fresh data is
\* followed by the invalidation of its own mutation.  Queries are excepted
\* that an unreported mutation reaches, whose fetch failed, or whose first load
\* was already in flight when they were invalidated.
\* (setupInvalidation, setupOptimisticUpdate, fetcher)
QuiescentFresh ==
    AtRest => \A q \in Queries : Reported(q) /\ Settled(q) => Fresh(q)

\* With the react-v5 adapter an optimistic item disappears from a query only
\* for data requested after it was put there, never for the answer to a fetch
\* it overtook; or because another optimistic update had read the entry before.
\* (optimisticUpdate, the cancelQueries of useModelMutation)
GuessesYieldToNewerFetches ==
    [][adapter = "react-v5" =>
        \A q \in Queries : \A m \in cached[q].guess \ cached'[q].guess :
            \/ fetch[q].phase = "served" /\ ~fetch[q].overtaken
            \/ \E n \in Clicks : \E h \in held[n] : h.query = q /\ m \notin h.guess]_vars

\* Every mutation settles: what its callbacks await ends, although the fetches
\* it waits for are cancelled and restarted by others.
\* (setupInvalidation, setupOptimisticUpdate)
EveryMutationSettles ==
    \A m \in Clicks : stage[m] # "idle" ~> stage[m] = "done"

\* common.ts says of invalidateQueries "Whether to automatically invalidate
\* queries potentially affected by the mutation. Defaults to `true`."
AffectedQueriesAreRefreshed ==
    AtRest /\ (\A m \in Clicks : stage[m] # "idle" =>
                    call[m].invalidateQueries /\ result[m] # "lost")
    => \A q \in Queries : Settled(q) => Fresh(q)
=============================================================================
