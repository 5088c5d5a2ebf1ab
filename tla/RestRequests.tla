----------------------------- MODULE RestRequests -----------------------------
(***************************************************************************)
(* How the JSON:API handler takes a request apart (api/rest/index.ts): the *)
(* route, ids, filters, sorting, inclusions and payloads, made into a call *)
(* of the client by the metadata alone.                                    *)
(*                                                                         *)
(* A request is [method, type, id, linkage, relation, filters, sort,       *)
(* include, body].  A text is the sequence of its pieces between dividers, *)
(* each a "word", "digits" or "truth"; a parameter's value the sequence of *)
(* the texts between its commas.  Filters, sort and include give the names *)
(* on their way.  A body is what it says of attributes and relationships.  *)
(***************************************************************************)
EXTENDS ZodSchemas

Invalid == "invalid"
Undefined == "undefined"
Null == <<"null">>
NoBody == [attributes |-> <<>>, relationships |-> <<>>, matchFields |-> {}, given |-> FALSE]

-----------------------------------------------------------------------------
(* What is known of the models (buildTypeMap). *)

\* The first unique constraint.
GetIdFields(meta, m) ==
    LET constraints == meta.models[m].uniqueConstraints
        named(name) == CHOOSE f \in ToSet(meta.models[m].fields) : f.name = name
    IN IF constraints = <<>> THEN <<>>
       ELSE [i \in DOMAIN constraints[1] |-> named(constraints[1][i])]

KnownTypes(meta) == {m \in DOMAIN meta.models : GetIdFields(meta, m) # <<>>}

FieldNamed(meta, m, name) == {f \in ToSet(meta.models[m].fields) : f.name = name}

Relationships(meta, m) ==
    {f \in ToSet(meta.models[m].fields) : f.isDataModel /\ f.type \in KnownTypes(meta)}

-----------------------------------------------------------------------------
(* Ids. *)

Coerce(type, text) ==
    CASE type \in {"Int", "BigInt", "Float", "Decimal"} ->
           IF Head(text) = "digits" THEN "number" ELSE Invalid
      [] type = "Boolean" -> IF text = <<"truth">> THEN "boolean" ELSE Invalid
      [] OTHER -> "string"

Names(fields) == [i \in DOMAIN fields |-> fields[i].name]

\* makePrismaIdKey: the fields whose names make that of a compound id.
MakePrismaIdKey(ids) == IF Len(ids) > 1 THEN Names(ids) ELSE <<>>

\* Faulty: the parts of an id stay texts, of whatever type its fields are.
UncoercedIdFilter(meta, m, text) ==
    LET ids == GetIdFields(meta, m)
    IN [key |-> Names(ids), compound |-> MakePrismaIdKey(ids), of |-> [i \in DOMAIN ids |-> "string"]]

\* makePrismaIdFilter, makeIdConnect: the id text is split only where the id
\* has several fields.
MakePrismaIdFilter(meta, m, text) ==
    LET ids == GetIdFields(meta, m)
        part(i) == IF Len(ids) = 1 THEN Coerce(ids[i].type, text)
                   ELSE IF i \in DOMAIN text THEN Coerce(ids[i].type, <<text[i]>>)
                   ELSE Undefined
    IN [key |-> Names(ids), compound |-> MakePrismaIdKey(ids), of |-> [i \in DOMAIN ids |-> part(i)]]

\* processUpdate gives the id as it came, under the name of all its fields.
MakeRawId(meta, m, text) ==
    LET ids == GetIdFields(meta, m)
    IN [key |-> Names(ids), compound |-> MakePrismaIdKey(ids), of |-> <<"string">>]

\* makeUpsertWhere: by the id if it is compound and has one of the match
\* fields, or else by each field.
MakeUpsertWhere(meta, m, matchFields, attributes) ==
    LET ids == GetIdFields(meta, m)
        byId == Len(ids) > 1 /\ matchFields \cap ToSet(Names(ids)) # {}
        key == SetToSeq(matchFields)
        given(name) == IF name \in DOMAIN attributes THEN attributes[name] ELSE Null
    IN [key |-> key, compound |-> IF byId THEN Names(ids) ELSE <<>>, of |-> [i \in DOMAIN key |-> Head(given(key[i]))]]

-----------------------------------------------------------------------------
(* Filters, sorting and inclusions.  Each comes to a sequence of steps, or  *)
(* to none where it is refused.                                             *)

\* "id" is the first field of the id, by whatever name.
FilteredField(meta, m, key) ==
    LET ids == SelectSeq(meta.models[m].fields, LAMBDA f : f.isId)
    IN IF key # "id" THEN FieldNamed(meta, m, key)
       ELSE IF ids = <<>> THEN {} ELSE {Head(ids)}

\* buildFilter: all but the last key go along relations.
RECURSIVE FilterSteps(_, _, _)
FilterSteps(meta, m, keys) ==
    IF keys = <<>> THEN {<<>>}
    ELSE {<<f>> \o rest : f \in FilteredField(meta, m, Head(keys)),
                          rest \in IF Len(keys) = 1 THEN {<<>>}
                                   ELSE UNION {IF f.isDataModel /\ f.type \in KnownTypes(meta)
                                               THEN FilterSteps(meta, f.type, Tail(keys)) ELSE {}
                                               : f \in FilteredField(meta, m, Head(keys))}}

FilterOperations == {"lt", "lte", "gt", "gte", "contains", "icontains", "search",
                     "startsWith", "endsWith", "has", "hasEvery", "hasSome", "isEmpty"}

\* makeFilterValue: by whole value, by the texts between commas, or by ids.
\* Every operation begins by reading the whole value as the field's type.
MakeFilterValue(meta, f, op, texts) ==
    LET each == [i \in DOMAIN texts |-> Coerce(f.type, texts[i])]
        whole == IF f.type = "Boolean" /\ Len(texts) > 1 THEN Invalid
                 ELSE Coerce(f.type, Head(texts))
    IN IF f.isDataModel
       THEN [test |-> IF f.isArray THEN "some" ELSE "is",
             of |-> [i \in DOMAIN texts |-> MakePrismaIdFilter(meta, f.type, texts[i])]]
       ELSE IF whole = Invalid THEN [test |-> Invalid, of |-> <<>>]
       ELSE CASE op \in {"hasSome", "hasEvery"} -> [test |-> op, of |-> each]
              [] op = "isEmpty" ->
                   [test |-> IF texts = <<<<"truth">>>> THEN op ELSE Invalid, of |-> <<"boolean">>]
              [] op = None -> [test |-> IF Len(texts) > 1 THEN "in" ELSE "equals", of |-> each]
              [] OTHER -> [test |-> op, of |-> <<whole>>]

\* {} or the condition: the fields on the way, and the test of the last.
BuildFilter(meta, m, filter) ==
    {[way |-> way, test |-> MakeFilterValue(meta, Last(way), filter.op, filter.texts)] :
        way \in IF filter.op \in FilterOperations \cup {None}
                THEN FilterSteps(meta, m, filter.keys) ELSE {}}

\* buildSort: a relation at the end is sorted by the fields of its id.
RECURSIVE SortSteps(_, _, _)
SortSteps(meta, m, parts) ==
    LET found == {f \in FieldNamed(meta, m, Head(parts)) : ~f.isArray}
        known == {f \in found : f.isDataModel /\ f.type \in KnownTypes(meta)}
    IN IF Len(parts) = 1
       THEN {[way |-> <<f>>, by |-> <<>>] : f \in {g \in found : ~g.isDataModel}}
            \cup {[way |-> <<f>>, by |-> Names(GetIdFields(meta, f.type))] : f \in known}
       ELSE UNION {{[rest EXCEPT !.way = <<f>> \o @] : rest \in SortSteps(meta, f.type, Tail(parts))} :
                      f \in known}

\* buildRelationSelect
RECURSIVE Includable(_, _, _)
Includable(meta, m, path) ==
    path = <<>> \/ \E f \in Relationships(meta, m) :
                      f.name = Head(path) /\ Includable(meta, f.type, Tail(path))

\* A path that ends in a relation replaces what was included below it.
Include(selected, path) ==
    {p \in selected : ~IsStrictPrefix(path, p)} \cup {SubSeq(path, 1, n) : n \in DOMAIN path}
RelationSelect(paths) == FoldLeft(Include, {}, paths)

RelationshipIds(meta, m) == {<<f.name>> : f \in Relationships(meta, m)}

-----------------------------------------------------------------------------
(* Answers: a refusal, or a call and the status of its success. *)

NoCall == [op |-> None]
Refuse(status) == [status |-> status, call |-> NoCall]

EmptyCall(op, m) ==
    [op |-> op, model |-> m, where |-> [key |-> <<>>, compound |-> <<>>, of |-> <<>>], target |-> m, filters |-> {},
     sorts |-> {}, select |-> {}, data |-> <<>>, update |-> <<>>, links |-> {}]

\* The filters and sort orders of a list, where there is no fault in them.
Listed(meta, m, q) ==
    [filters |-> UNION {BuildFilter(meta, m, q.filters[i]) : i \in DOMAIN q.filters},
     sorts |-> UNION {SortSteps(meta, m, q.sort[i]) : i \in DOMAIN q.sort}]

\* A text that is none of its field's type.
BadTest(c) ==
    IF c.test.test \in {"some", "is"}
    THEN \E i \in DOMAIN c.test.of : Invalid \in ToSet(c.test.of[i].of)
    ELSE c.test.test = Invalid \/ Invalid \in ToSet(c.test.of)

BadList(meta, m, q) ==
    \/ \E i \in DOMAIN q.filters :
         LET built == BuildFilter(meta, m, q.filters[i])
         IN built = {} \/ \E c \in built : BadTest(c)
    \/ \E i \in DOMAIN q.sort : SortSteps(meta, m, q.sort[i]) = {}

BadInclude(meta, m, q) == \E i \in DOMAIN q.include : ~Includable(meta, m, q.include[i])

ById(meta, q, m, op) == [EmptyCall(op, m) EXCEPT !.where = MakePrismaIdFilter(meta, m, q.id)]

ProcessSingleRead(meta, m, q) ==
    IF BadInclude(meta, m, q) THEN Refuse(400)
    ELSE [status |-> 200,
          call |-> [ById(meta, q, m, "findUnique") EXCEPT
                      !.select = RelationshipIds(meta, m) \cup RelationSelect(q.include)]]

ProcessCollectionRead(meta, m, q) ==
    IF BadList(meta, m, q) \/ BadInclude(meta, m, q) THEN Refuse(400)
    ELSE [status |-> 200,
          call |-> [Listed(meta, m, q) @@ EmptyCall("findMany", m) EXCEPT
                      !.select = RelationshipIds(meta, m) \cup RelationSelect(q.include)]]

\* What is included is named from the model of the URL on; the relation itself
\* is not selected unless it is included, or a list.
ProcessFetchRelated(meta, m, q, f) ==
    LET selected == IF q.include = <<>> THEN {<<f.name>>} ELSE RelationSelect(q.include)
        call == [ById(meta, q, m, "findUnique") EXCEPT !.target = f.type, !.select = selected]
    IN IF BadInclude(meta, m, q) \/ (f.isArray /\ BadList(meta, f.type, q)) THEN Refuse(400)
       ELSE IF f.isArray
       THEN [status |-> 200, call |-> [Listed(meta, f.type, q) @@ call EXCEPT
                                         !.select = @ \cup {<<f.name>>}]]
       ELSE [status |-> IF <<f.name>> \in selected THEN 200 ELSE 404, call |-> call]

ProcessReadRelationship(meta, m, q, f) ==
    LET call == [ById(meta, q, m, "findUnique") EXCEPT
                   !.target = f.type, !.select = {<<f.name>>}]
    IN IF ~f.isArray THEN [status |-> 200, call |-> call]
       ELSE IF BadList(meta, f.type, q) THEN Refuse(400)
       ELSE [status |-> 200, call |-> Listed(meta, f.type, q) @@ call]

-----------------------------------------------------------------------------
(* Writes. *)

\* processRequestBody: attributes are checked by the zod schema, if there is one; a
\* body as documented has attributes, if none other than {}.
Unprocessable(zod, m, q, schema) ==
    /\ m \in DOMAIN zod
    /\ ~Parses(zod[m][schema], DOMAIN q.body.attributes)

\* A relationship of a payload names one resource, or a list of them.
BadRelationships(meta, m, q) ==
    \E r \in DOMAIN q.body.relationships :
        \/ q.body.relationships[r].kind = "null"
        \/ ~\E f \in Relationships(meta, m) : f.name = r

Link(relation, verb, ids) == [relation |-> relation, verb |-> verb, ids |-> ids]

\* The relationships of a payload: `many` is the verb for lists.
Linked(meta, m, q, many, makeId(_, _, _)) ==
    {Link(f.name, IF f.isArray THEN many ELSE "connect",
          {makeId(meta, f.type, text) : text \in ToSet(q.body.relationships[f.name].ids)}) :
        f \in {g \in Relationships(meta, m) : g.name \in DOMAIN q.body.relationships}}

ProcessCreate(meta, zod, m, q) ==
    IF Unprocessable(zod, m, q, "CreateScalar") THEN Refuse(422)
    ELSE IF BadRelationships(meta, m, q) THEN Refuse(400)
    ELSE [status |-> 201,
          call |-> [EmptyCall("create", m) EXCEPT
                      !.data = q.body.attributes, !.select = RelationshipIds(meta, m),
                      !.links = Linked(meta, m, q, "connect", MakePrismaIdFilter)]]

\* The match fields cover some unique constraint.
ProcessUpsert(meta, zod, m, q) ==
    LET fields == q.body.matchFields
    IN IF Unprocessable(zod, m, q, "CreateScalar") THEN Refuse(422)
       ELSE IF ~\E u \in ToSet(meta.models[m].uniqueConstraints) : ToSet(u) \subseteq fields
       THEN Refuse(400)
       ELSE IF BadRelationships(meta, m, q) THEN Refuse(400)
       ELSE [status |-> 201,
             call |-> [EmptyCall("upsert", m) EXCEPT
                         !.where = MakeUpsertWhere(meta, m, fields, q.body.attributes),
                         !.data = q.body.attributes, !.select = RelationshipIds(meta, m),
                         !.update = [k \in DOMAIN q.body.attributes \ fields |-> q.body.attributes[k]],
                         !.links = Linked(meta, m, q, "connect", MakePrismaIdFilter)
                                   \cup Linked(meta, m, q, "set", MakePrismaIdFilter)]]

ProcessUpdate(meta, zod, m, q) ==
    IF Unprocessable(zod, m, q, "UpdateScalar") THEN Refuse(422)
    ELSE IF BadRelationships(meta, m, q) THEN Refuse(400)
    ELSE [status |-> 200,
          call |-> [ById(meta, q, m, "update") EXCEPT
                      !.data = q.body.attributes, !.select = RelationshipIds(meta, m),
                      !.links = Linked(meta, m, q, "set", MakeRawId)]]

\* create connects, delete disconnects and update sets; a to-one relationship is
\* updated only.  The body of q holds the one relationship.
ProcessRelationshipCRUD(meta, m, q, f) ==
    LET body == q.body.relationships[f.name]
        call(verb) ==
            [ById(meta, q, m, "update") EXCEPT
                !.target = f.type, !.select = {<<f.name>>},
                !.links = {Link(f.name, verb,
                             {MakePrismaIdFilter(meta, f.type, text) : text \in ToSet(body.ids)})}]
        many == [POST |-> "connect", DELETE |-> "disconnect", PUT |-> "set", PATCH |-> "set"]
    IN IF f.isArray
       THEN IF body.kind # "many" THEN Refuse(400)
            ELSE [status |-> 200, call |-> call(many[q.method])]
       ELSE IF q.method \in {"POST", "DELETE"} \/ body.kind = "many" THEN Refuse(400)
       ELSE IF body.kind = "one" THEN [status |-> 200, call |-> call("connect")]
       ELSE IF f.isOptional THEN [status |-> 200, call |-> call("disconnect")]
       ELSE Refuse(400)

-----------------------------------------------------------------------------
(* The links of a resource (buildSerializers): itself, and each relation's  *)
(* linkage and related resources, these by the model's own name.            *)

Request(method, type, id) ==
    [method |-> method, type |-> type, id |-> id, linkage |-> FALSE, relation |-> None,
     filters |-> <<>>, sort |-> <<>>, include |-> <<>>, body |-> NoBody]

MapModelName(mapping, m) == IF m \in DOMAIN mapping THEN mapping[m] ELSE m

LinksOf(meta, mapping, m, id) ==
    LET self == Request("GET", MapModelName(mapping, m), id)
    IN {self}
       \cup {[self EXCEPT !.relation = f.name, !.linkage = TRUE] : f \in Relationships(meta, m)}
       \cup {[self EXCEPT !.relation = f.name, !.type = m] : f \in Relationships(meta, m)}

-----------------------------------------------------------------------------
(* Routes. *)

Pattern(q) ==
    IF q.id = <<>> THEN "collection"
    ELSE IF q.relation = None THEN "single"
    ELSE IF q.linkage THEN "relationship" ELSE "fetchRelationship"

Routes ==
    {"GET"} \X {"single", "fetchRelationship", "relationship", "collection"}
    \cup {"POST"} \X {"collection", "relationship"}
    \cup {"PUT", "PATCH"} \X {"single", "relationship"}
    \cup {"DELETE"} \X {"single", "relationship"}

\* matchUrlPattern: a model that has another name is known by that name only.
TypeOf(mapping, type) ==
    {m \in DOMAIN mapping : mapping[m] = type}
    \cup (IF type \in DOMAIN mapping \/ \E m \in DOMAIN mapping : mapping[m] = type
          THEN {} ELSE {type})

Process(meta, zod, m, q) ==
    LET pattern == Pattern(q)
        relation == {f \in Relationships(meta, m) : f.name = q.relation}
        the == CHOOSE f \in relation : TRUE
    IN IF pattern \in {"relationship", "fetchRelationship"} /\ relation = {} THEN Refuse(404)
       ELSE CASE q.method = "GET" /\ pattern = "single" -> ProcessSingleRead(meta, m, q)
              [] q.method = "GET" /\ pattern = "collection" -> ProcessCollectionRead(meta, m, q)
              [] pattern = "fetchRelationship" -> ProcessFetchRelated(meta, m, q, the)
              [] q.method = "GET" -> ProcessReadRelationship(meta, m, q, the)
              [] pattern = "relationship" -> ProcessRelationshipCRUD(meta, m, q, the)
              [] pattern = "collection" /\ q.body.matchFields # {} -> ProcessUpsert(meta, zod, m, q)
              [] pattern = "collection" -> ProcessCreate(meta, zod, m, q)
              [] q.method = "DELETE" ->
                   [status |-> 200, call |-> ById(meta, q, m, "delete")]
              [] OTHER -> ProcessUpdate(meta, zod, m, q)

\* An id that does not fit its field's type is refused on the way.
BadId(response) ==
    response.call # NoCall /\
        \/ Invalid \in ToSet(response.call.where.of)
        \/ \E link \in response.call.links : \E id \in link.ids : Invalid \in ToSet(id.of)

HandleRequest(meta, zod, mapping, q) ==
    IF \/ q.method \in {"POST", "PUT", "PATCH"} /\ ~q.body.given
       \/ <<q.method, Pattern(q)>> \notin Routes
       \/ TypeOf(mapping, q.type) = {}
    THEN Refuse(400)
    ELSE LET m == CHOOSE k \in TypeOf(mapping, q.type) : TRUE
         IN IF m \notin KnownTypes(meta) THEN Refuse(404)
            ELSE LET response == Process(meta, zod, m, q)
                 IN IF BadId(response) THEN Refuse(400) ELSE response
=============================================================================
