------------------------------ MODULE OpenApiRest ------------------------------
(***************************************************************************)
(* The OpenAPI document of the JSON:API (openapi/src/rest-generator.ts):   *)
(* the operations on a model, with their parameters and payloads, made     *)
(* from the schema as the handler's calls are made from the metadata.      *)
(*                                                                         *)
(* An operation is [method, type, model, byId, linkage, relation, include, *)
(* sort, filters, payload]; payload tells the component its body refers to.*)
(***************************************************************************)
EXTENDS RestRequests

\* fieldTypeToOpenAPISchema, as the JSON value and the text a client writes.
JsonOf(type) ==
    CASE type \in {"Int", "BigInt", "Float"} -> "number"
      [] type = "Boolean" -> "boolean"
      [] OTHER -> "string"

TextOf(type) ==
    CASE JsonOf(type) = "number" -> "digits" [] JsonOf(type) = "boolean" -> "truth" [] OTHER -> "word"

\* makeFilterParameter: its key, its operation, the field it is about, the
\* type of its texts, and whether there may be several.
FilterParameter(f, key, op, list) ==
    [key |-> key, op |-> op, field |-> f.name, type |-> f.type, list |-> list]

Comparable == {"Int", "BigInt", "Float", "Decimal", "DateTime"}
Comparisons == {"lt", "lte", "gt", "gte"}
StringTests == {"contains", "icontains", "search", "startsWith", "endsWith"}

FieldFilters(s, f) ==
    LET test(op) == FilterParameter(f, f.name, op, FALSE)
    IN {FilterParameter(f, f.name, None, f.array)}
       \cup IF IsRelation(s, f) THEN {}
            ELSE IF f.array
            THEN {test("has"), FilterParameter(f, f.name, "hasEvery", TRUE),
                  FilterParameter(f, f.name, "hasSome", TRUE),
                  [test("isEmpty") EXCEPT !.type = "Boolean"]}
            ELSE {test(op) : op \in IF f.type \in Comparable THEN Comparisons ELSE {}}
                 \cup {test(op) : op \in IF f.type = "String" THEN StringTests ELSE {}}

\* A single id is filtered as "id", each part of a compound one by its name.
GenerateFilterParameters(s, m) ==
    LET ids == SelectSeq(s[m].fields, LAMBDA f : IsIdField(s, f))
        single(f) == IsIdField(s, f) /\ Len(ids) = 1
        fields == {f \in ToSet(s[m].fields) : ~IsForeignKey(s, f)}
    IN UNION {IF single(f) THEN {FilterParameter(f, "id", None, FALSE)} ELSE FieldFilters(s, f) :
                 f \in fields}

\* generateModelEntity, of inputs: the id beside the attributes if it is single,
\* the attributes and those that are required, and the relationships.
GenerateModelEntity(s, m, mode) ==
    LET ids == SelectSeq(s[m].fields, LAMBDA f : IsIdField(s, f))
        shown == {f \in ToSet(s[m].fields) : Len(ids) > 1 \/ ~IsIdField(s, f)}
        fields == {f \in shown : ~IsForeignKey(s, f)}
        scalars == {f \in fields : ~IsRelation(s, f)}
        value(name) == CHOOSE f \in scalars : f.name = name
        json(f) == IF f.array THEN <<"list", JsonOf(f.type)>> ELSE <<JsonOf(f.type)>>
    IN [id |-> IF mode = "update" THEN TRUE ELSE Len(ids) = 1 /\ ~Head(ids).default,
        attributes |-> [name \in {f.name : f \in scalars} |-> json(value(name))],
        required |-> IF mode = "update" THEN {}
                     ELSE {f.name : f \in {g \in scalars : ~g.optional /\ ~g.default}},
        relationships |-> {[name |-> f.name, many |-> f.array, type |-> f.type,
                            nullable |-> f.optional] : f \in fields \ scalars}]

-----------------------------------------------------------------------------
Operation(mapping, m, method, byId) ==
    [method |-> method, type |-> MapModelName(mapping, m), model |-> m, byId |-> byId,
     linkage |-> FALSE, relation |-> None, include |-> FALSE, sort |-> FALSE, filters |-> {},
     payload |-> None]

\* What can be asked of a list: its filters are those of the model it is a
\* list of, or, where it is a relation's, of the model the relation is of.
OfList(s, m, operation) ==
    [operation EXCEPT !.sort = TRUE, !.filters = GenerateFilterParameters(s, m)]

MakeResources(s, mapping, m) ==
    LET all(method) == Operation(mapping, m, method, FALSE)
        one(method) == Operation(mapping, m, method, TRUE)
    IN {OfList(s, m, [all("GET") EXCEPT !.include = TRUE]),
        [all("POST") EXCEPT !.payload = "create"],
        [one("GET") EXCEPT !.include = TRUE], one("DELETE"),
        [one("PUT") EXCEPT !.payload = "update"], [one("PATCH") EXCEPT !.payload = "update"]}

MakeRelated(s, mapping, m, f) ==
    LET get == [Operation(mapping, m, "GET", TRUE) EXCEPT !.relation = f.name, !.include = TRUE]
    IN {IF f.array THEN OfList(s, m, get) ELSE get}

MakeRelationships(s, mapping, m, f) ==
    LET on(method) == [Operation(mapping, m, method, TRUE) EXCEPT
                         !.relation = f.name, !.linkage = TRUE]
        payload == IF f.array THEN "toMany" ELSE "toOne"
    IN {IF f.array THEN OfList(s, m, on("GET")) ELSE on("GET")}
       \cup {[on(method) EXCEPT !.payload = payload] :
                method \in {"PUT", "PATCH"} \cup (IF f.array THEN {"POST"} ELSE {})}

GeneratePaths(s, mapping) ==
    UNION {MakeResources(s, mapping, m)
           \cup UNION {MakeRelated(s, mapping, m, f) \cup MakeRelationships(s, mapping, m, f) :
                          f \in ToSet(RelationFields(s, m))} : m \in DOMAIN s}

-----------------------------------------------------------------------------
(* What a client may send that goes by the document.                        *)

\* The id of some resource, as the handler makes them.
IdText(meta, m) ==
    LET ids == GetIdFields(meta, m) IN [i \in DOMAIN ids |-> TextOf(ids[i].type)]

Value(meta, p) ==
    LET text == IF p.type \in DOMAIN meta.models THEN IdText(meta, p.type) ELSE <<TextOf(p.type)>>
    IN IF p.list THEN {<<text>>, <<text, text>>} ELSE {<<text>>}

Paths(meta, m, n) ==
    LET names(k) == {f.name : f \in Relationships(meta, k)}
    IN {<<r>> : r \in names(m)}
       \cup IF n = 1 THEN {}
            ELSE UNION {{<<f.name, r>> : r \in names(f.type)} : f \in Relationships(meta, m)}

\* The document leaves open what to sort by and what to include: a field that
\* is no list, of the model or of a related one, and paths of relations.
Sorts(meta, m) ==
    LET single(k) == {f \in ToSet(meta.models[k].fields) : ~f.isArray}
    IN {<<f.name>> : f \in single(m)}
       \cup UNION {{<<f.name, g.name>> : g \in single(f.type)} :
                      f \in {g \in single(m) : g.isDataModel}}

\* Included resources are named from the model of the URL on.
Includes(meta, operation) ==
    LET paths == Paths(meta, operation.model, 2)
        fitting == {p \in paths : operation.relation # None =>
                                     p[1] = operation.relation /\ Len(p) = 2}
    IN {<<p>> : p \in fitting}
       \cup {<<p, q>> : p \in fitting, q \in {r \in fitting : Len(r) = 1}}

TargetOf(s, operation) ==
    IF operation.relation = None THEN operation.model
    ELSE (CHOOSE f \in Named(s[operation.model].fields, operation.relation) : TRUE).type

Reads(s, meta, operation, q) ==
    {q}
    \cup UNION {{[q EXCEPT !.filters = <<[keys |-> <<p.key>>, op |-> p.op, texts |-> texts]>>] :
                    texts \in Value(meta, p)} : p \in operation.filters}
    \cup {[q EXCEPT !.sort = <<path>>] :
             path \in IF operation.sort THEN Sorts(meta, TargetOf(s, operation)) ELSE {}}
    \cup {[q EXCEPT !.include = paths] :
             paths \in IF operation.include THEN Includes(meta, operation) ELSE {}}

Relationship(kind, ids) == [kind |-> kind, ids |-> ids]

\* One or two identifiers, or null where that is documented.
Linkages(meta, r) ==
    LET id == IdText(meta, r.type)
    IN IF r.many THEN {Relationship("many", <<id>>), Relationship("many", <<id, id>>)}
       ELSE {Relationship("one", <<id>>), Relationship("null", <<>>)}

\* A relation that must be there is given, which the document does not ask for.
Payloads(entity, meta, mode) ==
    LET linked(r) == CHOOSE x \in Linkages(meta, r) : x.kind # "null" /\ Len(x.ids) = 1
        needed == {r \in entity.relationships : mode = "create" /\ ~r.many /\ ~r.nullable}
        always == [name \in {r.name : r \in needed} |-> linked(CHOOSE r \in needed : r.name = name)]
        keys(names) == [k \in names |-> entity.attributes[k]]
        body(attributes, relationships) ==
            [NoBody EXCEPT !.attributes = attributes, !.relationships = relationships, !.given = TRUE]
    IN {body(keys(entity.required), always), body(entity.attributes, always)}
       \cup UNION {{body(keys(entity.required), (r.name :> x) @@ always) : x \in Linkages(meta, r)} :
                      r \in entity.relationships}

\* A payload that tells what to match is an upsert, of which the document is silent.
Upserts(meta, m, payloads) ==
    {[body EXCEPT !.matchFields = ToSet(u)] :
        <<body, u>> \in {x \in payloads \X ToSet(meta.models[m].uniqueConstraints) :
                            ToSet(x[2]) \subseteq DOMAIN x[1].attributes}}

Bodies(meta, operation, entity) ==
    LET r == CHOOSE x \in entity.relationships : x.name = operation.relation
        only(x) == [NoBody EXCEPT !.relationships = (r.name :> x), !.given = TRUE]
        payloads == Payloads(entity, meta, operation.payload)
    IN CASE operation.payload = "create" -> payloads \cup Upserts(meta, operation.model, payloads)
         [] operation.payload = "update" -> payloads
         [] operation.payload = "toMany" -> {only(x) : x \in Linkages(meta, r)}
         [] operation.payload = "toOne" ->
              {only(x) : x \in {y \in Linkages(meta, r) : y.kind = "one"}} \cup {NoBody}
         [] OTHER -> {NoBody}

\* The requests of an operation: a read with at most one parameter, or a write.
RequestsOf(s, meta, operation) ==
    LET id == IF operation.byId THEN IdText(meta, operation.model) ELSE <<>>
        q == [Request(operation.method, operation.type, id) EXCEPT
                !.linkage = operation.linkage, !.relation = operation.relation]
        entity == GenerateModelEntity(s, operation.model,
                                      IF operation.payload = "create" THEN "create" ELSE "update")
    IN IF operation.method = "GET" THEN Reads(s, meta, operation, q)
       ELSE {[q EXCEPT !.body = body] : body \in Bodies(meta, operation, entity)}
=============================================================================
