------------------------------ MODULE ClientCalls ------------------------------
(***************************************************************************)
(* External: the calls a Prisma client takes that was made of the models p *)
(* of a Prisma schema, for the calls the JSON:API handler makes.  What is  *)
(* left to the types of values is their kind: number, boolean or string.   *)
(***************************************************************************)
EXTENDS PrismaSchema

\* The delegate enhancement has the columns to itself that the generator added.
Shown(p, m) == {f \in FieldsOf(p, m) : Head(f.name) # "aux"}
RequiredColumns(p, m) ==
    {f \in Shown(p, m) : f.type \notin DOMAIN p /\ ~f.optional /\ ~f.array /\ ~f.default}

Columns(p, m, name) == {f \in FieldsOf(p, m) : f.name = <<name>>}
Keys(p, m) == UNION {ToSet(f.rel.fields) : f \in FieldsOf(p, m)}

Kinds(type) ==
    CASE type = "Decimal" -> {"number", "string"}
      [] type \in {"Int", "BigInt", "Float"} -> {"number"}
      [] type = "Boolean" -> {"boolean"}
      [] OTHER -> {"string"}

\* The values of some fields, by their names.
ValuesFit(p, m, id) ==
    /\ DOMAIN id.of = DOMAIN id.key
    /\ \A i \in DOMAIN id.key : \E f \in Columns(p, m, id.key[i]) : id.of[i] \in Kinds(f.type)

\* One row: by a compound key under its name, or by a field that is unique.
SelectsOne(p, m, id) ==
    /\ ValuesFit(p, m, id)
    /\ IF id.compound # <<>>
       THEN /\ Words(id.compound) \in ToSet(p[m].uniques)
            /\ ToSet(id.compound) = ToSet(id.key)
       ELSE \E name \in ToSet(id.key) : Identifies(p, m, <<<<name>>>>)

\* The kinds of value a column takes in a payload.
Takes(f, value) ==
    \/ f.optional /\ value = <<"null">>
    \/ f.array /\ Len(value) = 2 /\ value[1] = "list" /\ value[2] \in Kinds(f.type)
    \/ ~f.array /\ Len(value) = 1 /\ value[1] \in Kinds(f.type)

DataFits(p, m, data) ==
    \A name \in DOMAIN data : \E f \in Columns(p, m, name) :
        f.type \notin DOMAIN p /\ Takes(f, data[name])

LinksFit(p, m, links, verbs) ==
    \A link \in links : \E f \in Columns(p, m, link.relation) :
        /\ f.type \in DOMAIN p
        /\ link.verb \in verbs
        /\ link.verb = "set" => f.array
        /\ link.verb = "disconnect" => f.array \/ f.optional
        /\ \A id \in link.ids : SelectsOne(p, f.type, id)

\* A new row is given what has to be there and has no default, and its keys
\* either as columns or by connecting other rows, never both.
Completes(p, m, data, links) ==
    LET linked == {link.relation : link \in links}
        connected == {f \in FieldsOf(p, m) : f.rel.fields # <<>> /\ f.name[1] \in linked}
        given == {<<name>> : name \in DOMAIN data}
    IN /\ \A f \in RequiredColumns(p, m) :
            f.name \in given \/ \E g \in connected : f.name \in ToSet(g.rel.fields)
       /\ connected = {} \/ given \cap Keys(p, m) = {}

\* Each step is a column of the model the steps before it lead to.
RECURSIVE Leads(_, _, _)
Leads(p, m, names) ==
    \E f \in Columns(p, m, Head(names)) :
        Len(names) > 1 => f.type \in DOMAIN p /\ Leads(p, f.type, Tail(names))

RECURSIVE LastColumn(_, _, _)
LastColumn(p, m, names) ==
    LET f == CHOOSE f \in Columns(p, m, Head(names)) : TRUE
    IN IF Len(names) = 1 THEN f ELSE LastColumn(p, f.type, Tail(names))

StepNames(way) == [i \in DOMAIN way |-> way[i].name]

TestFits(p, f, test) ==
    LET fits == \A i \in DOMAIN test.of : test.of[i] \in Kinds(f.type)
    IN IF f.type \in DOMAIN p
       THEN /\ test.test = IF f.array THEN "some" ELSE "is"
            /\ \A i \in DOMAIN test.of : ValuesFit(p, f.type, test.of[i])
       ELSE CASE test.test = "isEmpty" -> f.array
              [] test.test \in {"has", "hasEvery", "hasSome"} -> f.array /\ fits
              [] test.test \in {"equals", "in"} -> ~f.array /\ fits
              [] test.test \in {"lt", "lte", "gt", "gte"} -> ~f.array /\ f.type # "Boolean" /\ fits
              [] OTHER -> ~f.array /\ f.type = "String"

FiltersFit(p, m, filters) ==
    \A c \in filters : /\ Leads(p, m, StepNames(c.way))
                       /\ TestFits(p, LastColumn(p, m, StepNames(c.way)), c.test)

\* A sort order is by a single column.
SortsFit(p, m, sorts) ==
    \A sort \in sorts :
        /\ Leads(p, m, StepNames(sort.way) \o sort.by)
        /\ Len(sort.by) <= 1
        /\ LET f == LastColumn(p, m, StepNames(sort.way) \o sort.by)
           IN ~f.array /\ f.type \notin DOMAIN p

SelectFits(p, m, select) ==
    \A path \in select : Leads(p, m, path) /\ LastColumn(p, m, path).type \in DOMAIN p

Accepts(p, call) ==
    LET m == call.model
    IN /\ SelectFits(p, m, call.select)
       /\ FiltersFit(p, call.target, call.filters)
       /\ SortsFit(p, call.target, call.sorts)
       /\ call.op \in {"findUnique", "update", "delete", "upsert"} => SelectsOne(p, m, call.where)
       /\ DataFits(p, m, call.data)
       /\ call.op = "create" =>
             LinksFit(p, m, call.links, {"connect"}) /\ Completes(p, m, call.data, call.links)
       /\ call.op = "update" => LinksFit(p, m, call.links, {"connect", "set", "disconnect"})
       /\ call.op = "upsert" =>
             /\ Completes(p, m, call.data, {link \in call.links : link.verb = "connect"})
             /\ LinksFit(p, m, call.links, {"connect", "set"})
=============================================================================
