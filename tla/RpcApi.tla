-------------------------------- MODULE RpcApi --------------------------------
(***************************************************************************)
(* The OpenAPI document of the RPC API (openapi/src/rpc-generator.ts) and  *)
(* what its handler makes of a request (server/src/api/rpc/index.ts).      *)
(*                                                                         *)
(* An operation is [model, operation, method, args], its arguments as      *)
(* ZodInputs has them; a request gives each argument a value, in the body  *)
(* or in the parameter q, or is left without them.                         *)
(***************************************************************************)
EXTENDS ZodInputs

RpcOperation(m, operation, method, args) ==
    [model |-> m, operation |-> operation, method |-> method,
     args |-> args @@ ("meta" :> May({"plain", "serialization"}))]

DocumentedSelection(s, p, m) ==
    Selection(p, m, \E f \in ToSet(s[m].fields) : IsRelation(s, f), LinkNames(p, m))

\* A new row tells its kind where the column has no default.
Created(s, p, m, types) ==
    LET kinds == {<<name>> : name \in Discriminators(s, m)}
    IN (IF kinds \cap {f.name : f \in RequiredColumns(p, m)} = {} THEN types ELSE {})
       \cup IF kinds = {} THEN {} ELSE {WithKind[type] : type \in types}

Updated(s, m, types) ==
    types \cup IF Discriminators(s, m) = {} THEN {} ELSE {WithKind[type] : type \in types}

\* generatePathsForModel: what makes rows,
CreatePaths(s, p, m) ==
    {RpcOperation(m, "create", "POST",
        DocumentedSelection(s, p, m) @@ Data(Created(s, p, m, {"CreateInput"}))),
     RpcOperation(m, "createMany", "POST",
        Data(Created(s, p, m, {"CreateManyInput", "CreateManyInputs"})) @@ ("skipDuplicates" :> May({"true", "false"})))}

\* finds them, with neither order nor page,
FindPaths(s, p, m) ==
    {RpcOperation(m, "findUnique", "GET", DocumentedSelection(s, p, m) @@ WhereUnique)}
    \cup {RpcOperation(m, find, "GET", DocumentedSelection(s, p, m) @@ Where) : find \in {"findFirst", "findMany"}}

\* changes them,
UpdatePaths(s, p, m) ==
    {RpcOperation(m, "update", "PATCH",
        DocumentedSelection(s, p, m) @@ WhereUnique @@ Data(Updated(s, m, {"UpdateInput"}))),
     RpcOperation(m, "updateMany", "PATCH", Where @@ Data(Updated(s, m, {"UpdateManyMutationInput"}))),
     RpcOperation(m, "upsert", "POST",
        DocumentedSelection(s, p, m) @@ WhereUnique
        @@ ("create" :> Must(Created(s, p, m, {"CreateInput"})))
        @@ ("update" :> Must(Updated(s, m, {"UpdateInput"}))))}

\* takes them away,
DeletePaths(s, p, m) ==
    {RpcOperation(m, "delete", "DELETE", DocumentedSelection(s, p, m) @@ WhereUnique),
     RpcOperation(m, "deleteMany", "DELETE", Where)}

\* aggregateFields
AggregateFields(p, m) ==
    [a \in AggregateOperationSupport(p, m) |->
        May({"fields", "noFields"} \cup IF a = "_count" THEN {"true", "false"} ELSE {})]

\* and counts them, in the order and by the selection of rows.
AggregatePaths(s, p, m) ==
    LET all == Where @@ OrderBy(p, m) @@ TakeSkip @@ AggregateFields(p, m)
        select == [a \in {"select"} |-> DocumentedSelection(s, p, m)[a]]
    IN {RpcOperation(m, "count", "GET", select @@ Where),
        RpcOperation(m, "aggregate", "GET", all @@ Cursor),
        RpcOperation(m, "groupBy", "GET",
            all @@ ("by" :> May({"ScalarFieldEnum"})) @@ ("having" :> May({"ScalarWhereWithAggregatesInput"})))}

GenerateRpcPaths(s, p) ==
    UNION {CreatePaths(s, p, m) \cup FindPaths(s, p, m) \cup UpdatePaths(s, p, m)
           \cup DeletePaths(s, p, m) \cup AggregatePaths(s, p, m) : m \in DOMAIN p \cap DOMAIN s}

-----------------------------------------------------------------------------
(* What a client may send that goes by the document: what is required and   *)
(* at most one thing more, or no body, which is not required.               *)

RpcRequest(o, given, args) == [method |-> o.method, given |-> given, args |-> args]

RpcRequestsOf(o) ==
    LET required == {a \in DOMAIN o.args : o.args[a].required}
        whole == {args \in [required -> UNION {o.args[a].values : a \in required}] :
                    \A a \in required : args[a] \in o.args[a].values}
        more == {args @@ (a :> v) : <<args, a, v>> \in
                    {x \in whole \X (DOMAIN o.args \ required) \X UNION {o.args[a].values : a \in DOMAIN o.args} :
                        x[3] \in o.args[x[2]].values}}
    IN {RpcRequest(o, TRUE, args) : args \in whole \cup more}
       \cup IF o.method \in {"POST", "PATCH"} THEN {RpcRequest(o, FALSE, <<>>)} ELSE {}

-----------------------------------------------------------------------------
(* The handler. *)

MethodsOf(operation) ==
    CASE operation \in {"create", "createMany", "upsert"} -> {"POST"}
      [] operation \in {"update", "updateMany"} -> {"PUT", "PATCH"}
      [] operation \in {"delete", "deleteMany"} -> {"DELETE"}
      [] OTHER -> {"GET"}

\* processRequestPayload: what tells how values are written is no argument,
\* unless it tells nothing.
ProcessRequestPayload(args) ==
    IF "meta" \in DOMAIN args /\ args["meta"] = "serialization"
    THEN [a \in DOMAIN args \ {"meta"} |-> args[a]] ELSE args

\* zodValidate: by the schema of the model and the operation, if there is one.
ZodValidates(made, o, args) ==
    (o.model \in DOMAIN made /\ o.operation \in DOMAIN made[o.model].input) =>
        ParsesArgs(made[o.model].input[o.operation], made[o.model].mode, args)

Refused(status) == [status |-> status, call |-> <<>>]

\* A request for a known model and operation.
HandleRpcRequest(made, o, q) ==
    LET args == ProcessRequestPayload(q.args)
    IN IF q.method \notin MethodsOf(o.operation) \/ ~q.given THEN Refused(400)
       ELSE IF ~ZodValidates(made, o, args) THEN Refused(422)
       ELSE [status |-> IF "POST" \in MethodsOf(o.operation) THEN 201 ELSE 200, call |-> args]

-----------------------------------------------------------------------------
(* External: what the enhanced client takes.  Prisma's own arguments are    *)
(* those the schemas are made after, where a selection may say no, name the *)
(* links of a hierarchy and be of a single column to group by.  The         *)
(* delegate enhancement has inherited kinds to itself.                      *)

ClientTakes(s, p, o, args) ==
    LET known == InputSchemas(p, o.model, [noUncheckedInput |-> FALSE, mode |-> "strip"])[o.operation]
        inherited == \E f \in ToSet(s[o.model].fields) : IsDiscriminator(s, f) /\ f.from # None
        looser(a) == CASE a = "select" /\ o.operation = "count" -> {"noFields"}
                       [] a \in DOMAIN Aggregates(p, o.model) -> {"noFields"} \cup IF a = "_count" THEN {"false"} ELSE {}
                       [] a = "by" -> {"ScalarFieldEnum"}
                       [] OTHER -> {}
    IN /\ ParsesArgs([a \in DOMAIN known |-> [known[a] EXCEPT !.values = @ \cup looser(a)]], "strict", args)
       /\ inherited => \A a \in DOMAIN args : args[a] \notin {WithKind[type] : type \in DOMAIN WithKind}
       /\ o.operation \in {"create", "upsert"} => ~IsDelegate(s, o.model)
       /\ (\E b \in {o.model} \cup Bases(s, o.model) : IsDelegate(s, b)) =>
             ~("skipDuplicates" \in DOMAIN args /\ args["skipDuplicates"] = "true")
=============================================================================
