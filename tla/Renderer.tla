------------------------------ MODULE Renderer ------------------------------
(***************************************************************************)
(* What the const renderers make of the descriptions of an endpoint's      *)
(* traits: decls.rs collects the types that get a name of their own,       *)
(* code.rs renders the .mjs.  The output is the value its text denotes: a  *)
(* table of schemas, two method tables and a class.                        *)
(***************************************************************************)
EXTENDS Descriptions, TLC

CONSTANTS
  StdNames,          \* schema names that are not identifiers, such as Vec<T>
  MAX_DECLARATIONS,
  EQUALITY_DEPTH

RESERVED_TYPE_NAMES == {"Request", "Subscription", "Endpoint"}

(* is_declared of decls.rs.                                                *)
is_declared(id) == Name(id) \notin StdNames /\ Ty(id).is \in {"Struct", "Enum"}

-----------------------------------------------------------------------------
(* Structural equality to a depth: the name and the type of a schema take  *)
(* one level each, and what is equal at the limit is taken to be equal.    *)
RECURSIVE named_type_eq(_, _, _)

named_types_eq(left, right, depth) ==
  /\ Len(left) = Len(right)
  /\ \A i \in DOMAIN left : named_type_eq(left[i], right[i], depth)

(* Of two types or two variants.                                           *)
parts_eq(left, right, depth) ==
  left.is = right.is /\ left.names = right.names /\ named_types_eq(left.of, right.of, depth)

variants_eq(left, right, depth) ==
  /\ Len(left) = Len(right)
  /\ \A i \in DOMAIN left :
       left[i].name = right[i].name /\ parts_eq(left[i], right[i], depth)

type_eq(left, right, depth) ==
  \/ depth = 0
  \/ /\ left.is = "Enum" /\ right.is = "Enum"
     /\ variants_eq(left.variants, right.variants, depth - 1)
  \/ /\ left.is # "Enum" /\ right.is # "Enum"
     /\ parts_eq(left, right, depth - 1)

named_type_eq(left, right, depth) ==
  depth = 0 \/ (Name(left) = Name(right) /\ type_eq(Ty(left), Ty(right), depth - 1))

(* A field named tag would take the place of the discriminant.             *)
validate(id) ==
  /\ Name(id) \notin RESERVED_TYPE_NAMES
  /\ Ty(id).is = "Enum" =>
       \A i \in DOMAIN Ty(id).variants : ~ Contains(Ty(id).variants[i].names, "tag")

(* Declarations, and whether the build still stands.                       *)
NoDeclarations == [items |-> <<>>, ok |-> TRUE]

push(d, id) ==
  IF Len(d.items) = MAX_DECLARATIONS \/ ~ validate(id) THEN [d EXCEPT !.ok = FALSE]
  ELSE [d EXCEPT !.items = Append(@, id)]

(* Mistake: one name is one type.                                          *)
agrees_by_name(existing, id) == TRUE

agrees(existing, id) == named_type_eq(existing, id, EQUALITY_DEPTH)

RECURSIVE collect_named_type(_, _)

collect_named_types(d, list) == FoldLeft(collect_named_type, d, list)

collect_named_type(d, id) ==
  LET at == SelectInSeq(d.items, LAMBDA i : Name(i) = Name(id))
  IN  CASE ~ d.ok -> d
        [] d.ok /\ is_declared(id) /\ at # 0 -> [d EXCEPT !.ok = agrees(d.items[at], id)]
        [] d.ok /\ is_declared(id) /\ at = 0 -> collect_named_types(push(d, id), Parts(Ty(id)))
        [] d.ok /\ ~ is_declared(id) -> collect_named_types(d, Parts(Ty(id)))

RECURSIVE DescTypes(_)
DescTypes(desc) ==
  CASE desc.desc = "Js" -> <<>>
    [] desc.desc \in {"Postcard", "Inline"} -> <<desc.type>>
    [] desc.desc = "Option" -> DescTypes(desc.inner)
    [] desc.desc = "Result" -> DescTypes(desc.ok) \o DescTypes(desc.err)

MethodTypes(method) ==
  FlattenSeq([i \in DOMAIN method.args |-> DescTypes(method.args[i].desc)]) \o
  (IF method.ret.kind = "notify" THEN <<>> ELSE DescTypes(method.ret.desc))

ServiceTypes(service) ==
  FlattenSeq([i \in 1 .. method_count(service) |-> MethodTypes(Methods(service)[i])])

(* The traits of an endpoint come as sequences of at most one.             *)
EndpointTypes(endpoint) ==
  FlattenSeq([i \in DOMAIN endpoint.service |-> ServiceTypes(endpoint.service[i])]) \o
  FlattenSeq([i \in DOMAIN endpoint.client |-> ServiceTypes(endpoint.client[i])])

collect(endpoint) == collect_named_types(NoDeclarations, EndpointTypes(endpoint))

-----------------------------------------------------------------------------
RECURSIVE schema_body(_)

schema_reference(id) ==
  IF is_declared(id) THEN [kind |-> "ref", name |-> Name(id)] ELSE schema_body(id)

schema_list(ids) == [i \in DOMAIN ids |-> schema_reference(ids[i])]
schema_fields(part) ==
  [kind |-> "struct", names |-> part.names, fields |-> schema_list(part.of)]

(* A tuple variant of one item is a newtype.                               *)
schema_variant(v) ==
  CASE v.is = "UnitVariant" -> [kind |-> "unit"]
    [] v.is \in {"NewtypeVariant", "TupleVariant"} /\ Len(v.of) = 1 ->
         [kind |-> "newtype", inner |-> schema_reference(v.of[1])]
    [] v.is = "TupleVariant" /\ Len(v.of) # 1 -> [kind |-> "tuple", items |-> schema_list(v.of)]
    [] v.is = "StructVariant" -> schema_fields(v)

schema_body(id) ==
  LET ty == Ty(id)
  IN  CASE ty.is \in DOMAIN SchemaKinds -> [kind |-> SchemaKinds[ty.is]]
        [] ty.is = "Option" -> [kind |-> "option", inner |-> schema_reference(ty.of[1])]
        [] ty.is = "NewtypeStruct" -> schema_reference(ty.of[1])
        [] ty.is = "Seq" -> [kind |-> "seq", inner |-> schema_reference(ty.of[1])]
        [] ty.is \in {"Tuple", "TupleStruct"} -> [kind |-> "tuple", items |-> schema_list(ty.of)]
        [] ty.is = "Map" ->
             [kind |-> "map", key |-> schema_reference(ty.of[1]), value |-> schema_reference(ty.of[2])]
        [] ty.is = "Struct" -> schema_fields(ty)
        [] ty.is = "Enum" ->
             [kind |-> "enum",
              variants |-> [i \in DOMAIN ty.variants |->
                             ("name" :> ty.variants[i].name) @@ schema_variant(ty.variants[i])]]

RECURSIVE wire_description(_)
wire_description(desc) ==
  CASE desc.desc = "Js" -> [kind |-> "js", transfer |-> desc.transfer]
    [] desc.desc = "Postcard" -> [kind |-> "postcard", schema |-> schema_reference(desc.type)]
    [] desc.desc = "Inline" -> [kind |-> "inline", schema |-> schema_reference(desc.type)]
    [] desc.desc = "Option" -> [kind |-> "option", inner |-> wire_description(desc.inner)]
    [] desc.desc = "Result" ->
         [kind |-> "result", ok |-> wire_description(desc.ok), err |-> wire_description(desc.err)]

(* One entry per declared name; a name in the table denotes the first type *)
(* collected under it.                                                     *)
schemas(endpoint) ==
  LET items == collect(endpoint).items
  IN  [n \in {Name(items[i]) : i \in DOMAIN items} |->
        schema_body(items[SelectInSeq(items, LAMBDA i : Name(i) = n)])]

-----------------------------------------------------------------------------
RESERVED ==
  {"arguments", "await", "break", "case", "catch", "class", "const", "continue", "debugger",
   "default", "delete", "do", "else", "enum", "eval", "export", "extends", "false", "finally",
   "for", "function", "if", "implements", "import", "in", "instanceof", "interface", "let",
   "new", "null", "package", "private", "protected", "public", "return", "static", "super",
   "switch", "this", "throw", "true", "try", "typeof", "var", "void", "while", "with", "yield"}

(* An underscore follows a name that is a reserved word.                   *)
put_ident(name) ==
  IF Len(name) = 1 /\ name[1] \in RESERVED THEN Append(name, "_") ELSE name

(* Mistake: a name in quotes may be any word.                              *)
put_quoted_plain(name) == name

put_quoted_ident(name) == put_ident(name)

method_entry(method) ==
  [name |-> put_quoted_ident(method.name),
   kind |-> method.ret.kind,
   args |-> [i \in DOMAIN method.args |-> wire_description(method.args[i].desc)],
   returns |-> IF method.ret.kind = "notify" THEN <<>> ELSE <<wire_description(method.ret.desc)>>]

method_table(services) ==
  FlattenSeq([s \in DOMAIN services |->
    [i \in 1 .. method_count(services[s]) |-> method_entry(method_at(services[s], i - 1))]])

(* A method of the class hands its number to the shell; of two with one    *)
(* name the later stays.                                                   *)
class_methods(services) ==
  FoldLeft(LAMBDA class, s :
             FoldLeft(LAMBDA c, i : (put_ident(method_at(s, i).name) :> i) @@ c, class,
                      [i \in 1 .. method_count(s) |-> i - 1]),
           <<>>, services)

render_js(endpoint) ==
  [SCHEMAS |-> schemas(endpoint),
   METHODS |-> method_table(endpoint.client),
   HANDLERS |-> method_table(endpoint.service),
   class |-> class_methods(endpoint.client)]
=============================================================================
