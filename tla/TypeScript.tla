----------------------------- MODULE TypeScript -----------------------------
(***************************************************************************)
(* The .d.ts of an endpoint, rendered by dts.rs: the type aliases, the     *)
(* handler interface and the declared class, as the types their text       *)
(* denotes.  HasType is what TypeScript means by them.                     *)
(***************************************************************************)
EXTENDS Renderer, ShellCodec

Plain(ts) == [ts |-> ts]
Named(name) == [ts |-> "name", name |-> name]
Literal(name) == [ts |-> "literal", name |-> name]
Union(types) == [ts |-> "union", of |-> types]
ObjectType(names, types) == [ts |-> "object", names |-> names, of |-> types]

PlainTypes ==
  [Bool |-> "boolean", I8 |-> "number", U8 |-> "number", I16 |-> "number", U16 |-> "number",
   I32 |-> "number", U32 |-> "number", F32 |-> "number", F64 |-> "number",
   I64 |-> "bigint", U64 |-> "bigint", I128 |-> "bigint", U128 |-> "bigint",
   Usize |-> "bigint", Isize |-> "bigint", Char |-> "string", String |-> "string",
   ByteArray |-> "Uint8Array", Unit |-> "undefined", UnitStruct |-> "undefined"]

RECURSIVE type_body(_)

type_reference(id) == IF is_declared(id) THEN Named(Name(id)) ELSE type_body(id)
type_references(ids) == [i \in DOMAIN ids |-> type_reference(ids[i])]
type_list(ids) == [ts |-> "tuple", of |-> type_references(ids)]

(* { tag: "V"; value: T } and { tag: "V"; x: T; .. }; a tuple variant of   *)
(* one item has that item for its value.                                   *)
variant_type(v) ==
  LET tag == Literal(v.name)
  IN  CASE v.is = "UnitVariant" -> ObjectType(<<"tag">>, <<tag>>)
        [] v.is \in {"NewtypeVariant", "TupleVariant"} /\ Len(v.of) = 1 ->
             ObjectType(<<"tag", "value">>, <<tag, type_reference(v.of[1])>>)
        [] v.is = "TupleVariant" /\ Len(v.of) # 1 ->
             ObjectType(<<"tag", "value">>, <<tag, type_list(v.of)>>)
        [] v.is = "StructVariant" ->
             ObjectType(<<"tag">> \o v.names, <<tag>> \o type_references(v.of))

(* Mistake: every enum is a union of objects.                              *)
enum_type_tagged(variants) == Union([i \in DOMAIN variants |-> variant_type(variants[i])])

enum_type(variants) ==
  Union([i \in DOMAIN variants |->
          IF IsUnitOnly(variants) THEN Literal(variants[i].name) ELSE variant_type(variants[i])])

type_body(id) ==
  LET ty == Ty(id)
  IN  CASE ty.is \in DOMAIN PlainTypes -> Plain(PlainTypes[ty.is])
        [] ty.is = "Option" -> Union(<<type_reference(ty.of[1]), Plain("undefined")>>)
        [] ty.is = "NewtypeStruct" -> type_reference(ty.of[1])
        [] ty.is = "Seq" /\ Ty(ty.of[1]).is = "U8" -> Plain("Uint8Array")
        [] ty.is = "Seq" /\ Ty(ty.of[1]).is # "U8" ->
             [ts |-> "array", of |-> <<type_reference(ty.of[1])>>]
        [] ty.is \in {"Tuple", "TupleStruct"} -> type_list(ty.of)
        [] ty.is = "Map" -> [ts |-> "Map", of |-> type_references(ty.of)]
        [] ty.is = "Struct" -> ObjectType(ty.names, type_references(ty.of))
        [] ty.is = "Enum" -> enum_type(ty.variants)

RECURSIVE desc_type(_), return_type(_)

desc_type(desc) ==
  LET tagged(tag, d) == ObjectType(<<"tag", "value">>, <<Literal(tag), desc_type(d)>>)
  IN  CASE desc.desc = "Js" -> [ts |-> "class", name |-> desc.name]
        [] desc.desc \in {"Postcard", "Inline"} -> type_reference(desc.type)
        [] desc.desc = "Option" -> Union(<<desc_type(desc.inner), Plain("undefined")>>)
        [] desc.desc = "Result" -> Union(<<tagged("Ok", desc.ok), tagged("Err", desc.err)>>)

(* A promise resolves to the Ok payload, and () is void.                   *)
return_type(desc) ==
  CASE desc.desc = "Postcard" /\ Ty(desc.type).is = "Unit" -> Plain("void")
    [] desc.desc = "Result" -> return_type(desc.ok)
    [] OTHER -> desc_type(desc)

-----------------------------------------------------------------------------
(* A parameter may be left out if it and all after it are options; a       *)
(* stream has its callback after them.                                     *)
is_optional_argument(method, index) ==
  /\ method.ret.kind # "stream"
  /\ \A position \in index .. Len(method.args) : method.args[position].desc.desc = "Option"

parameter(method, index) ==
  LET argument == method.args[index]
  IN  IF is_optional_argument(method, index)
        THEN [name |-> put_ident(argument.name), optional |-> TRUE,
              type |-> desc_type(argument.desc.inner)]
        ELSE [name |-> put_ident(argument.name), optional |-> FALSE, type |-> desc_type(argument.desc)]

parameters(method) == [index \in DOMAIN method.args |-> parameter(method, index)]

(* The signature of a method: of what it returns, its promise, or the      *)
(* items of its stream.                                                    *)
signature(method) ==
  [parameters |-> parameters(method),
   kind |-> method.ret.kind,
   result |-> CASE method.ret.kind = "notify" -> Plain("void")
                [] method.ret.kind = "value" -> return_type(method.ret.desc)
                [] method.ret.kind = "stream" -> desc_type(method.ret.desc)]

signatures(services) ==
  FoldLeft(LAMBDA all, method : (put_ident(method.name) :> signature(method)) @@ all, <<>>,
           FlattenSeq([s \in DOMAIN services |-> Methods(services[s])]))

render_dts(endpoint) ==
  LET items == collect(endpoint).items
  IN  [types |-> [n \in {Name(items[i]) : i \in DOMAIN items} |->
                   type_body(items[SelectInSeq(items, LAMBDA i : Name(i) = n)])],
       interface |-> signatures(endpoint.service),
       class |-> signatures(endpoint.client)]

-----------------------------------------------------------------------------
(* Whether value x is of type t, where types gives the aliases.            *)
RECURSIVE HasType(_, _, _)
HasType(types, t, x) ==
  CASE t.ts = "boolean" -> IsA(x, "boolean")
    [] t.ts = "number" -> IsA(x, "number")
    [] t.ts = "bigint" -> IsA(x, "bigint")
    [] t.ts = "string" -> IsA(x, "string") \/ IsA(x, "name")
    [] t.ts = "Uint8Array" -> IsA(x, "bytes")
    [] t.ts \in {"undefined", "void"} -> x = Undefined
    [] t.ts = "class" -> t.name = "unknown" \/ (IsA(x, "dom") /\ x.dom.class = t.name)
    [] t.ts = "name" -> HasType(types, types[t.name], x)
    [] t.ts = "literal" -> x = [name |-> t.name]
    [] t.ts = "union" -> \E i \in DOMAIN t.of : HasType(types, t.of[i], x)
    [] t.ts = "array" ->
         IsA(x, "array") /\ \A i \in DOMAIN x.array : HasType(types, t.of[1], x.array[i])
    [] t.ts = "tuple" ->
         /\ IsA(x, "array") /\ Len(x.array) = Len(t.of)
         /\ \A i \in DOMAIN t.of : HasType(types, t.of[i], x.array[i])
    [] t.ts = "Map" ->
         IsA(x, "map") /\ \A i \in DOMAIN x.map : \A j \in 1 .. 2 : HasType(types, t.of[j], x.map[i][j])
    [] t.ts = "object" ->
         IsA(x, "object") /\ \A i \in DOMAIN t.of : HasType(types, t.of[i], Property(x, t.names[i]))
=============================================================================
