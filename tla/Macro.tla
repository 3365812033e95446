-------------------------------- MODULE Macro -------------------------------
(***************************************************************************)
(* #[web_rpc::service] and js::endpoint!: what web-rpc-macro makes of a    *)
(* trait as its author wrote it.                                           *)
(*                                                                         *)
(* A type is its syntax: the last segment of its path, and the arguments   *)
(* of Option, Result, Post, Transfer and impl Stream; any other type is    *)
(* one name, as are &str and &[u8].  A name is the sequence of its words,  *)
(* which snake case divides by underscores and camel case by capitals.     *)
(***************************************************************************)
EXTENDS PostcardFormat, Numbering

CONSTANTS
  Schema,   \* the schema of each type that implements postcard_schema::Schema
  JsName    \* the DOM class of each type that implements JsName

ASSUME SchemaAssumption == \A t \in DOMAIN Schema : Schema[t] \in DOMAIN NamedTypes

Type(head, args) == [head |-> head, args |-> args]

(* How the three walks over a signature tell types apart.                  *)
IsOption(ty) == ty.head = "Option" /\ Len(ty.args) = 1
IsResult(ty) == ty.head = "Result" /\ Len(ty.args) = 2
IsJs(ty) == ty.head \in {"Post", "Transfer"} /\ Len(ty.args) = 1
IsStream(ty) == ty.head = "impl Stream" /\ Len(ty.args) = 1
is_borrowed_serde_ref(ty) == ty.head \in {"&str", "&[u8]"}

InstanceOf(x, class) == "dom" \in DOMAIN x /\ class \in {x.dom.class, "unknown"}

RECURSIVE emit_encode(_, _), emit_decode(_, _, _), emit_desc(_)

(* The WireArg of value v, and the JavaScript values it pushes on the way. *)
emit_encode(ty, v) ==
  LET wrapped(wire, e) == [e EXCEPT !.wire = WireArg(wire, e.wire)]
      plain(wire, of) == [wire |-> WireArg(wire, of), js |-> <<>>, transfer |-> <<>>]
  IN  CASE IsOption(ty) ->
             IF v.opt = <<>> THEN plain("None", <<>>)
             ELSE wrapped("Some", emit_encode(ty.args[1], v.opt[1]))
        [] IsResult(ty) ->
             wrapped(IF v.variant = 1 THEN "Ok" ELSE "Err", emit_encode(ty.args[v.variant], v.fields[1]))
        [] IsJs(ty) ->
             [wire |-> WireArg("Js", <<>>), js |-> <<v>>,
              transfer |-> IF ty.head = "Transfer" THEN <<v>> ELSE <<>>]
        [] OTHER -> plain("Bytes", Ser(Schema[ty.head], v))

(* The value of a WireArg, shifting JavaScript values off r; a mismatch    *)
(* panics, and so does what is missing or of another class.                *)
emit_decode(ty, w, r) ==
  CASE IsOption(ty) /\ w.wire = "None" -> Give(r, [opt |-> <<>>])
    [] IsOption(ty) /\ w.wire = "Some" ->
         Then(emit_decode(ty.args[1], w.of, r), LAMBDA s : Give(s, [opt |-> <<s.out>>]))
    [] IsResult(ty) /\ w.wire \in {"Ok", "Err"} ->
         LET i == IF w.wire = "Ok" THEN 1 ELSE 2
         IN  Then(emit_decode(ty.args[i], w.of, r),
                  LAMBDA s : Give(s, [variant |-> i, fields |-> <<s.out>>]))
    [] IsJs(ty) /\ w.wire = "Js" ->
         Then(Shift(r, [undefined |-> TRUE]), LAMBDA s :
           IF InstanceOf(s.out, JsName[ty.args[1].head]) THEN s ELSE Fail(s))
    [] ~ IsOption(ty) /\ ~ IsResult(ty) /\ ~ IsJs(ty) /\ w.wire = "Bytes" ->
         LET leaf == De(Schema[ty.head], Read(w.of, <<>>))
         IN  IF leaf.ok THEN Give(r, leaf.out) ELSE Fail(r)
    [] OTHER -> Fail(r)

(* &str has the schema of String, &[u8] that of [u8].                      *)
BorrowedSchema == ("&str" :> "String") @@ ("&[u8]" :> "[u8]")

emit_desc(ty) ==
  CASE IsOption(ty) -> Option(emit_desc(ty.args[1]))
    [] IsResult(ty) -> Result(emit_desc(ty.args[1]), emit_desc(ty.args[2]))
    [] IsJs(ty) -> Js(JsName[ty.args[1].head], ty.head = "Transfer")
    [] is_borrowed_serde_ref(ty) -> Inline(Schema[BorrowedSchema[ty.head]])
    [] OTHER -> Postcard(Schema[ty.head])

-----------------------------------------------------------------------------
(* Names.  Empty words come from doubled, leading or trailing underscores. *)
Words(ident) == SelectSeq(ident, LAMBDA word : word # "")
to_lower_camel(ident) == Words(ident)
variant_ident(method) == Words(method.ident)

(* RpcMethod::parse.                                                       *)
ParsesMethod(m) ==
  /\ ~ m.generics
  /\ m.receiver = "&self"
  /\ \A i \in DOMAIN m.args : m.args[i].pat = "ident"

MethodOutput(m) ==
  CASE m.ret = <<>> -> [kind |-> "notify"]
    [] m.ret # <<>> /\ IsStream(m.ret[1]) -> [kind |-> "stream", type |-> m.ret[1].args[1]]
    [] OTHER -> [kind |-> "value", type |-> m.ret[1]]

Described(m) ==
  LET output == MethodOutput(m)
  IN  [name |-> to_lower_camel(m.ident),
       args |-> [i \in DOMAIN m.args |->
                  [name |-> to_lower_camel(m.args[i].name), desc |-> emit_desc(m.args[i].type)]],
       ret |-> CASE output.kind = "notify" -> Notify
                 [] output.kind = "value" -> Value(emit_desc(output.type))
                 [] output.kind = "stream" -> Stream(emit_desc(output.type))]

const_description(trait, flags) ==
  ServiceDescription(trait, [i \in DOMAIN trait.methods |-> Described(trait.methods[i])], flags)

(* The macro accepts the trait, and rustc its expansion: two methods may   *)
(* not make the same variant.                                              *)
Expands(trait, flags) ==
  LET kept == enum_request(trait, flags)
  IN  /\ \A i \in DOMAIN trait.methods : ParsesMethod(trait.methods[i])
      /\ \A i, j \in DOMAIN kept : variant_ident(kept[i]) = variant_ident(kept[j]) => i = j

-----------------------------------------------------------------------------
(* A generated client: one field per argument, the borrowed ones inline.   *)
Field(ty, v) ==
  IF is_borrowed_serde_ref(ty)
    THEN Message(Ser(Schema[BorrowedSchema[ty.head]], v), <<>>, <<>>)
    ELSE LET e == emit_encode(ty, v) IN Message(SerWire(e.wire), e.js, e.transfer)

Variant(index, fields) == FoldLeft(Join, Message(Varint(index - 1), <<>>, <<>>), fields)

(* The message of a call of the variant with this index.                   *)
ClientCall(variants, index, values) ==
  LET args == variants[index].args
  IN  Variant(index, [i \in DOMAIN args |-> Field(args[i].type, values[i])])

(* What the server, or the client it answers, makes of a message: which    *)
(* variant it names and the values of its fields.                          *)
ReadField(ty, r) ==
  IF is_borrowed_serde_ref(ty) THEN De(Schema[BorrowedSchema[ty.head]], r)
  ELSE Then(DeWire(r), LAMBDA s : emit_decode(ty, s.out, s))

ReadVariant(signatures, message) ==
  Then(DeVarint(Read(message.bytes, message.js), Bits.U32), LAMBDA s :
    IF s.out >= Len(signatures) THEN Fail(s)
    ELSE Then(ReadAll(ReadField, signatures[s.out + 1], s), LAMBDA t :
           Give(t, [index |-> s.out + 1, values |-> t.out])))

ArgumentTypes(m) == [i \in DOMAIN m.args |-> m.args[i].type]
ServerRequest(variants, message) ==
  ReadVariant([i \in DOMAIN variants |-> ArgumentTypes(variants[i])], message)

(* encode_outgoing and unpack.                                             *)
ServerResponse(variants, index, v) ==
  Variant(index, <<Field(MethodOutput(variants[index]).type, v)>>)

ClientResponse(variants, index, message) ==
  Then(ReadVariant([i \in DOMAIN variants |->
                      IF MethodOutput(variants[i]).kind = "notify" THEN <<>>
                      ELSE <<MethodOutput(variants[i]).type>>], message), LAMBDA s :
    IF s.out.index = index THEN Give(s, s.out.values[1]) ELSE Fail(s))

-----------------------------------------------------------------------------
(* js::endpoint!.  Its arguments are a sequence of keys and paths, a path  *)
(* the words of a generated name.                                          *)
Keyed(args, key) == SelectSeq(args, LAMBDA a : a.key = key)

ParsesEndpoint(args) ==
  /\ args # <<>>
  /\ \A i \in DOMAIN args : args[i].key \in {"service", "client"}
  /\ \A key \in {"service", "client"} : Len(Keyed(args, key)) <= 1

(* The trait whose description a path is rewritten to, as a sequence of at *)
(* most one: a name ends in Service or Client, and something is before it. *)
description_path(traits, path) ==
  SelectSeq(traits, LAMBDA t : Last(path) \in {"Service", "Client"} /\ t.ident = Front(path))
=============================================================================
