----------------------------- MODULE ShellCodec -----------------------------
(***************************************************************************)
(* Codec of endpoint.mjs: postcard and WireArg driven by the schema values *)
(* of a generated module.                                                  *)
(***************************************************************************)
EXTENDS ShellPrimitives

(* Codec.  table is SCHEMAS, the schemas that a "ref" names.  The name of  *)
(* a primitive is its kind here.                                           *)
isUnitOnly(variants) == \A i \in DOMAIN variants : variants[i].kind = "unit"

RECURSIVE encode(_, _, _), decode(_, _, _), encodeWire(_, _, _), decodeWire(_, _, _)

encodeAll(table, schemas, values) ==
  IF Len(values) < Len(schemas) THEN Thrown
  ELSE FlattenSeq([i \in DOMAIN schemas |-> encode(table, schemas[i], values[i])])

encodeFields(table, schema, x) ==
  encodeAll(table, schema.fields, [i \in DOMAIN schema.names |-> Property(x, schema.names[i])])

encodeEnum(table, schema, x) ==
  LET tag == IF isUnitOnly(schema.variants) THEN x ELSE Property(x, "tag")
      index == SelectInSeq(schema.variants, LAMBDA v : [name |-> v.name] = tag)
      variant == schema.variants[index]
  IN  IF index = 0 THEN Thrown
      ELSE WriteVarint(index - 1, Bits.U32) \o
           CASE variant.kind = "unit" -> <<>>
             [] variant.kind = "newtype" -> encode(table, variant.inner, Property(x, "value"))
             [] variant.kind = "tuple" -> encode(table, variant, Property(x, "value"))
             [] variant.kind = "struct" -> encodeFields(table, variant, x)

encode(table, schema, x) ==
  LET kind == schema.kind
  IN  CASE kind = "unit" -> <<>>
        [] kind \in DOMAIN PRIMITIVES -> Write(PRIMITIVES[kind], x)
        [] kind = "ref" -> encode(table, table[schema.name], x)
        [] kind = "option" ->
             IF x = Undefined THEN <<0>> ELSE <<1>> \o encode(table, schema.inner, x)
        [] kind = "seq" /\ schema.inner.kind = "u8" /\ IsA(x, "bytes") -> WriteBytes(x.bytes)
        [] kind = "seq" /\ schema.inner.kind # "u8" /\ IsA(x, "array") ->
             WriteVarint(Len(x.array), Bits.U32) \o
             encodeAll(table, Repeat(schema.inner, Len(x.array)), x.array)
        [] kind = "tuple" /\ IsA(x, "array") -> encodeAll(table, schema.items, x.array)
        [] kind = "map" /\ IsA(x, "map") ->
             WriteVarint(Len(x.map), Bits.U32) \o
             FlattenSeq([i \in DOMAIN x.map |->
                          encodeAll(table, <<schema.key, schema.value>>, x.map[i])])
        [] kind = "struct" /\ IsA(x, "object") -> encodeFields(table, schema, x)
        [] kind = "enum" -> encodeEnum(table, schema, x)
        [] OTHER -> Thrown

decodeAll(table, schemas, r) == ReadAll(LAMBDA s, q : decode(table, s, q), schemas, r)

(* An object with these properties.                                        *)
Object(names, values) ==
  [object |-> [n \in ToSet(names) |-> values[SelectLastInSeq(names, LAMBDA m : m = n)]]]

decodeFields(table, schema, r) ==
  Then(decodeAll(table, schema.fields, r), LAMBDA s : Give(s, Object(schema.names, s.out)))

Tagged(tag, x) == [object |-> ("tag" :> [name |-> tag]) @@ ("value" :> x)]

(* { tag, ...fields }: a field that is named tag replaces it.              *)
decodeEnum(table, schema, r) ==
  Then(ReadVarint(r, Bits.U32), LAMBDA s :
    IF s.out >= Len(schema.variants) THEN Fail(s)
    ELSE LET variant == schema.variants[s.out + 1]
             tag == [name |-> variant.name]
         IN  CASE variant.kind = "unit" ->
                    Give(s, IF isUnitOnly(schema.variants) THEN tag ELSE [object |-> "tag" :> tag])
               [] variant.kind \in {"newtype", "tuple"} ->
                    Then(decode(table, IF variant.kind = "tuple" THEN variant ELSE variant.inner, s),
                         LAMBDA t : Give(t, Tagged(variant.name, t.out)))
               [] variant.kind = "struct" ->
                    Then(decodeFields(table, variant, s),
                         LAMBDA t : Give(t, [object |-> t.out.object @@ ("tag" :> tag)])))

(* Map.set: a key that is there already keeps its place.  Two keys that    *)
(* are objects are never the same key.                                     *)
SetPair(map, pair) ==
  LET at == SelectInSeq(map, LAMBDA p : p[1] = pair[1])
      isObject == \E type \in {"array", "object", "bytes", "map", "dom"} : IsA(pair[1], type)
  IN  IF at = 0 \/ isObject THEN Append(map, pair) ELSE [map EXCEPT ![at][2] = pair[2]]

decode(table, schema, r) ==
  LET kind == schema.kind
  IN  CASE kind = "unit" -> Give(r, Undefined)
        [] kind \in DOMAIN PRIMITIVES -> ReadPrimitive(PRIMITIVES[kind], r)
        [] kind = "ref" -> decode(table, table[schema.name], r)
        [] kind = "option" ->
             Then(Take(r, 1), LAMBDA s :
               IF s.out = <<0>> THEN Give(s, Undefined) ELSE decode(table, schema.inner, s))
        [] kind = "seq" /\ schema.inner.kind = "u8" ->
             Then(ReadBytes(r), LAMBDA s : Give(s, [bytes |-> s.out]))
        [] kind = "seq" /\ schema.inner.kind # "u8" ->
             Then(ReadVarint(r, Bits.U32), LAMBDA s :
               Then(decodeAll(table, Repeat(schema.inner, s.out), s),
                    LAMBDA t : Give(t, [array |-> t.out])))
        [] kind = "tuple" ->
             Then(decodeAll(table, schema.items, r), LAMBDA s : Give(s, [array |-> s.out]))
        [] kind = "map" ->
             Then(ReadVarint(r, Bits.U32), LAMBDA s :
               Then(ReadAll(LAMBDA p, q : decodeAll(table, p, q),
                            Repeat(<<schema.key, schema.value>>, s.out), s),
                    LAMBDA t : Give(t, [map |-> FoldLeft(SetPair, <<>>, t.out)])))
        [] kind = "struct" -> decodeFields(table, schema, r)
        [] kind = "enum" -> decodeEnum(table, schema, r)

-----------------------------------------------------------------------------
(* What encodeWire adds to a message.                                      *)
Tag(tag) == Message(WriteVarint(tag, Bits.U32), <<>>, <<>>)

encodeWire(table, d, x) ==
  CASE d.kind = "js" ->
         Join(Tag(WIRE_JS), Message(<<>>, <<x>>, IF d.transfer THEN <<x>> ELSE <<>>))
    [] d.kind = "postcard" ->
         LET inner == encode(table, d.schema, x)
         IN  Join(Tag(WIRE_BYTES), Message(WriteBytes(inner), <<>>, <<>>))
    [] d.kind = "inline" -> Message(encode(table, d.schema, x), <<>>, <<>>)
    [] d.kind = "option" ->
         IF x = Undefined THEN Tag(WIRE_NONE)
         ELSE Join(Tag(WIRE_SOME), encodeWire(table, d.inner, x))
    [] d.kind = "result" ->
         LET tag == Property(x, "tag")
         IN  CASE tag = [name |-> "Ok"] ->
                    Join(Tag(WIRE_OK), encodeWire(table, d.ok, Property(x, "value")))
               [] tag = [name |-> "Err"] ->
                    Join(Tag(WIRE_ERR), encodeWire(table, d.err, Property(x, "value")))
               [] OTHER -> Message(Thrown, <<>>, <<>>)

(* sub(): a reader of its own over a run of bytes; what it leaves unread   *)
(* is never looked at.                                                     *)
decodeSub(table, schema, r) ==
  Then(ReadBytes(r), LAMBDA s :
    LET sub == decode(table, schema, Read(s.out, <<>>))
    IN  [s EXCEPT !.out = sub.out, !.ok = sub.ok])

decodeWire(table, d, r) ==
  IF d.kind = "inline" THEN decode(table, d.schema, r)
  ELSE Then(ReadVarint(r, Bits.U32), LAMBDA s :
    CASE d.kind = "js" /\ s.out = WIRE_JS -> Shift(s, Undefined)
      [] d.kind = "postcard" /\ s.out = WIRE_BYTES -> decodeSub(table, d.schema, s)
      [] d.kind = "option" /\ s.out = WIRE_NONE -> Give(s, Undefined)
      [] d.kind = "option" /\ s.out = WIRE_SOME -> decodeWire(table, d.inner, s)
      [] d.kind = "result" /\ s.out = WIRE_OK ->
           Then(decodeWire(table, d.ok, s), LAMBDA t : Give(t, Tagged("Ok", t.out)))
      [] d.kind = "result" /\ s.out = WIRE_ERR ->
           Then(decodeWire(table, d.err, s), LAMBDA t : Give(t, Tagged("Err", t.out)))
      [] OTHER -> Fail(s))
=============================================================================
