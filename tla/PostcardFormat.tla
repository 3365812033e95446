--------------------------- MODULE PostcardFormat ---------------------------
(***************************************************************************)
(* The postcard encoding as serde and the postcard crate produce it for    *)
(* the Rust end, directed by the schema of a type, and on top of it        *)
(* WireArg of codec.rs and the variants of the generated enums.            *)
(*                                                                         *)
(* A Rust value is a record with one field that says what it is: num (an   *)
(* integer, or the bit pattern of a float), bool, text, bytes, unit, opt   *)
(* (a sequence of at most one value), seq (a Vec, a tuple or the fields of *)
(* a struct), map (a sequence of pairs), variant with its fields, and dom  *)
(* (an object of JavaScript, which never becomes bytes).                   *)
(***************************************************************************)
EXTENDS PostcardPrimitives, Descriptions

RECURSIVE Ser(_, _), De(_, _)

SerAll(ids, values) == FlattenSeq([i \in DOMAIN ids |-> Ser(ids[i], values[i])])

(* to_allocvec                                                             *)
Ser(id, v) ==
  LET ty == Ty(id)
      is == ty.is
  IN  CASE is \in PrimitiveTypes -> SerPrimitive(is, v)
        [] is \in {"Unit", "UnitStruct"} -> <<>>
        [] is = "Option" -> IF v.opt = <<>> THEN <<0>> ELSE <<1>> \o Ser(ty.of[1], v.opt[1])
        [] is = "NewtypeStruct" -> Ser(ty.of[1], v)
        [] is = "Seq" -> Varint(Len(v.seq)) \o SerAll(Repeat(ty.of[1], Len(v.seq)), v.seq)
        [] is \in {"Tuple", "TupleStruct", "Struct"} -> SerAll(ty.of, v.seq)
        [] is = "Map" ->
             Varint(Len(v.map)) \o FlattenSeq([i \in DOMAIN v.map |-> SerAll(ty.of, v.map[i])])
        [] is = "Enum" -> Varint(v.variant - 1) \o SerAll(ty.variants[v.variant].of, v.fields)

(* from_bytes; only what Ser and the JavaScript codec write is read here.  *)
De(id, r) ==
  LET ty == Ty(id)
      is == ty.is
      Many(ids, s) == ReadAll(De, ids, s)
  IN  CASE is \in PrimitiveTypes -> DePrimitive(is, r)
        [] is \in {"Unit", "UnitStruct"} -> Give(r, [unit |-> TRUE])
        [] is = "Option" ->
             Then(Take(r, 1), LAMBDA s :
               CASE s.out = <<0>> -> Give(s, [opt |-> <<>>])
                 [] s.out = <<1>> -> Then(De(ty.of[1], s), LAMBDA t : Give(t, [opt |-> <<t.out>>]))
                 [] OTHER -> Fail(s))
        [] is = "NewtypeStruct" -> De(ty.of[1], r)
        [] is = "Seq" ->
             Then(DeVarint(r, Bits.U32), LAMBDA s :
               Then(Many(Repeat(ty.of[1], s.out), s), LAMBDA t : Give(t, [seq |-> t.out])))
        [] is \in {"Tuple", "TupleStruct", "Struct"} ->
             Then(Many(ty.of, r), LAMBDA s : Give(s, [seq |-> s.out]))
        [] is = "Map" ->
             Then(DeVarint(r, Bits.U32), LAMBDA s :
               Then(ReadAll(LAMBDA pair, t : Many(pair, t), Repeat(ty.of, s.out), s),
                    LAMBDA t : Give(t, [map |-> t.out])))
        [] is = "Enum" ->
             Then(DeVarint(r, Bits.U32), LAMBDA s :
               IF s.out >= Len(ty.variants) THEN Fail(s)
               ELSE Then(Many(ty.variants[s.out + 1].of, s), LAMBDA t :
                      Give(t, [variant |-> s.out + 1, fields |-> t.out])))

-----------------------------------------------------------------------------
(* codec.rs: its variants in the order of their declaration.               *)
WireArgs == <<"Js", "Bytes", "None", "Some", "Ok", "Err">>
WireArg(wire, of) == [wire |-> wire, of |-> of]

RECURSIVE SerWire(_), DeWire(_)

SerWire(w) ==
  Varint(SelectInSeq(WireArgs, LAMBDA x : x = w.wire) - 1) \o
  CASE w.wire = "Bytes" -> Prefixed(w.of)
    [] w.wire \in {"Js", "None"} -> <<>>
    [] w.wire \in {"Some", "Ok", "Err"} -> SerWire(w.of)

DeWire(r) ==
  Then(DeVarint(r, Bits.U32), LAMBDA s :
    IF s.out >= Len(WireArgs) THEN Fail(s)
    ELSE LET wire == WireArgs[s.out + 1]
             of == CASE wire = "Bytes" -> DePrefixed(s)
                     [] wire \in {"Js", "None"} -> Give(s, <<>>)
                     [] OTHER -> DeWire(s)
         IN  Then(of, LAMBDA t : Give(t, WireArg(wire, t.out))))
=============================================================================
