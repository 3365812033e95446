--------------------------- MODULE ShellPrimitives --------------------------
(***************************************************************************)
(* Writer and Reader of endpoint.mjs: how a JavaScript value that has no   *)
(* parts becomes bytes, and bytes such a value.                            *)
(*                                                                         *)
(* A JavaScript value is a record with one field that says what it is:     *)
(* number, bigint, boolean, string (of text), name (a string that is the   *)
(* tag of a variant), bytes (a Uint8Array), array, map (the pairs of a     *)
(* Map), object (a function of its property names), dom (any other object  *)
(* of the page), error (an Error with its message), and undefined.         *)
(*                                                                         *)
(* What is written is a sequence of bytes; a writer that throws has        *)
(* written Thrown, which no message contains.                              *)
(***************************************************************************)
EXTENDS Bytes

Undefined == [undefined |-> TRUE]
Thrown == <<-1>>
IsA(x, type) == type \in DOMAIN x
Property(x, name) ==
  IF IsA(x, "object") /\ name \in DOMAIN x.object THEN x.object[name] ELSE Undefined

(* WireArg, by declaration order.                                          *)
WIRE_JS == 0
WIRE_BYTES == 1
WIRE_NONE == 2
WIRE_SOME == 3
WIRE_OK == 4
WIRE_ERR == 5

PRIMITIVES ==
  [bool |-> "bool", u8 |-> "u8", i8 |-> "i8", u16 |-> "varint32", u32 |-> "varint32",
   i16 |-> "zigzag32", i32 |-> "zigzag32", u64 |-> "varint64", i64 |-> "zigzag64",
   u128 |-> "varint128", i128 |-> "zigzag128", f32 |-> "f32", f64 |-> "f64",
   char |-> "string", string |-> "string", bytes |-> "bytes"]

(* What a value of Rust that has no parts is to a JavaScript program, by   *)
(* the type that dts.rs declares for it.                                   *)
PrimitiveForm(is, v) ==
  CASE is = "Bool" -> [boolean |-> v.bool]
    [] is \in {"U64", "I64", "U128", "I128"} -> [bigint |-> v.num]
    [] is \in {"U8", "I8", "U16", "I16", "U32", "I32", "F32", "F64"} -> [number |-> v.num]
    [] is \in {"Char", "String"} -> [string |-> v.text]
    [] is = "ByteArray" -> [bytes |-> v.bytes]

-----------------------------------------------------------------------------
(* Writer.                                                                 *)
(* rest holds the value when the loop begins, and after each round what is *)
(* left of it to write; the last byte is that of the first small enough.   *)
WriteVarint(value, bits) ==
  LET rest[round \in Nat] ==
        IF round = 0 THEN value % Power(2)[bits] ELSE rest[round - 1] \div Group
      rounds == CHOOSE k \in 0 .. rest[0] :
                  rest[k] < Group /\ \A j \in 0 .. k - 1 : rest[j] >= Group
  IN  [i \in 1 .. rounds + 1 |->
        IF i <= rounds THEN (rest[i - 1] % Group) + Group ELSE rest[rounds]]

(* Mistake: the bits are written as they are.                              *)
WriteSigned(value, bits) == WriteVarint(value, bits)

(* (value << 1) ^ (value >> 31), and the same with 63 and 127.             *)
WriteZigzag(value, bits) == WriteVarint(IF value < 0 THEN -2 * value - 1 ELSE 2 * value, bits)

WriteBytes(view) == WriteVarint(Len(view), Bits.U32) \o view
WriteFloat(pattern, size) == Digits(pattern, Byte, size)

(* A value of another type than its method takes throws here; in the code  *)
(* some of those are converted.  A typed caller passes none.               *)
Write(method, x) ==
  CASE method = "bool" /\ IsA(x, "boolean") -> <<IF x.boolean THEN 1 ELSE 0>>
    [] method \in {"u8", "i8"} /\ IsA(x, "number") ->
         <<(IF x.number < 0 THEN x.number + Byte ELSE x.number) % Byte>>
    [] method = "varint32" /\ IsA(x, "number") -> WriteVarint(x.number, Bits.U32)
    [] method = "zigzag32" /\ IsA(x, "number") -> WriteZigzag(x.number, Bits.U32)
    [] method = "varint64" /\ IsA(x, "bigint") -> WriteVarint(x.bigint, Bits.U64)
    [] method = "zigzag64" /\ IsA(x, "bigint") -> WriteZigzag(x.bigint, Bits.U64)
    [] method = "varint128" /\ IsA(x, "bigint") -> WriteVarint(x.bigint, Bits.U128)
    [] method = "zigzag128" /\ IsA(x, "bigint") -> WriteZigzag(x.bigint, Bits.U128)
    [] method = "f32" /\ IsA(x, "number") -> WriteFloat(x.number, 2)
    [] method = "f64" /\ IsA(x, "number") -> WriteFloat(x.number, 3)
    [] method = "string" /\ IsA(x, "string") -> WriteBytes(TextBytes(x.string))
    [] method = "bytes" /\ IsA(x, "bytes") -> WriteBytes(x.bytes)
    [] OTHER -> Thrown

-----------------------------------------------------------------------------
(* Reader.                                                                 *)
(* The loop ends at the first byte that says no more follow.  varint32     *)
(* adds up a double, which is exact for as many bytes as a u32 may take.   *)
ReadVarint(r, bits) ==
  LET ends == {k \in DOMAIN r.in : r.in[k] < Group /\ \A j \in 1 .. k - 1 : r.in[j] >= Group}
      rounds == CHOOSE k \in ends : TRUE
      value == NumberOf([i \in 1 .. rounds |-> r.in[i] % Group], Group)
  IN  IF ends = {} THEN Fail(r) ELSE Give(Take(r, rounds), value % Power(2)[bits])

ReadZigzag(r, bits) ==
  Then(ReadVarint(r, bits), LAMBDA s :
    Give(s, IF s.out % 2 = 0 THEN s.out \div 2 ELSE -(s.out \div 2) - 1))

ReadBytes(r) == Then(ReadVarint(r, Bits.U32), LAMBDA s : Take(s, s.out))
ReadFloat(r, size) == Then(Take(r, size), LAMBDA s : Give(s, [number |-> NumberOf(s.out, Byte)]))

Number(r) == Then(r, LAMBDA s : Give(s, [number |-> s.out]))
BigInt(r) == Then(r, LAMBDA s : Give(s, [bigint |-> s.out]))

ReadPrimitive(method, r) ==
  CASE method = "bool" -> Then(Take(r, 1), LAMBDA s : Give(s, [boolean |-> s.out # <<0>>]))
    [] method = "u8" -> Then(Take(r, 1), LAMBDA s : Give(s, [number |-> s.out[1]]))
    [] method = "i8" ->
         Then(Take(r, 1), LAMBDA s :
           Give(s, [number |-> IF s.out[1] >= Group THEN s.out[1] - Byte ELSE s.out[1]]))
    [] method = "varint32" -> Number(ReadVarint(r, Bits.U32))
    [] method = "zigzag32" -> Number(ReadZigzag(r, Bits.U32))
    [] method = "varint64" -> BigInt(ReadVarint(r, Bits.U64))
    [] method = "zigzag64" -> BigInt(ReadZigzag(r, Bits.U64))
    [] method = "varint128" -> BigInt(ReadVarint(r, Bits.U128))
    [] method = "zigzag128" -> BigInt(ReadZigzag(r, Bits.U128))
    [] method = "f32" -> ReadFloat(r, 2)
    [] method = "f64" -> ReadFloat(r, 3)
    [] method = "string" ->
         Then(ReadBytes(r), LAMBDA s :
           IF Texts(s.out) = {} THEN Fail(s)
           ELSE Give(s, [string |-> CHOOSE t \in Texts(s.out) : TRUE]))
    [] method = "bytes" -> Then(ReadBytes(r), LAMBDA s : Give(s, [bytes |-> s.out]))
=============================================================================
