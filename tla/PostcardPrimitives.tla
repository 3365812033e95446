------------------------- MODULE PostcardPrimitives -------------------------
(***************************************************************************)
(* The postcard encoding of what has no parts: numbers, booleans, text and *)
(* runs of bytes, as the postcard crate writes and reads them.             *)
(***************************************************************************)
EXTENDS Bytes

Signed == {"I16", "I32", "I64", "I128"}
Unsigned == {"U16", "U32", "U64", "U128"}
FloatBytes == [F32 |-> 2, F64 |-> 3]
PrimitiveTypes ==
  {"Bool", "U8", "I8", "F32", "F64", "Char", "String", "ByteArray"} \cup Signed \cup Unsigned

(* A varint has the fewest bytes that hold the number.                     *)
VarintLength(n) ==
  CHOOSE k \in 1 .. n + 1 : n < Power(Group)[k] /\ (k = 1 \/ Power(Group)[k - 1] <= n)

Varint(n) ==
  LET digits == Digits(n, Group, VarintLength(n))
  IN  [i \in DOMAIN digits |-> digits[i] + (IF i < Len(digits) THEN Group ELSE 0)]

(* A number of so many bits may take k bytes.                              *)
VarintMay(k, bits) == k = 1 \/ Power(Group)[k - 1] < Power(2)[bits]

DeVarint(r, bits) ==
  LET ends == {i \in DOMAIN r.in : r.in[i] < Group}
      k == CHOOSE i \in ends : \A j \in ends : i <= j
      n == NumberOf([i \in 1 .. k |-> r.in[i] % Group], Group)
  IN  IF ends = {} \/ ~ VarintMay(k, bits) \/ n >= Power(2)[bits] THEN Fail(r)
      ELSE Give(Take(r, k), n)

ZigZag(n) == IF n >= 0 THEN 2 * n ELSE -2 * n - 1
UnZigZag(n) == IF n % 2 = 0 THEN n \div 2 ELSE -((n + 1) \div 2)

Prefixed(bytes) == Varint(Len(bytes)) \o bytes
DePrefixed(r) == Then(DeVarint(r, Bits.U32), LAMBDA s : Take(s, s.out))

-----------------------------------------------------------------------------
(* The values of a type: a number that fits its width, a run of bytes      *)
(* whose length does.                                                      *)
IsPrimitive(is, v) ==
  CASE is = "Bool" -> v \in [bool : BOOLEAN]
    [] is = "U8" -> v \in [num : 0 .. Byte - 1]
    [] is = "I8" -> v \in [num : -Group .. Group - 1]
    [] is \in Unsigned -> v \in [num : 0 .. Power(2)[Bits[is]] - 1]
    [] is \in Signed -> v \in [num : -Power(2)[Bits[is] - 1] .. Power(2)[Bits[is] - 1] - 1]
    [] is \in {"F32", "F64"} -> v \in [num : 0 .. Power(Byte)[FloatBytes[is]] - 1]
    [] is \in {"Char", "String"} ->
         v \in [text : Seq(DOMAIN Utf8)] /\ Len(TextBytes(v.text)) < Power(2)[Bits.U32]
    [] is = "ByteArray" -> v \in [bytes : Seq(0 .. Byte - 1)] /\ Len(v.bytes) < Power(2)[Bits.U32]

SerPrimitive(is, v) ==
  CASE is = "Bool" -> <<IF v.bool THEN 1 ELSE 0>>
    [] is \in {"U8", "I8"} -> <<v.num % Byte>>
    [] is \in Unsigned -> Varint(v.num)
    [] is \in Signed -> Varint(ZigZag(v.num))
    [] is \in {"F32", "F64"} -> Digits(v.num, Byte, FloatBytes[is])
    [] is \in {"Char", "String"} -> Prefixed(TextBytes(v.text))
    [] is = "ByteArray" -> Prefixed(v.bytes)

DePrimitive(is, r) ==
  CASE is = "Bool" ->
         Then(Take(r, 1), LAMBDA s : IF s.out[1] > 1 THEN Fail(s) ELSE Give(s, [bool |-> s.out[1] = 1]))
    [] is = "U8" -> Then(Take(r, 1), LAMBDA s : Give(s, [num |-> s.out[1]]))
    [] is = "I8" ->
         Then(Take(r, 1), LAMBDA s :
           Give(s, [num |-> IF s.out[1] < Group THEN s.out[1] ELSE s.out[1] - Byte]))
    [] is \in Unsigned -> Then(DeVarint(r, Bits[is]), LAMBDA s : Give(s, [num |-> s.out]))
    [] is \in Signed -> Then(DeVarint(r, Bits[is]), LAMBDA s : Give(s, [num |-> UnZigZag(s.out)]))
    [] is \in {"F32", "F64"} ->
         Then(Take(r, FloatBytes[is]), LAMBDA s : Give(s, [num |-> NumberOf(s.out, Byte)]))
    [] is \in {"Char", "String"} ->
         Then(DePrefixed(r), LAMBDA s :
           IF Texts(s.out) = {} THEN Fail(s)
           ELSE Give(s, [text |-> CHOOSE t \in Texts(s.out) : TRUE]))
    [] is = "ByteArray" -> Then(DePrefixed(r), LAMBDA s : Give(s, [bytes |-> s.out]))
=============================================================================
