-------------------------------- MODULE Bytes -------------------------------
(***************************************************************************)
(* The scale of a message, and how both ends read one.                     *)
(*                                                                         *)
(* A byte of a varint carries GroupBits bits and one that says whether     *)
(* more follow: 7 and 1 in the code, fewer here, so that small numbers     *)
(* already take several bytes.  Bits gives the width of each number type.  *)
(*                                                                         *)
(* A reader is a record: the bytes and the JavaScript values it has yet to *)
(* consume, what it last read, and whether it has thrown or panicked,      *)
(* after which it reads nothing more.                                      *)
(***************************************************************************)
EXTENDS Integers, Sequences, SequencesExt

CONSTANTS
  GroupBits,   \* bits of a number in one byte of a varint
  Bits,        \* the width of each type of number
  Utf8         \* the bytes of each character

(* Power(base)[k] is base to the k, as a recursive function: the provers   *)
(* know nothing of the operator ^.                                         *)
Power(base) == LET power[k \in Nat] == IF k = 0 THEN 1 ELSE base * power[k - 1] IN power

Group == Power(2)[GroupBits]
Byte == 2 * Group

ASSUME ScaleAssumption ==
  /\ GroupBits \in Nat \ {0}
  /\ \A t \in DOMAIN Bits : Bits[t] \in Nat /\ Bits[t] > GroupBits

(* A signed type is as wide as the unsigned one, and no 16 bits are wider  *)
(* than 32: u16 and i16 cross with the varints of u32 and i32.             *)
ASSUME WidthsAssumption ==
  /\ {"I16", "U16", "I32", "U32", "I64", "U64", "I128", "U128"} \subseteq DOMAIN Bits
  /\ Bits.I16 = Bits.U16 /\ Bits.I32 = Bits.U32 /\ Bits.I64 = Bits.U64 /\ Bits.I128 = Bits.U128
  /\ Bits.U16 <= Bits.U32

(* No character begins with the bytes of another.                          *)
ASSUME Utf8Assumption ==
  /\ \A c \in DOMAIN Utf8 : Utf8[c] \in Seq(0 .. Byte - 1) /\ Utf8[c] # <<>>
  /\ \A c, d \in DOMAIN Utf8 : IsPrefix(Utf8[c], Utf8[d]) => c = d

(* The k lowest digits of n, the lowest first, and the number they are of. *)
Digits(n, base, k) == [i \in 1 .. k |-> (n \div Power(base)[i - 1]) % base]
NumberOf(digits, base) ==
  LET sum[k \in 0 .. Len(digits)] ==
        IF k = 0 THEN 0 ELSE sum[k - 1] + digits[k] * Power(base)[k - 1]
  IN  sum[Len(digits)]

TextBytes(text) == FlattenSeq([i \in DOMAIN text |-> Utf8[text[i]]])

(* The texts that have these bytes: one, or none if they are not UTF-8.    *)
Texts(bytes) ==
  {text \in BoundedSeq(DOMAIN Utf8, Len(bytes)) : TextBytes(text) = bytes}

-----------------------------------------------------------------------------
(* A message, or a part of one: bytes, the JavaScript values beside them,  *)
(* and those among them that are transferred.                              *)
Message(bytes, js, transfer) == [bytes |-> bytes, js |-> js, transfer |-> transfer]
Join(a, b) == Message(a.bytes \o b.bytes, a.js \o b.js, a.transfer \o b.transfer)

Read(in, js) == [in |-> in, js |-> js, out |-> <<>>, ok |-> TRUE]
Give(r, value) == [r EXCEPT !.out = value]
Fail(r) == [r EXCEPT !.ok = FALSE]

Then(r, Continue(_)) == IF r.ok THEN Continue(r) ELSE r

(* The next n bytes.                                                       *)
Take(r, n) ==
  IF n > Len(r.in) THEN Fail(r)
  ELSE [r EXCEPT !.out = SubSeq(r.in, 1, n), !.in = SubSeq(@, n + 1, Len(@))]

(* The next JavaScript value; shift() of an empty array is undefined.      *)
Shift(r, undefined) ==
  IF r.js = <<>> THEN Give(r, undefined)
  ELSE [r EXCEPT !.out = Head(r.js), !.js = Tail(@)]

(* One value after another, each as its description says.                  *)
ReadAll(ReadOne(_, _), descriptions, r) ==
  FoldLeft(LAMBDA acc, d :
             Then(acc, LAMBDA s :
               LET one == ReadOne(d, s) IN Give(one, Append(s.out, one.out))),
           Give(r, <<>>), descriptions)

Repeat(description, n) == [i \in 1 .. n |-> description]
=============================================================================
