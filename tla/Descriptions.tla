---------------------------- MODULE Descriptions ----------------------------
(***************************************************************************)
(* What the generator knows of a trait at compile time: describe.rs, the   *)
(* schemas of postcard-schema that it points to, and the numbering of      *)
(* methods in js/mod.rs.                                                   *)
(*                                                                         *)
(* A &'static NamedType is a key of NamedTypes.  Its type is a record: is  *)
(* is the variant of DataModelType, of the types it is made of, names the  *)
(* names of its fields; an Enum has variants instead, which are records of *)
(* the same form with a name.  So two keys may stand for equal schemas, or *)
(* for different schemas of one name.                                      *)
(***************************************************************************)
EXTENDS Naturals, Sequences, SequencesExt

CONSTANT NamedTypes

Leaf(is) == [is |-> is, of |-> <<>>, names |-> <<>>]
Made(is, of) == [is |-> is, of |-> of, names |-> <<>>]
Fields(names, of) == [is |-> "Struct", of |-> of, names |-> names]

UnitVariant(name) == [name |-> name, is |-> "UnitVariant", of |-> <<>>, names |-> <<>>]
NewtypeVariant(name, inner) ==
  [name |-> name, is |-> "NewtypeVariant", of |-> <<inner>>, names |-> <<>>]
TupleVariant(name, of) == [name |-> name, is |-> "TupleVariant", of |-> of, names |-> <<>>]
StructVariant(name, names, of) ==
  [name |-> name, is |-> "StructVariant", of |-> of, names |-> names]
Enum(variants) == [is |-> "Enum", variants |-> variants]

Ty(id) == NamedTypes[id].ty
Name(id) == NamedTypes[id].name

(* What a type is made of, in order.                                       *)
Parts(ty) ==
  IF ty.is = "Enum" THEN FlattenSeq([i \in DOMAIN ty.variants |-> ty.variants[i].of]) ELSE ty.of

ASSUME NamedTypesAssumption ==
  \A id \in DOMAIN NamedTypes : \A i \in DOMAIN Parts(Ty(id)) : Parts(Ty(id))[i] \in DOMAIN NamedTypes

(* describe::Desc: how a value crosses.                                    *)
Js(name, transfer) == [desc |-> "Js", name |-> name, transfer |-> transfer]
Postcard(id) == [desc |-> "Postcard", type |-> id]
Inline(id) == [desc |-> "Inline", type |-> id]
Option(inner) == [desc |-> "Option", inner |-> inner]
Result(ok, err) == [desc |-> "Result", ok |-> ok, err |-> err]

(* describe::Return.                                                       *)
Notify == [kind |-> "notify"]
Value(desc) == [kind |-> "value", desc |-> desc]
Stream(desc) == [kind |-> "stream", desc |-> desc]

(* How SCHEMAS names the types that have no parts.                         *)
SchemaKinds ==
  [Bool |-> "bool", U8 |-> "u8", I8 |-> "i8", U16 |-> "u16", I16 |-> "i16", U32 |-> "u32",
   I32 |-> "i32", U64 |-> "u64", I64 |-> "i64", U128 |-> "u128", I128 |-> "i128",
   Usize |-> "u64", Isize |-> "i64",
   F32 |-> "f32", F64 |-> "f64", Char |-> "char", String |-> "string", ByteArray |-> "bytes",
   Unit |-> "unit", UnitStruct |-> "unit"]

IsUnitOnly(variants) == \A i \in DOMAIN variants : variants[i].is = "UnitVariant"

-----------------------------------------------------------------------------
method_count(service) == Len(FlattenSeq(service.methods))

(* A service keeps one slice per method of the trait, empty if cfg removed *)
(* the method; what is left is numbered from 0.                            *)
method_at(service, index) == FlattenSeq(service.methods)[index + 1]

Methods(service) == [i \in 1 .. method_count(service) |-> method_at(service, i - 1)]
=============================================================================
