----------------------------- MODULE MCGenerated ----------------------------
(***************************************************************************)
(* Traits and types that exercise the generator, with values at the edges  *)
(* of their widths.                                                        *)
(***************************************************************************)
EXTENDS Generated

SmallBits ==
  [I8 |-> 3, U8 |-> 3, I16 |-> 5, U16 |-> 5, I32 |-> 6, U32 |-> 6,
   I64 |-> 8, U64 |-> 8, I128 |-> 10, U128 |-> 10]
TwoLetters == ("a" :> <<1>>) @@ ("é" :> <<6, 5>>)

Generics == {"[T]", "Vec<T>", "Option<T>", "HashMap<K, V>", "(A, B)", "()", "T"}

Plainly(name, ty) == [name |-> name, ty |-> ty]
Primitives ==
  [bool |-> Leaf("Bool"), u8 |-> Leaf("U8"), i8 |-> Leaf("I8"), u16 |-> Leaf("U16"),
   i16 |-> Leaf("I16"), u32 |-> Leaf("U32"), i32 |-> Leaf("I32"), u64 |-> Leaf("U64"),
   i64 |-> Leaf("I64"), u128 |-> Leaf("U128"), i128 |-> Leaf("I128"), f32 |-> Leaf("F32"),
   f64 |-> Leaf("F64"), char |-> Leaf("Char"), String |-> Leaf("String"), Bytes |-> Leaf("ByteArray")]

Shapes ==
  Enum(<<UnitVariant("Empty"), NewtypeVariant("Circle", "u16"), TupleVariant("Dot", <<"Color">>),
         TupleVariant("Box", <<"u8", "i16">>), StructVariant("At", <<"point", "label">>, <<"Point", "String">>)>>)

Types ==
  [p \in DOMAIN Primitives |-> Plainly("T", Primitives[p])] @@
  ("()" :> Plainly("()", Leaf("Unit"))) @@
  ("[u8]" :> Plainly("[T]", Made("Seq", <<"u8">>))) @@
  ("Vec<u8>" :> Plainly("Vec<T>", Made("Seq", <<"u8">>))) @@
  ("Vec<Point>" :> Plainly("Vec<T>", Made("Seq", <<"Point">>))) @@
  ("Vec<again::Point>" :> Plainly("Vec<T>", Made("Seq", <<"again::Point">>))) @@
  ("Vec<other::Point>" :> Plainly("Vec<T>", Made("Seq", <<"other::Point">>))) @@
  ("Option<Color>" :> Plainly("Option<T>", Made("Option", <<"Color">>))) @@
  ("(i8, Option<Color>)" :> Plainly("(A, B)", Made("Tuple", <<"i8", "Option<Color>">>))) @@
  ("HashMap<String, Point>" :> Plainly("HashMap<K, V>", Made("Map", <<"String", "Point">>))) @@
  ("Color" :> Plainly("Color", Enum(<<UnitVariant("Red"), UnitVariant("Green")>>))) @@
  ("Shape" :> Plainly("Shape", Shapes)) @@
  ("Point" :> Plainly("Point", Fields(<<"x", "y">>, <<"i16", "Meters">>))) @@
  ("again::Point" :> Plainly("Point", Fields(<<"x", "y">>, <<"i16", "Meters">>))) @@
  ("other::Point" :> Plainly("Point", Fields(<<"x", "y">>, <<"i16", "f32">>))) @@
  ("Meters" :> Plainly("Meters", Made("NewtypeStruct", <<"i32">>))) @@
  ("Pair" :> Plainly("Pair", Made("TupleStruct", <<"u128", "Marker">>))) @@
  ("Marker" :> Plainly("Marker", Leaf("UnitStruct"))) @@
  ("Size" :> Plainly("Size", Fields(<<"width">>, <<"u32">>))) @@
  ("Request" :> Plainly("Request", Fields(<<"id">>, <<"u32">>))) @@
  ("BadTag" :> Plainly("BadTag", Enum(<<StructVariant("Variant", <<"tag">>, <<"u32">>)>>)))

Itself == [t \in DOMAIN Types |-> t]
Classes == [ArrayBuffer |-> "ArrayBuffer", MessagePort |-> "MessagePort", JsValue |-> "unknown"]

Num(n) == [num |-> n]
Text(t) == [text |-> t]
Seq_(s) == [seq |-> s]
One(i) == [variant |-> i, fields |-> <<>>]
APoint == Seq_(<<Num(-16), Num(31)>>)

Tried ==
  [bool |-> {[bool |-> TRUE], [bool |-> FALSE]}, u8 |-> {Num(7)}, i8 |-> {Num(-4), Num(3)},
   u16 |-> {Num(0), Num(31)}, i16 |-> {Num(-16), Num(15)}, u32 |-> {Num(63)},
   i32 |-> {Num(-32), Num(31)}, u64 |-> {Num(255)}, i64 |-> {Num(-128), Num(127)},
   u128 |-> {Num(1023)}, i128 |-> {Num(-512), Num(511)}, f32 |-> {Num(42)}, f64 |-> {Num(300)},
   char |-> {Text(<<"é">>)}, String |-> {Text(<<>>), Text(<<"a", "é">>)},
   Bytes |-> {[bytes |-> <<7>>]}, Color |-> {One(1), One(2)}, Point |-> {APoint},
   Meters |-> {Num(5)}, Marker |-> {[unit |-> TRUE]},
   Pair |-> {Seq_(<<Num(1023), [unit |-> TRUE]>>)},
   Shape |-> {One(1), [variant |-> 2, fields |-> <<Num(9)>>], [variant |-> 3, fields |-> <<One(2)>>],
              [variant |-> 4, fields |-> <<Num(7), Num(-16)>>],
              [variant |-> 5, fields |-> <<APoint, Text(<<"a">>)>>]},
   Size |-> {}, Request |-> {}, BadTag |-> {[variant |-> 1, fields |-> <<Num(5)>>]}] @@
  ("()" :> {[unit |-> TRUE]}) @@
  ("Vec<u8>" :> {Seq_(<<>>), Seq_(<<Num(0), Num(7)>>)}) @@
  ("&[u8]" :> {Seq_(<<Num(7), Num(1), Num(2), Num(3), Num(4)>>)}) @@
  ("&str" :> {Text(<<"é", "a">>)}) @@
  ("Vec<Point>" :> {Seq_(<<>>), Seq_(<<APoint, APoint>>)}) @@
  ("again::Point" :> {APoint}) @@
  ("Vec<again::Point>" :> {Seq_(<<APoint>>)}) @@
  ("Option<Color>" :> {[opt |-> <<>>], [opt |-> <<One(1)>>]}) @@
  ("(i8, Option<Color>)" :> {Seq_(<<Num(-4), [opt |-> <<One(2)>>]>>)}) @@
  ("HashMap<String, Point>" :> {[map |-> <<<<Text(<<"a">>), APoint>>, <<Text(<<"é">>), APoint>>>>]})

-----------------------------------------------------------------------------
T(name) == Type(name, <<>>)
Opt(t) == Type("Option", <<t>>)
Res(t, e) == Type("Result", <<t, e>>)
Post(name) == Type("Post", <<T(name)>>)
Transfer(name) == Type("Transfer", <<T(name)>>)
StreamOf(t) == Type("impl Stream", <<t>>)

Arg(name, type) == [pat |-> "ident", name |-> <<name>>, type |-> type]
Letters == <<"a", "b", "c">>

(* A method that answers with argument number body, or with ().            *)
Fn(ident, types, ret, body) ==
  [ident |-> ident, attrs |-> <<>>, generics |-> FALSE, receiver |-> "&self",
   args |-> [i \in DOMAIN types |-> Arg(Letters[i], types[i])], ret |-> ret, body |-> body]
With(attrs, m) == [m EXCEPT !.attrs = attrs]
Trait(name, methods) == [ident |-> <<name>>, methods |-> methods]

Numbers ==
  Trait("Numbers",
    <<With(<<Cfg("legacy")>>, Fn(<<"old">>, <<T("u8")>>, <<T("u8")>>, 1)),
      Fn(<<"echo", "i8">>, <<T("i8"), T("u8")>>, <<T("i8")>>, 1),
      With(<<Cfg("wide"), Cfg("legacy")>>, Fn(<<"both">>, <<T("u64")>>, <<>>, 0)),
      With(<<Cfg("wide")>>, Fn(<<"wide">>, <<T("u64"), T("i64")>>, <<T("i64")>>, 2)),
      Fn(<<"huge">>, <<T("i128"), T("Pair")>>, <<T("i128")>>, 1),
      Fn(<<"", "float">>, <<T("f32"), T("f64")>>, <<T("f64")>>, 2),
      Fn(<<"delete">>, <<T("bool")>>, <<T("bool")>>, 1),
      Fn(<<"tell">>, <<T("u32"), T("i32")>>, <<>>, 0),
      Fn(<<"short">>, <<T("u16"), T("i16")>>, <<T("i16")>>, 2)>>)

Drawing ==
  Trait("Drawing",
    <<Fn(<<"draw">>, <<T("Shape")>>, <<T("Shape")>>, 1),
      Fn(<<"paint">>, <<T("Color"), Opt(T("Color"))>>, <<Opt(T("Color"))>>, 2),
      Fn(<<"many">>, <<T("Vec<Point>"), T("HashMap<String, Point>")>>, <<T("HashMap<String, Point>")>>, 2),
      Fn(<<"pair">>, <<T("(i8, Option<Color>)"), T("Meters")>>, <<T("Meters")>>, 2),
      Fn(<<"rest">>, <<T("Option<Color>")>>, <<T("()")>>, 0),
      Fn(<<"same">>, <<T("Vec<again::Point>")>>, <<T("Vec<again::Point>")>>, 1)>>)

Files ==
  Trait("Files",
    <<Fn(<<"name">>, <<T("&str"), T("&[u8]"), T("char")>>, <<T("char")>>, 3),
      Fn(<<"read">>, <<T("Vec<u8>"), T("Bytes")>>, <<T("Vec<u8>")>>, 1),
      Fn(<<"open">>, <<Transfer("MessagePort"), Opt(Post("ArrayBuffer")), Post("JsValue")>>,
         <<Opt(Post("ArrayBuffer"))>>, 2),
      Fn(<<"check">>, <<Res(T("u16"), T("String"))>>, <<Res(T("u16"), T("String"))>>, 1),
      Fn(<<"nested">>, <<Opt(Res(Post("ArrayBuffer"), T("Color"))), T("u8")>>,
         <<Opt(Res(Post("ArrayBuffer"), T("Color")))>>, 1),
      Fn(<<"watch">>, <<Res(T("u8"), T("Color")), Opt(T("u8"))>>,
         <<StreamOf(Res(T("u8"), T("Color")))>>, 1),
      Fn(<<"find">>, <<T("u8"), Opt(T("u8")), Opt(T("String"))>>, <<Opt(T("String"))>>, 3),
      Fn(<<"late">>, <<Opt(T("u8")), T("u8")>>, <<T("u8")>>, 2)>>)

(* Traits that the macro, rustc or the renderers refuse.                   *)
Takes(type) == Trait("Uses", <<Fn(<<"one">>, <<T("Point")>>, <<>>, 0), Fn(<<"two">>, <<T(type)>>, <<>>, 0)>>)
Good == Fn(<<"one">>, <<T("u8")>>, <<>>, 0)
Refused ==
  {Takes("Vec<other::Point>"), Takes("Request"), Takes("BadTag"),
   Trait("Uses", <<[Good EXCEPT !.generics = TRUE]>>),
   Trait("Uses", <<[Good EXCEPT !.receiver = "&mut self"]>>),
   Trait("Uses", <<[Good EXCEPT !.args[1].pat = "tuple"]>>),
   Trait("Uses", <<Good, [Good EXCEPT !.ident = <<"", "one">>]>>),
   Trait("Uses", <<Fn(<<"all">>, <<T("Shape"), T("Color"), T("Pair")>>, <<T("Point")>>, 0),
                   Fn(<<"more">>, <<T("Size")>>, <<>>, 0)>>)}

(* Of two methods with one name, cfg keeps one.                            *)
Alternatives ==
  Trait("Uses", <<With(<<Cfg("legacy")>>, Good), With(<<Cfg("wide")>>, Good),
                  [Good EXCEPT !.ident = <<"two">>]>>)

Key(key, name, kind) == [key |-> key, path |-> <<name, kind>>]
Input(args, traits) == [args |-> args, traits |-> traits, flags |-> {"wide"}]
Three == <<Numbers, Drawing, Files>>

Projects ==
  {Input(<<Key("service", "Drawing", "Service"), Key("client", "Numbers", "Client")>>, Three),
   Input(<<Key("client", "Files", "Client"), Key("service", "Numbers", "Service")>>, Three),
   Input(<<Key("service", "Files", "Service"), Key("client", "Drawing", "Client")>>, Three),
   Input(<<Key("client", "Uses", "Client")>>, <<Alternatives>>)} \cup
  {Input(<<Key("client", "Uses", "Client")>>, <<t>>) : t \in Refused} \cup
  {Input(args, <<Alternatives>>) : args \in
    {<<>>, <<Key("server", "Uses", "Service")>>, <<Key("client", "Uses", "Caller")>>,
     <<Key("client", "Used", "Client")>>,
     <<Key("client", "Uses", "Client"), Key("client", "Uses", "Client")>>}}

(* A cfg_attr that brings in a cfg.                                        *)
Deprecated ==
  Trait("Uses", <<With(<<CfgAttr("wide", Cfg("legacy"))>>, Good), [Good EXCEPT !.ident = <<"two">>],
                  [Good EXCEPT !.ident = <<"three">>]>>)
CfgAttrProjects == {Input(<<Key("client", "Uses", "Client")>>, <<Deprecated>>)}
=============================================================================
