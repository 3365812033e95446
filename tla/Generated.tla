------------------------------ MODULE Generated -----------------------------
(***************************************************************************)
(* One endpoint from its source to its calls.  A developer writes traits,  *)
(* and asks js::endpoint! for the other end of a connection; the macro and *)
(* the renderers reject it or make a module and its declarations.  Then    *)
(* the endpoint and the Rust end call each other, one call at a time: what *)
(* crosses is a message of bytes and JavaScript values, which the code     *)
(* generated for one language wrote and that for the other reads.          *)
(*                                                                         *)
(* Every method answers with one of its arguments, or with ().             *)
(***************************************************************************)
EXTENDS Macro, TypeScript

CONSTANTS
  Inputs,   \* what developers write: [args, traits, flags]
  Values    \* the values tried of each type that is not a wrapper

VARIABLES
  input,      \* what this developer wrote
  progress,   \* written, then rejected, or built, then ready or unusable
  module,     \* the .mjs
  declared,   \* the .d.ts
  handlers,   \* the names the embedder has implemented
  call        \* the call in flight

vars == <<input, progress, module, declared, handlers, call>>

(* A value of a type without parts fits its width.                         *)
ASSUME ValuesAssumption ==
  \A t \in DOMAIN Values \cap DOMAIN Schema :
    Ty(Schema[t]).is \in PrimitiveTypes =>
      \A v \in Values[t] : IsPrimitive(Ty(Schema[t]).is, v)

-----------------------------------------------------------------------------
(* The two traits of an endpoint, as sequences of at most one.  JavaScript *)
(* calls the trait of client = and serves that of service =.               *)
TraitOf(key) ==
  FlattenSeq([i \in DOMAIN Keyed(input.args, key) |->
               description_path(input.traits, Keyed(input.args, key)[i].path)])

DescriptionOf(key) ==
  [i \in DOMAIN TraitOf(key) |-> const_description(TraitOf(key)[i], input.flags)]

TheEndpoint == [service |-> DescriptionOf("service"), client |-> DescriptionOf("client")]

Resolves(key) == Len(TraitOf(key)) = Len(Keyed(input.args, key))

(* The trait a call goes to, when it comes from this language.             *)
Called(from) == TraitOf(IF from = "js" THEN "client" ELSE "service")
Variants(from) ==
  FlattenSeq([i \in DOMAIN Called(from) |-> enum_request(Called(from)[i], input.flags)])
MethodsOf(from) ==
  FlattenSeq([i \in DOMAIN Called(from) |->
               SelectSeq(Called(from)[i].methods, LAMBDA m : Enabled(m, input.flags))])

NameOf(m) == put_ident(to_lower_camel(m.ident))
IndexIn(methods, name) == SelectInSeq(methods, LAMBDA m : NameOf(m) = name)
Source(from, name) == MethodsOf(from)[IndexIn(MethodsOf(from), name)]
OutputType(m) == MethodOutput(m).type

-----------------------------------------------------------------------------
(* What a value of Rust is to a JavaScript program: the table in the doc   *)
(* comment of Codec.                                                       *)
RECURSIVE Form(_, _), WireForm(_, _)

Forms(ids, values) == [i \in DOMAIN ids |-> Form(ids[i], values[i])]

VariantForm(v, values) ==
  CASE v.is = "UnitVariant" -> [object |-> "tag" :> [name |-> v.name]]
    [] v.is # "UnitVariant" /\ v.is # "StructVariant" /\ Len(v.of) = 1 ->
         Tagged(v.name, Form(v.of[1], values[1]))
    [] v.is = "TupleVariant" /\ Len(v.of) # 1 -> Tagged(v.name, [array |-> Forms(v.of, values)])
    [] v.is = "StructVariant" ->
         [object |-> ("tag" :> [name |-> v.name]) @@ Object(v.names, Forms(v.of, values)).object]

Form(id, v) ==
  LET ty == Ty(id)
      is == ty.is
  IN  CASE is \in PrimitiveTypes -> PrimitiveForm(is, v)
        [] is \in {"Unit", "UnitStruct"} -> Undefined
        [] is = "Option" -> IF v.opt = <<>> THEN Undefined ELSE Form(ty.of[1], v.opt[1])
        [] is = "NewtypeStruct" -> Form(ty.of[1], v)
        [] is = "Seq" /\ Ty(ty.of[1]).is = "U8" -> [bytes |-> [i \in DOMAIN v.seq |-> v.seq[i].num]]
        [] is = "Seq" /\ Ty(ty.of[1]).is # "U8" ->
             [array |-> Forms(Repeat(ty.of[1], Len(v.seq)), v.seq)]
        [] is \in {"Tuple", "TupleStruct"} -> [array |-> Forms(ty.of, v.seq)]
        [] is = "Map" -> [map |-> [i \in DOMAIN v.map |-> Forms(ty.of, v.map[i])]]
        [] is = "Struct" -> Object(ty.names, Forms(ty.of, v.seq))
        [] is = "Enum" /\ IsUnitOnly(ty.variants) -> [name |-> ty.variants[v.variant].name]
        [] is = "Enum" /\ ~ IsUnitOnly(ty.variants) -> VariantForm(ty.variants[v.variant], v.fields)

SchemaOf(ty) == Schema[IF is_borrowed_serde_ref(ty) THEN BorrowedSchema[ty.head] ELSE ty.head]

WireForm(ty, v) ==
  CASE IsOption(ty) -> IF v.opt = <<>> THEN Undefined ELSE WireForm(ty.args[1], v.opt[1])
    [] IsResult(ty) ->
         Tagged(IF v.variant = 1 THEN "Ok" ELSE "Err", WireForm(ty.args[v.variant], v.fields[1]))
    [] IsJs(ty) -> v
    [] OTHER -> Form(SchemaOf(ty), v)

RECURSIVE ValuesOf(_)
ValuesOf(ty) ==
  CASE IsOption(ty) -> {[opt |-> <<>>]} \cup {[opt |-> <<v>>] : v \in ValuesOf(ty.args[1])}
    [] IsResult(ty) -> UNION {{[variant |-> i, fields |-> <<v>>] : v \in ValuesOf(ty.args[i])} : i \in 1 .. 2}
    [] IsJs(ty) -> {[dom |-> [class |-> JsName[ty.args[1].head], object |-> 1]]}
    [] OTHER -> Values[ty.head]

RECURSIVE ArgumentLists(_)
ArgumentLists(types) ==
  IF types = <<>> THEN {<<>>}
  ELSE {<<v>> \o rest : v \in ValuesOf(Head(types)), rest \in ArgumentLists(Tail(types))}

Arguments(m, values) == [i \in DOMAIN values |-> WireForm(m.args[i].type, values[i])]

-----------------------------------------------------------------------------
(* The generated .mjs at work.  args[position] is undefined past the end.  *)
EncodeCall(methods, index, args) ==
  LET descriptions == methods[index + 1].args
      Argument(i) == IF i > Len(args) THEN Undefined ELSE args[i]
  IN  FoldLeft(Join, Message(WriteVarint(index, Bits.U32), <<>>, <<>>),
               [i \in DOMAIN descriptions |->
                 encodeWire(module.SCHEMAS, descriptions[i], Argument(i))])

EncodeReturn(methods, index, x) ==
  Join(Message(WriteVarint(index, Bits.U32), <<>>, <<>>),
       encodeWire(module.SCHEMAS, methods[index + 1].returns[1], x))

(* _decodeReturn: the response must be for the method that was called.     *)
DecodeReturn(index, message) ==
  Then(ReadVarint(Read(message.bytes, message.js), Bits.U32), LAMBDA s :
    IF s.out # index THEN Fail(s)
    ELSE decodeWire(module.SCHEMAS, module.METHODS[index + 1].returns[1], s))

(* The first half of _onRequest: the handler, and its arguments.           *)
DecodeRequest(message) ==
  Then(ReadVarint(Read(message.bytes, message.js), Bits.U32), LAMBDA s :
    IF s.out >= Len(module.HANDLERS) THEN Fail(s)
    ELSE LET handler == module.HANDLERS[s.out + 1]
         IN  Then(ReadAll(LAMBDA d, q : decodeWire(module.SCHEMAS, d, q), handler.args, s),
                  LAMBDA t : Give(t, [index |-> s.out, args |-> t.out])))

(* Mistake: the items of a stream are taken for results of a promise.      *)
isFallibleAny(method) == method.returns # <<>> /\ method.returns[1].kind = "result"

isFallible(method) == method.kind = "value" /\ method.returns[1].kind = "result"

(* An Error becomes its message.                                           *)
reduceThrown(x) == IF IsA(x, "error") THEN [string |-> x.error] ELSE x

Returned(method, outcome) ==
  CASE ~ isFallible(method) -> outcome.value
    [] isFallible(method) /\ outcome.threw -> Tagged("Err", reduceThrown(outcome.value))
    [] isFallible(method) /\ ~ outcome.threw -> Tagged("Ok", outcome.value)

(* How a promise settles, or what a callback is given.                     *)
Settled(method, x) ==
  IF isFallible(method)
    THEN [threw |-> Property(x, "tag") # [name |-> "Ok"], value |-> Property(x, "value")]
    ELSE [threw |-> FALSE, value |-> x]

(* What a handler does that means x: a fallible one throws an Err, and a   *)
(* string as an Error too.                                                 *)
Outcomes(method, x) ==
  LET inner == Property(x, "value")
  IN  IF ~ isFallible(method) THEN {[threw |-> FALSE, value |-> x]}
      ELSE IF Property(x, "tag") = [name |-> "Ok"] THEN {[threw |-> FALSE, value |-> inner]}
      ELSE {[threw |-> TRUE, value |-> e] :
             e \in {inner} \cup (IF IsA(inner, "string") THEN {[error |-> inner.string]} ELSE {})}

-----------------------------------------------------------------------------
Silence == Message(<<>>, <<>>, <<>>)
NoCall ==
  [stage |-> "idle", from |-> "js", method |-> <<>>, values |-> <<>>, message |-> Silence,
   reached |-> <<>>, got |-> <<>>, whole |-> TRUE, answer |-> <<>>]

Init ==
  /\ input \in Inputs
  /\ progress = "written"
  /\ module = <<>> /\ declared = <<>> /\ handlers = {}
  /\ call = NoCall

(* The macros expand and the constants are evaluated, or the build fails.  *)
Accepts ==
  /\ ParsesEndpoint(input.args)
  /\ \A i \in DOMAIN input.traits : Expands(input.traits[i], input.flags)
  /\ Resolves("service") /\ Resolves("client")
  /\ collect(TheEndpoint).ok

Build ==
  /\ progress = "written"
  /\ IF Accepts
       THEN /\ progress' = "built"
            /\ module' = render_js(TheEndpoint)
            /\ declared' = render_dts(TheEndpoint)
       ELSE /\ progress' = "rejected"
            /\ UNCHANGED <<module, declared>>
  /\ UNCHANGED <<input, handlers, call>>

(* The constructor of Endpoint: every handler of the table must be there.  *)
(* The embedder writes the interface of the .d.ts, or forgets a method.    *)
Construct ==
  /\ progress = "built"
  /\ \E forgotten \in {{}} \cup {{n} : n \in DOMAIN declared.interface} :
       handlers' = DOMAIN declared.interface \ forgotten
  /\ progress' =
       IF \A i \in DOMAIN module.HANDLERS : module.HANDLERS[i].name \in handlers'
         THEN "ready" ELSE "unusable"
  /\ UNCHANGED <<input, module, declared, call>>

Goes(from, name, values, message) ==
  call' = [NoCall EXCEPT !.from = from, !.method = name, !.values = values, !.message = message,
                         !.stage = IF Contains(message.bytes, -1) THEN "lost" ELSE "called"]

(* A method of the class, which may leave out the optional arguments that  *)
(* would be undefined.                                                     *)
JsCalls ==
  /\ progress = "ready" /\ call.stage = "idle"
  /\ \E name \in DOMAIN module.class :
       LET m == Source("js", name)
           takes == declared.class[name].parameters
       IN  \E values \in ArgumentLists(ArgumentTypes(m)) :
           \E given \in 0 .. Len(values) :
             LET args == Arguments(m, values)
             IN  /\ \A i \in given + 1 .. Len(values) : takes[i].optional /\ args[i] = Undefined
                 /\ Goes("js", name, values,
                         EncodeCall(module.METHODS, module.class[name], SubSeq(args, 1, given)))
  /\ UNCHANGED <<input, progress, module, declared, handlers>>

(* A method of the generated client.                                       *)
RustCalls ==
  /\ progress = "ready" /\ call.stage = "idle"
  /\ \E index \in DOMAIN Variants("rust") :
       LET m == Variants("rust")[index]
       IN  \E values \in ArgumentLists(ArgumentTypes(m)) :
             Goes("rust", NameOf(m), values, ClientCall(Variants("rust"), index, values))
  /\ UNCHANGED <<input, progress, module, declared, handlers>>

(* execute() of the generated server: an undecodable request panics.       *)
RustServes ==
  /\ call.stage = "called" /\ call.from = "js"
  /\ LET r == ServerRequest(Variants("js"), call.message)
     IN  call' = IF ~ r.ok THEN [call EXCEPT !.stage = "lost"]
                 ELSE [call EXCEPT !.stage = "served", !.whole = r.in = <<>> /\ r.js = <<>>,
                                   !.reached = NameOf(Variants("js")[r.out.index]),
                                   !.got = r.out.values]
  /\ UNCHANGED <<input, progress, module, declared, handlers>>

(* _onRequest: an undecodable request is reported and dropped.             *)
JsServes ==
  /\ call.stage = "called" /\ call.from = "rust"
  /\ LET r == DecodeRequest(call.message)
     IN  call' = IF ~ r.ok THEN [call EXCEPT !.stage = "lost"]
                 ELSE [call EXCEPT !.stage = "served", !.whole = r.in = <<>> /\ r.js = <<>>,
                                   !.reached = module.HANDLERS[r.out.index + 1].name,
                                   !.got = r.out.args]
  /\ UNCHANGED <<input, progress, module, declared, handlers>>

(* What the method answers, of the arguments it was given.                 *)
Echo(m, got, unit) == IF m.body = 0 THEN unit ELSE got[m.body]

RustAnswers ==
  /\ call.stage = "served" /\ call.from = "js"
  /\ LET index == IndexIn(Variants("js"), call.reached)
         m == Variants("js")[index]
     IN  call' = IF MethodOutput(m).kind = "notify" THEN [call EXCEPT !.stage = "done"]
                 ELSE [call EXCEPT !.stage = "answered",
                                   !.message = ServerResponse(Variants("js"), index,
                                                  Echo(m, call.got, [unit |-> TRUE]))]
  /\ UNCHANGED <<input, progress, module, declared, handlers>>

(* The handler settles or yields, and _respond or _runStream encodes it.   *)
JsAnswers ==
  /\ call.stage = "served" /\ call.from = "rust"
  /\ LET i == SelectInSeq(module.HANDLERS, LAMBDA h : h.name = call.reached)
         handler == module.HANDLERS[i]
         m == Source("rust", call.reached)
     IN  IF handler.kind = "notify" THEN call' = [call EXCEPT !.stage = "done"]
         ELSE \E outcome \in Outcomes(handler, Echo(m, call.got, Undefined)) :
                LET message == EncodeReturn(module.HANDLERS, i - 1, Returned(handler, outcome))
                IN  call' = [call EXCEPT !.message = message,
                               !.stage = IF Contains(message.bytes, -1) THEN "lost" ELSE "answered"]
  /\ UNCHANGED <<input, progress, module, declared, handlers>>

(* A RESPONSE or a STREAM_ITEM in _dispatch.                               *)
JsReceives ==
  /\ call.stage = "answered" /\ call.from = "js"
  /\ LET index == module.class[call.method]
         r == DecodeReturn(index, call.message)
     IN  call' = IF ~ r.ok THEN [call EXCEPT !.stage = "lost"]
                 ELSE [call EXCEPT !.stage = "done", !.whole = r.in = <<>> /\ r.js = <<>>,
                                   !.answer = <<Settled(module.METHODS[index + 1], r.out)>>]
  /\ UNCHANGED <<input, progress, module, declared, handlers>>

(* The unpack closure of the generated client.                             *)
RustReceives ==
  /\ call.stage = "answered" /\ call.from = "rust"
  /\ LET r == ClientResponse(Variants("rust"), IndexIn(Variants("rust"), call.method), call.message)
     IN  call' = IF ~ r.ok THEN [call EXCEPT !.stage = "lost"]
                 ELSE [call EXCEPT !.stage = "done", !.whole = r.in = <<>> /\ r.js = <<>>,
                                   !.answer = <<r.out>>]
  /\ UNCHANGED <<input, progress, module, declared, handlers>>

(* The caller has what it wanted, and may call again.                      *)
Rest ==
  /\ call.stage = "done"
  /\ call' = NoCall
  /\ UNCHANGED <<input, progress, module, declared, handlers>>

Next ==
  \/ Build \/ Construct
  \/ JsCalls \/ RustServes \/ RustAnswers \/ JsReceives
  \/ RustCalls \/ JsServes \/ JsAnswers \/ RustReceives
  \/ Rest

Spec == Init /\ [][Next]_vars

-----------------------------------------------------------------------------
Sent == Source(call.from, call.method)
Index(from) == IndexIn(Variants(from), call.method)
Echoed == Echo(Sent, call.values, [unit |-> TRUE])

(* Every message is decoded, to its last byte and its last JavaScript      *)
(* value, by the method that was called, and gives it the arguments of the *)
(* caller: the class, the two tables, the description and the two enums    *)
(* number the methods alike, whatever cfg has removed.                     *)
CallsArrive ==
  /\ call.stage # "lost" /\ call.whole
  /\ call.stage \in {"served", "answered", "done"} => call.reached = call.method
  /\ call.stage = "served" =>
       call.got = IF call.from = "js" THEN call.values ELSE Arguments(Sent, call.values)

(* What a method answers is what its caller gets: a promise of a Result    *)
(* resolves to an Ok payload and rejects with an Err, while the items of a *)
(* stream keep their tags.                                                 *)
EchoReturns ==
  call.stage = "done" /\ call.answer # <<>> =>
    LET ty == OutputType(Sent)
        settles == MethodOutput(Sent).kind = "value" /\ IsResult(ty)
    IN  call.answer[1] =
          CASE call.from = "rust" -> Echoed
            [] call.from = "js" /\ settles ->
                 [threw |-> Echoed.variant = 2,
                  value |-> WireForm(ty.args[Echoed.variant], Echoed.fields[1])]
            [] call.from = "js" /\ ~ settles -> [threw |-> FALSE, value |-> WireForm(ty, Echoed)]

(* The same call makes the same message, byte for byte and value for       *)
(* value, whichever of the two languages makes it.                         *)
EncodersAgree ==
  /\ call.stage = "called" =>
       call.message = IF call.from = "js" THEN ClientCall(Variants("js"), Index("js"), call.values)
                      ELSE EncodeCall(module.HANDLERS, Index("rust") - 1, Arguments(Sent, call.values))
  /\ call.stage = "answered" =>
       call.message =
         IF call.from = "rust" THEN ServerResponse(Variants("rust"), Index("rust"), Echoed)
         ELSE EncodeReturn(module.METHODS, Index("js") - 1, WireForm(OutputType(Sent), Echoed))

(* What a JavaScript program passes, gets as arguments and gets back is of *)
(* the type that the .d.ts declares for it.                                *)
Accepted(parameter_, x) ==
  (parameter_.optional /\ x = Undefined) \/ HasType(declared.types, parameter_.type, x)

SeenAsDeclared ==
  /\ call.stage = "called" /\ call.from = "js" =>
       \A i \in DOMAIN call.values :
         Accepted(declared.class[call.method].parameters[i], Arguments(Sent, call.values)[i])
  /\ call.stage = "served" /\ call.from = "rust" =>
       \A i \in DOMAIN call.got :
         Accepted(declared.interface[call.reached].parameters[i], call.got[i])
  /\ call.stage = "done" /\ call.from = "js" /\ call.answer # <<>> =>
       call.answer[1].threw \/
       HasType(declared.types, declared.class[call.method].result, call.answer[1].value)

RECURSIVE Reach(_)
Reach(ids) ==
  LET more == ids \cup UNION {ToSet(Parts(Ty(id))) : id \in ids}
  IN  IF more = ids THEN ids ELSE Reach(more)

(* A name in the generated files stands for every type that is rendered by *)
(* it, and not just for the first one that was collected.                  *)
NamesDenote ==
  progress \in {"built", "ready", "unusable"} =>
    \A id \in Reach(ToSet(EndpointTypes(TheEndpoint))) : is_declared(id) =>
      /\ Name(id) \in DOMAIN module.SCHEMAS /\ module.SCHEMAS[Name(id)] = schema_body(id)
      /\ Name(id) \in DOMAIN declared.types /\ declared.types[Name(id)] = type_body(id)

(* An embedder who implements the interface of the .d.ts has implemented   *)
(* what the constructor asks for, and nobody gets by with less.            *)
HandlersSuffice ==
  progress \in {"ready", "unusable"} =>
    (progress = "ready" <=> handlers = DOMAIN declared.interface)

-----------------------------------------------------------------------------
(* "The method's index on the wire is its position among the non-empty     *)
(* entries, which is also its variant index in the request enum"           *)
(* (describe.rs): the number that a call carries names the variant of its  *)
(* method.                                                                 *)
IndexIsVariantIndex ==
  call.stage = "called" /\ call.from = "js" =>
    /\ module.class[call.method] < Len(Variants("js"))
    /\ NameOf(Variants("js")[module.class[call.method] + 1]) = call.method
=============================================================================
