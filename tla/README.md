# web-rpc, modelled and checked

web-rpc is a bidirectional RPC library for browsing contexts, workers and message channels. A
service is a Rust trait; a macro writes its client, its server and, on request, a JavaScript
endpoint that speaks to either. This directory holds TLA+ modules of the library's protocol, the TLC
configurations that check them on small instances, and TLAPS proofs of the main safety properties.
Paths below are relative to the repository; line numbers are those of the sources modelled here.

Contents: [the system](#1-the-system), [the modules](#2-the-modules),
[what is abstracted](#3-what-is-abstracted), [the runs](#4-the-runs), [fairness](#5-fairness),
[what the code does not keep](#6-what-the-code-does-not-keep), [the proofs](#7-the-proofs),
[what is not modelled](#8-what-is-not-modelled), [the plan](#9-the-plan),
[how to run it](#10-how-to-run-it).

## 1. The system

    caller ── RequestFuture / StreamReceiver          method ── execute future
                │                                        │
          client maps (State)                     running, FuturesUnordered
                │         ┌── dispatcher ──┐             │
                └─────────┤   (one shared  ├── requests_tx, aborts_tx
                          │     future)    │
                          └── messages_rx ─┘
                                  │ listener
        ════════════ port: postMessage, message events ════════════ the peer, Rust or JavaScript

Two *ends* are connected by a pair of ports. An end is either a Rust interface, with a client, a
server or both, or a JavaScript endpoint, which always has both halves. Both ends are single-threaded;
what interleaves is messages in flight, futures polled in any order, `select!` branches, promise jobs
and whatever the callers drop, abort or close.

### Components

| Component | State | Operations | What makes it correct |
|---|---|---|---|
| **Wire messages** (`web-rpc/src/lib.rs`, `codec.rs`) | none; five headers, each with a sequence number | `post_header`, `post_message` | a number names a call only within its direction |
| **Handshake** (`interface.rs`, `port.rs`, `endpoint.mjs` 597-669) | a listener, `ready_tx`; `_ready`, `_queuedSends`, `_inbox` | install the listener, post null every 10 ms, answer the first null, queue sends | both ends become ready whatever is lost; no data is posted to a deaf port; sends keep their order |
| **Client** (`client.rs`) | `sequence`, `callbacks`, `stream_callbacks`, one oneshot or mpsc channel per call | `send`, `request`, `stream`, polling, `close`, drop | a waiting call is never lost; an abandoned one leaves nothing behind; items arrive whole and in order |
| **Dispatcher and builder** (`lib.rs` 229-496) | `messages_rx`; runs inside whichever future of its end is polled | route a message to a map of the client or a queue of the server | a message reaches the half and the call it is for |
| **Server** (`service.rs`) | `requests_rx`, `aborts_rx`, `stream_rx`, `running`, `executions` | five `select!` branches | every call is answered once or not at all; `running` does not leak; aborts hit their call |
| **Generated client and service** (`web-rpc-macro/src/lib.rs`) | the `execute` future of each request | per shape of method: notify, value, stream, each sync or async | an abort stops what can be stopped; a stream's end follows its items |
| **JavaScript endpoint** (`web-rpc/js/endpoint.mjs` 570-960) | `_pendingRequests`, `_openStreams` with a promise queue each, `_inflightRequests`, `_runningIterators`, `_closed`, `_failure` | call, abort, close a stream, `_dispatch`, run handlers, `close()`, `_fail` | every promise settles; abandoned calls stay silent; failures of one call touch no other |
| **Macro** (`web-rpc-macro/src/lib.rs`) | none; runs at build time | read a trait, write its two enums, the client, the server and the description; assemble an endpoint | all it writes numbers the methods alike and agrees on how each type crosses |
| **JavaScript codec** (`endpoint.mjs` 1-503) | none | `Writer`, `Reader`, `Codec` | agrees with postcard and with the macro, byte for byte |
| **Wire descriptions** (`describe.rs`, `wrap.rs`, `js/mod.rs`) | none; constants | number the methods that cfg has left | a method's number is its variant's |
| **Endpoint generator** (`web-rpc/src/js/`) | none; runs in const evaluation | collect the types that get a name, render the `.mjs` and the `.d.ts` | a name stands for one type; the `.d.ts` tells the truth about the `.mjs` |

The last four act before the program runs, and what they write then runs at both ends: a call goes
through code the macro wrote at one end and code the renderers wrote at the other.

### What is hard here

PROJECT.json lists each hazard at its line, with the properties that would catch it. In short:

* *Order.* A server learns of requests, aborts, stream items and completions from four queues and
  serves them in random order (`service.rs` 55). Only the order *within* a queue is the order of
  events. The end of a stream must still follow its items, and an abort that overtakes the completion
  of its call must suppress the answer.
* *Late messages.* A call may be dropped with its answer in flight or already in its oneshot; a
  response, an item, an end or an abort may reach a side that has forgotten the call.
* *Two directions, one numbering.* Both ends count from zero. A response to call 0 and an abort of
  the other end's call 0 look alike but for their kind.
* *Progress by polling.* The Rust dispatcher has no task of its own: a client-only interface reads
  messages only while some future of it is polled.
* *Loss, before the handshake is over.* A message event without a listener is lost.
* *Awaits.* The handlers and iterators of an endpoint resume after the call may have been aborted or
  the endpoint closed; callbacks of a stream run on a promise queue behind the events that feed it.
* *Partial failure.* Encoding, decoding, handlers and callbacks may throw, some after the call has
  been registered.
* *One trait, written many times.* A method's number, the way its arguments cross, the shape of its
  result and its name are each derived several times over: by the request enum, the response enum, the
  server's arms and the description, by the two tables, the class, the interface and the types of an
  endpoint, and by two codecs in two languages. No test compares all of them.

## 2. The modules

    Peers ── Wire ─┬─ Client ──┐
                   ├─ Service ─┴─ Interface ─┬─ Connection ── ConnectionInv
                   └─ JsEndpoint ────────────┴─ JsConnection ── JsInv
    Peers ── Handshake ── HandshakeInv
    Bytes ─┬─ PostcardPrimitives ── PostcardFormat ── Macro ────┐
           └─ ShellPrimitives ───── ShellCodec ── TypeScript ───┴─ Generated
    Descriptions ─┬─ Numbering ── Macro      │
                  ├─ PostcardFormat          │
                  └─ Renderer ───────────────┘
    Rpc  (abstract)  implemented by Connection and by JsConnection
    Link (abstract)  implemented by Handshake

    PeersProofs ─┬─ InterfaceProofs ─┬─ ConnectionProofs ── StreamProofs
                 │                   └─ JsProofs ── JsStreamProofs
                 └─ HandshakeProofs
    PostcardPrimitives, ShellPrimitives, Numbering ── GeneratedProofs

| Module | Models |
|---|---|
| `Peers` | the two ends of a connection, and membership in a queue |
| `Wire` | `MessageHeader`, the shapes of method, the ordered channel towards each end |
| `Client` | `State`, `RequestFuture`, `StreamReceiver`, `AbortOnDrop`, and what the dispatcher does to them |
| `Service` | the loop of `service::task`, and the `execute` future per shape of method |
| `Interface` | the dispatcher, and an interface as client + server + dispatcher |
| `Connection` | two Rust interfaces after their handshake: specification, fairness, properties |
| `ConnectionInv` | the inductive invariants of `Connection`: of its calls (`IInv`), of its streams (`SInv`) |
| `JsEndpoint` | the class `Endpoint` after its handshake, both halves, with its faults |
| `JsConnection` | a connection with an endpoint at one end: specification, fairness, properties |
| `JsInv` | the inductive invariants of `JsConnection`: of its calls (`JInv`), of its streams (`JsSInv`) |
| `Handshake` | `Interface::new`, the constructor, `_onMessage` and `_send`, before and after the handshake |
| `HandshakeInv` | the inductive invariants of `Handshake`: of its state (`HandshakeInvariant`), of the order of sends (`OrderInvariant`) |
| `Rpc` | what a remote call promises, with no queue, map or message in it |
| `Link` | a lossless FIFO link |
| `Bytes` | a message as bytes and JavaScript values, readers of it, and the scale of numbers |
| `Descriptions` | schemas of postcard-schema, `Desc`, `Return`, and how a reader finds a method in them |
| `Numbering` | which methods cfg leaves in the enums and in the description, and so under which numbers |
| `PostcardPrimitives` | postcard, of types without parts: numbers, floats, booleans, text, bytes |
| `PostcardFormat` | postcard and `WireArg`, as the Rust end writes and reads them |
| `ShellPrimitives` | `Writer` and `Reader` of endpoint.mjs, and what a value without parts is in JavaScript |
| `ShellCodec` | `Codec` of endpoint.mjs |
| `Macro` | what `#[web_rpc::service]` and `js::endpoint!` make of a trait |
| `Renderer` | `decls.rs` and `code.rs`: the declarations and the `.mjs` |
| `TypeScript` | `dts.rs`: the `.d.ts`, and what its types mean |
| `Generated` | an endpoint from its source to its calls: build, construct, call, serve, answer |
| `PeersProofs`, `InterfaceProofs` | lemmas on queues and on the steps of a Rust interface, for both connections |
| `ConnectionProofs`, `StreamProofs` | theorems about `Connection`: calls; streams and refinement |
| `JsProofs`, `JsStreamProofs` | theorems about `JsConnection`: calls; streams and refinement |
| `HandshakeProofs` | theorems about `Handshake` |
| `GeneratedProofs` | theorems about the codecs of types without parts, and about the numbers of methods |
| `MCConnection`, `MCJsConnection`, `MCHandshake` | names for TLC's model values |
| `MCGenerated` | traits, types and values that exercise the generator |

### How state and actions correspond to the code

A call is named by its number. Every map keyed by sequence number is the set of its keys, and what a
party holds for a call is one status.

| In the model | In the code |
|---|---|
| `channel[e]` | everything on its way to `e`: the port's queue, pending message events and `messages_rx`, three lossless FIFOs in a row that only the dispatcher reads |
| `sequence`, `callbacks`, `streamCallbacks` | `State.sequence`, keys of `State.callbacks` and `State.stream_callbacks` |
| `call[e][s]` | what the caller holds: a `RequestFuture` (pending, responded), a `StreamReceiver` (open, closed), or what became of it |
| `buffer`, `received` | the mpsc channel of a receiver, and what it has yielded |
| `requests`, `aborts`, `outbox` | `requests_rx`, `aborts_rx`, `stream_rx` |
| `running`, `signalled` | keys of `running`; calls whose `abort_tx` has fired |
| `execution`, `method`, `produced` | an `execute` future: whether it runs the method or forwards a stream, and how it completed |
| `promise`, `pendingRequests`, `openStreams`, `stopped` | what a JavaScript caller has in hand; keys of the two maps; `state.closed` of a stream |
| `chain`, `broken`, `delivered` | callbacks waiting in `state.queue`; whether that promise has rejected; what callbacks were given |
| `handling`, `inflightRequests`, `runningIterators`, `yielded` | a handler's course, the set and the map that say whether it is still wanted, its items |

| Action | Code |
|---|---|
| `Notify`, `Request`, `Stream` | a generated client method: `State::send`, then `request` or `stream` |
| `PollResponse`, `PollItem`, `PollNone` | `RequestFuture::poll`, `StreamReceiver::poll_next` |
| `DropRequest`, `DropStream`, `Close` | `AbortOnDrop`, `StreamReceiver::close` |
| `Dispatch*` | one arm of the dispatcher's `match`; enabled only while a future or server of that end is polled (`Driven`) |
| `TakeRequest`, `TakeAbort`, `ForwardItem`, `ForwardEnd` | one `select!` branch each |
| `FinishNotify`, `FinishValue`, `AbortValue` | a value's future completes, together with the `executions` branch (`Complete`) that answers or not |
| `StartStream`, `ProduceItem`, `FinishStream`, `AbortStream` | the forwarding half of `execute` |
| `JsNotify`, `JsRequest`, `JsStream`, `CallRefused`, `CallThrows` | `_notify`, `_request`, `_stream`, on an endpoint that works, is closed or has failed, or throws half-way |
| `AbortRequest`, `StopStream` | `promise.abort()`, `close()` of a stream |
| `RunCallback`, `SettleDone` | the promise queue of a stream |
| `JsOnResponse` ... `JsOnAbort` | `_dispatch`, one action per kind |
| `HandlerSettles`, `Yield`, `FinishIteration` | the continuations in `_onRequest` and `_runStream` |
| `CloseEndpoint`, `Fail`, `Discard` | `close()`, `_fail`, and events of a detached port |
| `Attach`, `Repoll`, `OnNullRust`, `Resume`, `OnNullJs`, `OnData`, `LoseEvent` | the handshake |
| `SendNow`, `SendLater`, `SendUnclonable` | `_send` and `post_message`; a queued send that will throw |
| `Build` | the macro's expansion, and the evaluation of the constants of `endpoint!`; or a build that fails |
| `Construct` | the constructor's look at `options.handlers` |
| `JsCalls`, `RustCalls` | a method of the generated class; of the generated client |
| `RustServes`, `JsServes` | `execute` and `_onRequest`, up to the call of the method |
| `RustAnswers`, `JsAnswers` | encoding what the method returned, yielded or threw |
| `JsReceives`, `RustReceives` | RESPONSE and STREAM_ITEM in `_dispatch`; the `unpack` closure |
| `Settled` | nothing: the states in which the system may rest. TLC reports a deadlock in any other |

Operators whose comment begins with *Mistake* are wrong variants of the definition that follows: a
forgotten reset, a lost guard, a swapped order. The specification uses none of them. Each is there to
replace its definition and show that the property it is paired with in PROJECT.json then fails, so
that no property holds merely because of how the model is built.

## 3. What is abstracted

* **Payloads** of `Connection` and `JsConnection` are reduced to what steers a call: the method a
  request names, and the position of an item in its stream. Encoding appears only as something that
  may fail. `Generated` has the payloads, and one call at a time instead of the concurrency.
* **Widths.** A byte of a varint carries `GroupBits` bits beside the continuation bit, two instead of
  seven, and `Bits` gives each integer type a width of three to ten bits, so that every one of them is
  tried at both ends of its range and takes several bytes. Floats are bit patterns. Text is over two
  characters, of one byte and of two; what is not their encoding is not UTF-8. The theorems about
  the codecs (section 7) hold for seven bits, every width and any set of characters as well.
* **Text the renderers write** is the value it denotes: a table of schemas, method tables, a map from
  method names to numbers, types as trees. Identifiers are sequences of words, so that camel and snake
  case are one name, and `is_ident` is membership in a list of generic names. `HasType` says what
  TypeScript means by the types.
* **A build** is one step, its macros expanded and its constants evaluated; it fails where either
  panics or reports an error, or where rustc would refuse an enum with two variants of one name.
* **Methods of `Generated`** answer with one of their arguments or with `()`. The types a trait uses,
  their schemas and their DOM classes are constants of the model.
* **One message per dispatcher step.** The code routes every available message in one poll; that is
  several steps here, and other steps may come between them. Such interleavings happen too, whenever
  the messages arrive in different turns of the event loop. The one observable case that needs both
  orders, a request and its abort in their two queues at once, is reachable in the model.
* **A completing value and the branch that handles it** are one step. `FuturesUnordered` returns a
  completed future from the poll that completed it, and `select!` runs that branch at once.
* **Sync methods** may return in a later step than the one that took the request: the future is
  pushed in one branch and first polled in a later turn of the loop.
* **The handshake is separate** from what follows. `Handshake` shows that from the first send on,
  the two ends have a lossless FIFO link (`ImplementsLink`); `Connection` and `JsConnection` start
  from there. The exception, a queued send that throws, is studied in `Handshake` itself.
* **Which methods of an endpoint return a `Result`** is left open, so a handler that throws is
  answered in some behaviours and not in others.
* **`_fail` through a `messageerror`** loses a message; through an `error` event, it does not. An
  endpoint may see several.
* **Waiting.** `Driven` says when some future polls the dispatcher: a server is always polled, a
  `RequestFuture` without its response and an open receiver with nothing to yield are polled while
  they are held.
* Nothing panics: requests go only to ends with a server (`DeploymentAssumption`,
  `SidesAssumption`), and what a Rust end receives decodes.

Bounds, all named constants: `MaxCalls` calls per client, `MaxItems` items per stream, and in the
handshake `MaxData` sends per end and `MaxNulls` nulls in flight when the timer fires. In `Generated`,
`Inputs` are the traits and `Values` the values tried; `MAX_DECLARATIONS` is 3 instead of 128, so that
a trait can exceed it.

## 4. The runs

| Run | Instance | Checks |
|---|---|---|
| `one_way` | A calls B, 2 calls, 2 items, async value and async stream | `TypeOK`, `NoLostCall`, `CallbacksMatchCalls`, `RunningIsLive`, `AbortsAreWanted`, `AbortedIsSilent`, `StreamIntegrity`, `EndedIsComplete`, `ReceivedIsPrefix` |
| `two_way` | both call, 1 call each, notify, value, async value and async stream, `FairSpec` | `IInv`, `SignalledStops` |
| `live` | A calls B, 2 calls, 1 item, `ServedSpec` | `SInv`, `ImplementsRpc`, `RequestsAnswered`, `StreamsEnd` |
| `handshake` | two ends, every combination of Rust and JavaScript and of callers that throw, `FairSpec` | `DataFindsListener`, `OrderInvariant`, `ArrivesInOrder`, `ImplementsLink`, `BothBecomeReady`, `DataArrives` |
| `js_calls_rust` | endpoint A calls Rust B, 2 calls, all faults | `JsTypeOK`, `NoCallVanishes`, `PromisesMatchMaps`, `ItemsArriveWhole`, `DoneIsComplete` |
| `rust_calls_js` | Rust B calls endpoint A, 2 calls, 2 items, handlers fail | `JsSInv`, `ItemsArriveWhole`, `AbortsTakeEffect`, `ImplementsRpc` |
| `js_both_ways` | both call, 1 call each, callbacks throw, messages do not decode, endpoint closes, `FairSpec` | `AbandonedIsSilent`, `ImplementsRpc`, `PromisesSettle`, `RustCallsEnd` |
| `generated` | 17 inputs: three traits with 23 methods in both roles, one with alternatives under cfg, eight that must be refused, five wrong uses of `endpoint!` | `CallsArrive`, `EchoReturns`, `EncodersAgree`, `SeenAsDeclared`, `NamesDenote`, `HandlersSuffice` |
| `drop_cancels`, `close_drains`, `queued_sends`, `cfg_attr` | | a violation each, [section 6](#6-what-the-code-does-not-keep) |

### What they show

*Two Rust interfaces.* However requests, aborts, closes and drops of overlapping calls interleave, a
call somebody waits for always has its request, its execution, its end marker or its answer somewhere
between the ends (`NoLostCall`); the client's maps hold exactly what is waited for
(`CallbacksMatchCalls`); every entry of `running` belongs to something that will remove it
(`RunningIsLive`); a signal reaches only calls that were given up (`AbortsAreWanted`), and silences
them (`AbortedIsSilent`). Received, buffered, posted and queued items together are always exactly what
an open stream has produced, in order (`StreamIntegrity`); `None` comes only after all of them
(`EndedIsComplete`), and even a closed receiver yields a gapless prefix (`ReceivedIsPrefix`). When both
ends call each other under the same numbers (`two_way`), an abort or a response of one direction
neither loses a call of the other, nor touches its callback, nor stops it (`IInv`, which contains
`NoLostCall` and `CallbacksMatchCalls` and implies `AbortsAreWanted`). The whole
implements `Rpc`: a call runs at most once, returns only what was answered, and is cancelled only when
given up.

*An endpoint at one end.* The same abstract calls are implemented, where a call may also be cancelled
because the endpoint that serves it was closed (`left`). Comparing every step with `Rpc` is what costs
most: TLC does it for two calls to an endpoint (`rust_calls_js`) and for one call in each direction with
`close()` (`js_both_ways`); two calls of an endpoint, `_fail` and the other faults are left to the
theorem `JsConnectionIsRpc`. A pending promise always has a map
entry that can settle it (`PromisesMatchMaps`), even after an endpoint failed or was closed;
only calls that threw leave an entry behind. A call that gets no answer is one of an enumerated list
of excuses (`NoCallVanishes`): its handler threw or its result could not be encoded, its request could
not be decoded, or the endpoint was closed or lost messages. `close()` of an endpoint's own stream
drains, unlike `StreamReceiver::close` (`DoneIsComplete`). Endpoints take requests and aborts from one
queue, so an abort never overtakes its request there (`AbortsTakeEffect`). What an endpoint was told to
abort, or was serving when it was closed, is not answered (`AbandonedIsSilent`, in `js_both_ways`; for two
calls it follows from `JsSInv`).

*The handshake.* Whichever end listens first and whatever is lost, both become ready, no data is
posted to a port without a listener, and `_inbox` is never used (`InboxStaysEmpty`, which
`OrderInvariant` contains): a peer's last null precedes its data. Which ends are JavaScript, and whose
callers throw, is chosen in the initial state.

*The generator.* Whatever is accepted works: a call made in either language is decoded to its last byte
by the method of that name, with the arguments of the caller (`CallsArrive`), and its answer is what the
caller gets, with a `Result` turned into resolve and reject for a value and kept for the items of a
stream (`EchoReturns`). JavaScript writes exactly the bytes and the lists of values that the Rust code
would (`EncodersAgree`), with cfg on methods before, between and behind. Every value a JavaScript
program passes or sees is of the type the `.d.ts` gives it (`SeenAsDeclared`), a name in the generated
files stands for every type that is rendered by it (`NamesDenote`), and an implementation of the
interface is accepted by the constructor, while one that lacks a method is not (`HandlersSuffice`).

### Why the bounds are enough

Calls interact only through shared queues, the client's counter and the numbering that both directions
share. Two calls in one direction give every pairwise order of requests, aborts, items, ends and
completions, including two streams in one outbox; one call in each direction gives every confusion of
equal numbers. Two items are the least that can be reordered or skipped and the least for an end to
overtake one with another delivered; where only loss matters, one suffices. In the handshake two sends
tell loss, repetition and reordering apart; a second null in flight is the least for a null to arrive
at an end that is ready. The safety theorems of section 7 hold for every bound.

The code of the generator has no state, so `generated` depends on its inputs alone. Its types have
every constructor of `DataModelType` but `usize`, `isize` and `Schema`, every kind of variant and every
wrapper, nested in each other; the numbers are the least, the greatest and the negative of
each width; an enum of five variants takes two bytes in its index. Among the methods are a reserved
word, doubled underscores, optional arguments in front and at the end, and methods that cfg removes at
the front and in the middle.

## 5. Fairness

`RuntimeFairness` (Rust): a woken task is polled, and `select!` chooses at random among ready
branches, so a branch that stays ready is served in the end. This is weak fairness of the dispatcher
and of each branch, of the abort branch of a signalled execution, and of sync methods, which return
once they are polled. `CallerFairness`: callers poll what they hold until they drop it; nobody is
obliged to drop or close. `MethodFairness`: async methods return and streams are finite. These two
are the embedder's part, and each liveness property uses only what it needs: `SignalledStops` uses
neither, so a signalled execution stops even if its method would never return, while
`RequestsAnswered` and `StreamsEnd` use all three (`ServedSpec`).

`JsFairness`: message events are delivered, promise jobs run, handlers return and iterators end.
Nothing obliges anyone to abort, to stop a stream, to close or to fail. The Rust end
of `JsConnection` is assumed fair as under `ServedSpec`, with its callers and its methods.

The handshake assumes that both ends are created, timers fire, events are delivered and the woken
future of `Interface::new` is polled. It assumes nothing of when, so either end may be late enough to
lose any number of nulls.

## 6. What the code does not keep

Four runs end in a violation. Each checks one sentence of the repository's own text.

**`drop_cancels`.** "Note that dropping this future will result in the RPC request being cancelled"
(`client.rs` 156-157; also `lib.rs` 112-116). The dispatcher hands requests and aborts over in two
queues, and `select!` picks a branch at random. A call that is made and dropped before the server's
next poll puts both in their queues at once; if the abort is taken first, it finds nothing in
`running`, is forgotten, and the execution then runs to its own end, which may never come. The caller
is not harmed, as the late answer finds no callback. The server does the work. An endpoint as the server
does not have this: see `AbortsTakeEffect`.

**`close_drains`.** "while `close` lets buffered items finish arriving instead" (`lib.rs` 116-117). `close()`
removes the stream from `stream_callbacks`, so the dispatcher drops every item that has not reached
the receiver's own channel yet, and `poll_next` yields `None` in front of items that were produced and
posted before the abort. What does arrive is a gapless prefix (`ReceivedIsPrefix`).

**`queued_sends`.** "Post ..., or queue it until the handshake completes" (`endpoint.mjs` 650). At the
first null, `_onMessage` takes `_queuedSends` and runs it in a bare loop. The closures post, and one
whose values cannot be cloned throws: the handler ends, and the sends behind it are neither posted nor
queued any more. Their promises stay pending. What does get through stays in order
(`ArrivesInOrder`).

**`cfg_attr`.** "The method's index on the wire is its position among the non-empty entries, which is
also its variant index in the request enum" (`describe.rs` 21-22). The variants of both enums and the
arms of the server carry the `cfg` and the `cfg_attr` attributes of their method. The description looks
only at `cfg` (`cfg_predicates`, lines 123-131 of the macro, whose comment says that `cfg_attr` rewrites
attributes and not presence). With `#[cfg_attr(wide, cfg(legacy))]` a method can vanish from the enums
and stay in the description. The endpoint then calls it by a number that belongs to the next method,
and every method behind it by a number too high. In `generated`, no method has a `cfg_attr` with a
`cfg` in it; `NumberingAgrees` (section 7) shows that nothing else can part the two numberings.

Reading the generator beside its model showed more cases in which its parts disagree. No text of the
repository speaks of them, so they are no findings; the instance of `generated` leaves them out, and a
trait that has one fails the property named:

* `Option<Option<T>>` and `Option<()>`: `None` and `Some(None)` are both `undefined` in JavaScript
  (`EchoReturns`).
* `Vec<N>` with `struct N(u8)`: the codec treats it as bytes, since a newtype is rendered as what it
  contains (`code.rs` 104), and `dts.rs` 91 declares `(number)[]` (`SeenAsDeclared`).
* `Result<Result<T, E>, F>` as the result of a method: the promise unwraps one level, `return_type`
  (`dts.rs` 195) both (`SeenAsDeclared`).
* Two different types that agree on `EQUALITY_DEPTH` levels count as one. The comment in `decls.rs` 16-18
  says that only recursive types get there; a type nested sixteen deep does too (`NamesDenote`).
* A method of the called trait named `close` or `constructor`, a parameter of a stream method named
  `callback`, and types that have the name of the class, of a trait or of a global such as `Map`: the
  generated names clash.

Two things that look like flaws are documented by no text and so are no findings: an entry in
`_pendingRequests` or `_openStreams` outlives a call that threw (`CallThrows`, allowed for in
`PromisesMatchMaps`), and an endpoint that is closed tells nobody, so that its peer's pending calls
wait until they are dropped (`Excused`).

## 7. The proofs

The theorems about connections and handshakes hold for any number of calls and items and any set of
method shapes, under the assumptions the modules name: `EndsAssumption` (there are two ends), `BoundsAssumption` and `DataAssumption`
(bounds are natural numbers), `MethodsAssumption`, `ClientsAssumption`, `ServersAssumption`,
`JsAssumption` and `FaultsAssumption` (subsets of what they are drawn from), `DeploymentAssumption`
(clients call ends that serve), and `SidesAssumption` (the same for connections with an endpoint, and
an end is of one kind). TLC evaluates them in every run of a module that extends theirs.

| Theorem | Module | States |
|---|---|---|
| `TypeCorrect` | `ConnectionProofs` | `Spec => []TypeOK` |
| `Invariant` | `ConnectionProofs` | `Spec => []IInv` |
| `CallsAreNeverLost` | `ConnectionProofs` | `Spec => []NoLostCall` |
| `CallbacksAreExact` | `ConnectionProofs` | `Spec => []CallbacksMatchCalls` |
| `RunningNeverLeaks` | `ConnectionProofs` | `Spec => []RunningIsLive` |
| `OnlyWantedAborts` | `ConnectionProofs` | `Spec => []AbortsAreWanted` |
| `AbortedStaysSilent` | `ConnectionProofs` | `Spec => []AbortedIsSilent` |
| `StreamInvariant` | `StreamProofs` | `Spec => []SInv` |
| `StreamsStayWhole` | `StreamProofs` | `Spec => []StreamIntegrity` |
| `EndMeansComplete` | `StreamProofs` | `Spec => []EndedIsComplete` |
| `ReceivedHasNoGap` | `StreamProofs` | `Spec => []ReceivedIsPrefix` |
| `ConnectionIsRpc` | `StreamProofs` | `Spec => ImplementsRpc` |
| `HandshakeHolds` | `HandshakeProofs` | `Spec => []HandshakeInvariant` |
| `NoDataIsLost` | `HandshakeProofs` | `Spec => []DataFindsListener` |
| `InboxIsNeverUsed` | `HandshakeProofs` | `Spec => []InboxStaysEmpty` |
| `OrderHolds` | `HandshakeProofs` | `Spec => []OrderInvariant` |
| `DataKeepsOrder` | `HandshakeProofs` | `Spec => []ArrivesInOrder` |
| `HandshakeIsLink` | `HandshakeProofs` | `Spec => ImplementsLink` |
| `JsInvariant` | `JsProofs` | `Spec => []JInv` |
| `JsTypeCorrect` | `JsProofs` | `Spec => []JsTypeOK` |
| `NoPromiseIsOrphaned` | `JsProofs` | `Spec => []PromisesMatchMaps` |
| `AbandonedStaySilent` | `JsProofs` | `Spec => []AbandonedIsSilent` |
| `ArrivedAbortsTakeEffect` | `JsProofs` | `Spec => []AbortsTakeEffect` |
| `CallsAreSomewhere` | `JsProofs` | `Spec => []NoCallVanishes` |
| `JsStreamInvariant` | `JsStreamProofs` | `Spec => []JsSInv` |
| `ItemsStayWhole` | `JsStreamProofs` | `Spec => []ItemsArriveWhole` |
| `DoneMeansComplete` | `JsStreamProofs` | `Spec => []DoneIsComplete` |
| `JsConnectionIsRpc` | `JsStreamProofs` | `Spec => ImplementsRpc` |
| `VarintWritersAgree` | `GeneratedProofs` | endpoint.mjs writes the varint of postcard, cut to its width |
| `VarintReadersAgree` | `GeneratedProofs` | whatever varint postcard accepts, endpoint.mjs reads alike |
| `VarintsCross` | `GeneratedProofs` | both read a number back, and leave what follows |
| `PrimitiveEncodersAgree` | `GeneratedProofs` | both write a value of any type without parts alike |
| `PrimitivesCross` | `GeneratedProofs` | both read it back, whichever wrote it, and leave what follows |
| `NumberingAgrees` | `GeneratedProofs` | enums and description number the methods alike |

`Spec` and the types are those of the connection or handshake the module is about. TLC found every
inductive invariant true on a run before it was proved: `IInv` in `two_way`, and in `SInv` in `live`,
`HandshakeInvariant` as part of `OrderInvariant` in `handshake`, `JInv` as part of
`JsSInv` in `rust_calls_js`.

`PeersProofs` says what is in a queue after an append or a tail. `InterfaceProofs` has what holds of a
Rust interface in either connection: which types its steps keep, what an append and a tail do to the
items a queue carries, and what it means to have had the first items of a stream.

**A connection: its calls.** No property above is inductive alone. That no call is lost, for
instance, needs that a response in the channel is the last thing its server did, otherwise a second
response could find a fresh callback; that in turn needs that no call is requested twice, and
that the number of a new call occurs nowhere yet. `IInv` adds these facts, each named:

* `Numbering`: a call that was made has a number below the counter, so a new number is unused;
* `RequestsAreFresh`, `RequestsAreDistinct`: a request on its way is new to its server, and alone;
* `ExecutionsMatchCalls`: an execution runs the method its caller called, so that a value is answered
  to somebody who holds a future and an end marker to somebody who holds a receiver;
* `ExecutionsAreRegistered`: an execution under way is in `running` until it is signalled, and an end
  marker comes from a stream that has completed;
* `AbortsAreSent`: an abort, wherever it is, was sent by a caller that gave the call up;
* `ResponsesAreFinal`: an answered call is finished, and neither running nor signalled;
* `SignalledAreForgotten`: what is signalled is no longer in `running`.

`AbortsAreWanted` and `AbortedIsSilent` then follow without induction.

**A connection: its streams.** `SInv` adds `StreamOK` of every call. That a stream stays whole
(`RestIsComing`: what its caller has had, what is posted and what waits in the outbox follow each other
without a gap) survives its own end only if the end is behind everything else, in each queue
and across both (`EndComesLast`). That a new stream starts with nothing on its way is
`NothingMadeEarly`. Once the client has dropped the stream from its map, `RestIsComing` says nothing, so
`HadWasMade` keeps what a closed receiver has as a prefix, and `EndIsComplete` keeps what a receiver
that heard of the end knows: it has everything, and the execution finished by itself. The latter holds
because only a call that was given up is aborted (`AbortWasWanted`). `ResponseIsComplete` is the same for
a value that waits in its oneshot. The proof is call by call. A step names one call: `OtherCalls`
frames the others, from what an append or a tail of *another* call's message leaves alone
(`KeepsChannel`, `KeepsOutbox`).

**A connection implements remote calls.** The proof first writes the refinement mapping as views of one
status (`CallerView`, `CalleeView`), so that every step is one of four shapes: the caller's status moves
(`CallerMove`), the callee's does (`CalleeMove`), an item is made or handed over (`ItemMade`, `ItemGot`), or
nothing is seen (`NoMove`). `ItemGot` is where `HadWasMade` is needed, since the abstract caller may only
have items that were made; a response or an end that is handed over needs `ResponseIsComplete` or
`EndIsComplete`.

**The handshake.** Which ends are JavaScript and whose callers throw is part of the
state, chosen once, so the theorems hold for every combination. An end becomes ready only by hearing a
null, so its peer was listening when it posted it (`SendersListen`); data is posted only by an end that
is ready (`DataIsFromReady`); and an end that still waits while its peer is ready has a null at the head
of its channel, ahead of all data (`NullComesFirst`), because the peer's last null is posted after it
heard that this end listens, and so cannot be lost.

**The handshake keeps the order.** What an end has sent is split in three: arrived, posted, queued; each part
carries an interval of the numbers, in order, and the intervals follow each other (`InOrder`). All of an
interval is there unless a queued send may throw. The proof needs that queues are only those of
endpoints that still wait (`QueuedBeforeReady`), otherwise a send could be posted ahead of one that is
queued. The refinement of `Link` follows step by step: a send appends to posted and queued
together, the flush at the first null moves between them and is a stutter, an arrival takes the head.

**A connection with an endpoint.** `JInv` says what holds of call `s` of end `e`, whatever the kinds of `e` and
its peer (`CallOK`), and that each end has the state of its own kind only (`OwnKind`). `CallOK` has the
facts of `IInv`, restated for promises and handlers, and three that only endpoints need:
`ForgottenWasGivenUp` (a handler that nobody listens to serves a call that was given up or an endpoint that
was closed), `AbortIsLast` (no request is behind its own abort, and nothing is left of a call whose abort
has been taken), and, in `MapsMatch`, that no number is in both `pendingRequests` and `openStreams`. The
last was found by the proof: from a state with a number in both, a response would settle a call that
`openStreams` still holds, so that without it the invariant is not inductive. The proof has a lemma per action, about the calls the end makes
and those it serves; `Frame` and its kin carry everything else over a step, from what a post or a take
leaves in a queue (`SameDown`, `SameUp`). A promise only ever moves forward (`Moves`), and a failure or a
close only loses things (`Loses`): both preserve `CallOK` once and for all.

**The streams of an endpoint.** `JsSInv` adds a `StreamOK` of its own, written once for the four pairs of
languages: what a call has had (`Had`) is delivered and chained at an endpoint, received and buffered at a
Rust client. Two of its parts have no counterpart between Rust interfaces. `ServedWasSent` is needed because a
call can throw after it has its number: nothing is ever served for it. And where a Rust caller is told
of the end once, an endpoint hears it (`HeardEnd`) while callbacks may still wait in the promise queue;
`EndIsComplete` carries that everything is there from the one moment to the other, and says that nothing
waits any more when `done` resolves. A callback that throws leaves its stream `broken`, and from
then on only the prefix is promised (`HadWasMade`). As before, a step names one call on one side, and
`OnlyOne` frames the rest; a failure and a `close()` move every call of an end at once, and only towards
states of which `StreamOK` asks less.

**A connection with an endpoint implements remote calls.** The proof is again about what a step lets the
caller's and the callee's side of one call be seen as, whatever the languages. `CallerSteps` lists what may
happen to a caller and what must be known of its callee for each step to be one of `Rpc`; `CalleeSteps` is
its mirror image. Every action is then one of the two, with four uses of the invariant: a call that is
taken up was made (`HeldWasSent`, from `RequestIsFresh`), an item that is handed over was made
(`HandedOfMade`), a promise that settles was answered (`ResponseIsFinal`, `EndIsComplete`), and a
handler that is abandoned serves a call that was given up, or an endpoint that left
(`ForgottenWasGivenUp`, `UnwantedSeen`). A failure and a `close()` give up all the calls of an end in one step
(`GivingUpSeen`), which is why `GiveUp` of `Rpc` is about a set of calls. A call that threw or was refused,
and a request that could not be decoded, are not seen at all: they stay idle.

**What has no parts crosses.** The two codecs were written apart: endpoint.mjs shifts groups out of a
number in a loop and adds them up in another, where `PostcardPrimitives` says which bytes encode which number.
`VarintWritersAgree` is about the loop of the writer: after k rounds it holds the number divided by
the k-th power of a group (`VarintQuotients`), so it stops at the least number of bytes that suffices.
`VarintReadersAgree` is about *any* bytes, padded varints included: if postcard takes them, so does
endpoint.mjs, with the same number and the same bytes left. The other direction does not hold and is
not claimed: endpoint.mjs cuts to its width what postcard refuses. That a number is the sum of its digits
(`NumberOfDigits`) then makes it cross (`VarintsCross`), signed ones by `ZigZagType` and `ZigZagFits`. Text
crosses because no character begins with the bytes of another: two texts with the same bytes have their
characters in the same places (`SameCharacter`), so neither is longer (`ShorterTextInjective`).
`PrimitivesCross` puts this together for all types, with the method of `Writer` and `Reader` that
`PRIMITIVES` and the name of the type in `code.rs` lead to. It includes that u16 and i16 take the methods of 32
bits. The assumptions: `ScaleAssumption` (a byte of a varint holds at least one bit, a type more than
one byte), `WidthsAssumption` (a signed type is as wide as the unsigned one, 16 bits are no more than
32) and `Utf8Assumption` (characters have bytes, and none begins with another). The values are those of
`IsPrimitive`: numbers in the range of their type, text and bytes whose length fits a u32.
`ValuesAssumption` of `Generated` has TLC check that all the values the run tries are of that kind. Floats keep
their sizes of two and three bytes; nothing in their proof depends on it.

**Methods keep their numbers.** The enums are numbered by what rustc leaves of them under the cfgs that each
variant carries, the description by the constants that are not empty. `NumberingAgrees` says that the
k-th variant is the method the k-th entry describes, and that both have every method that is there, for
any list of methods, any cfgs and any flags. The hypothesis is that no `cfg_attr` brings in a
cfg, without which it is false: that is the finding of the run `cfg_attr`.

These facts about data need induction, for which the library has only theorems that take an operator.
`SetInduction` is the form that needs none: a *set* with 0 that is closed under + 1 has all numbers,
from the least element of its complement, which exists because < is well-founded on Nat
(`NatLessThanWellFounded`, `WFMin`). With it, `RecursionOnNat` and `RecursionAgrees` show that the recursive
functions of the models (`Power`, `NumberOf`, the loops, `FlattenSeq`) exist and obey their equations.

**Only model-checked:** the six properties of `generated` (`CallsArrive`, `EchoReturns`, `EncodersAgree`,
`SeenAsDeclared`, `NamesDenote`, `HandlersSuffice`). What they say of types without parts and of numbers of
methods follows from the theorems above; the rest recurses over the structure of types and values with
RECURSIVE operators, which TLAPS cannot reason about. And all liveness (`RequestsAnswered`, `StreamsEnd`,
`SignalledStops`, `BothBecomeReady`, `DataArrives`, `PromisesSettle`, `RustCallsEnd`), since TLAPS does not
reason about fairness and ENABLED.

## 8. What is not modelled

* **Text.** Indentation, quoting and escaping, the two passes of `Output` and its capacity, the names of
  link sections and the guard against two endpoints of one class.
* **What the `.d.ts` excludes.** Values of another type than is declared, `null` for an absent option,
  and numbers outside their width, which the codec truncates.
* **Recursive types**, which postcard-schema can describe and both codecs can follow: a schema here is a
  finite tree. `usize` and `isize` travel as 64 bits and are not tried.
* **`JsName`'s table** of DOM classes, and the wrappers' conversions: constants.
* **The wrap of the sequence counter.** Rust wraps at 2^32, `_sequence` in JavaScript never does while
  the wire carries 32 bits. `MaxCalls` stays below either.
* **A server dropped while requests arrive**, which panics in the shared dispatcher (`lib.rs` 421).
* **An endpoint that ends before its handshake does.** `close()`, `_fail` and aborts are modelled for
  endpoints that are ready: `JsConnection` starts there, and in `Handshake` neither end is closed or
  fails. So what the code does with `_queuedSends` and the timer in `close()` and `_fail`, and that a peer of an
  endpoint closed early waits for ever, is not covered.
* **The lifetime of ports and workers**, which the library leaves to its user, and a `Client` or
  `Server` dropped with calls in flight: futures keep the listener alive, so dropping the client
  alone changes nothing for them.
* **Why a stream of an endpoint ended**: an iterator that threw ends like one that is exhausted, as the
  protocol has no message to tell.

## 9. The plan

The core was modelled in this order: client, server and dispatcher, then their composition and its
invariant, the handshake, the abstract specifications, the JavaScript endpoint, and the generator with
both codecs; and proved in this one: calls, handshake, order of sends, streams, the refinements of
two Rust interfaces and of the handshake, the calls and streams of an endpoint, and the refinement of a
connection with one, and last the codecs of what has no parts and the numbers of methods. What is left,
the most valuable first:

1. *The wrap.* A counter of two or three bits in `Client` and `JsEndpoint`, and what must be assumed of
   the age of open calls for the properties to survive it.
2. *A server that is dropped* while its client lives on.

## 10. How to run it

    tlc -workers 2 -config OneWay.cfg MCConnection.tla      # also TwoWay, Live, DropCancels, CloseDrains
    tlc -workers 2 -config JsCallsRust.cfg MCJsConnection.tla   # also RustCallsJs, JsBothWays
    tlc -workers 2 -config Handshake.cfg MCHandshake.tla    # also QueuedSends
    tlc -workers 2 -config Generated.cfg MCGenerated.tla    # also CfgAttr
    tlapm ConnectionProofs.tla      # also StreamProofs, HandshakeProofs, JsProofs, JsStreamProofs,
                                    # InterfaceProofs, PeersProofs, GeneratedProofs

The largest run, `one_way`, has just under a million distinct states and takes about a minute; `rust_calls_js` and
`js_both_ways`, which compare every step with `Rpc`, take about two.
PROJECT.json says which lines of the sources each definition models.
