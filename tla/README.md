# A verification project for rlldpctl

rlldpctl talks to a running `lldpd` over its Unix control socket: it frames
requests and replies, decodes lldpd's memory-image payloads, and offers the
result as a blocking and a tokio API. The modules here model that code, TLC
checks them on small instances, and TLAPS proves the invariants of the session,
the cursor and the decoders, and the refinement, for every instance. `PROJECT.json` maps each
definition to the lines it models.

## Inventory

| Part | State it keeps | Operations | What is hard about it |
|---|---|---|---|
| `transport.rs` | the byte stream, shared by all calls of a client | `request`, `recv_notification`, `read_message` | framing must survive refused replies; EOF at any byte; the cap on lengths, of replies and of requests |
| `client.rs` | one `UnixStream` | `connect_to`, `interfaces`, `interface`, `all_interfaces`, `set_port_description`, `subscribe` | interfaces vanish between two requests; a `SET_PORT` whose answer is lost; names that do not survive decoding |
| `subscription.rs` | the stream of a consumed client | `Iterator::next` | notifications right behind the acknowledgement; which errors end the iteration |
| `async_client.rs` | as above | the same methods, as futures | a future dropped at an `.await` abandons a reply or tears a frame |
| `wire/cursor.rs` | payload and offset | `chunk_header`, `leaf`, `read_chunk_pod`, ... | sizes up to `usize::MAX` come from the message |
| `wire/raw.rs` | - | `#[repr(C)]` structures | offsets differ by target and by lldpd version |
| `wire/decode.rs` | chassis cache | three payload decoders | nested lists, deduplicated chassis, two layouts and no version number |
| `wire/mod.rs` | - | two request encoders | sizes and padding |
| `model.rs` | - | values, conversions, `ManagementAddress::ip` | chassis shared by several neighbors; two numberings of id subtypes |
| `error.rs`, `lib.rs` | - | error kinds; re-exports | - |

A caller's method calls `transport::request`, which writes one frame and reads
one; the payload then goes to a decoder. The client and lldpd share only the
two directions of the socket. Concurrency comes from lldpd (it answers, pushes,
changes its tables and hangs up at any time) and, in the async API, from the
caller, who may drop a future.

## Modules

`Transport` models one connection. Each direction is a sequence of *cells*: a
frame is `HeaderCells` cells of header and `len` of payload, and a cell knows the
frame it was cut from. `request` starts a call, `WriteAll`, `ReadHeader`,
`ReadPayload`, `ReadEof`, `WriteFails` are its steps (`pc` says which is next) and
`DropFuture` is the end of a cancelled one: it leaves a prefix of a request
written or a prefix of a reply consumed. A header read from the middle of a frame
is any header. `sent`, `taken`, `orphans` and `skewed` are history: requests
written, frames taken, replies abandoned, and whether a reader may have lost the
frame boundaries.

`Lldpd` (external) is the daemon: it takes whole requests in order and pushes one
reply for each, notifies once subscribed, gains and loses interfaces, and hangs
up at any cell, losing what it had not flushed. `Faults` chooses which other
frames it may send: `undecodable`, `wrong_type`, `oversize`, `reject`, and
`none_payload`, a refusal with a payload behind its header. A request
above the cap (`LongDescr`: a description that is too long, which `request` does
not look at) is never served; `HangupTooLong` is the hangup it provokes.

`Session` composes the two with the public API. A method is a starting action
(`interfaces`, `subscribe`, `next`, ...), the transport's steps, and an ending
action that turns the transport's result into the method's. `all_interfaces` is a
loop of such steps. With `Async = TRUE`, `Cancel` drops the running future.
`Lossy` is what `String::from_utf8_lossy` does to an interface name: names in
`NonUtf8` come out as `Garbled`, and it is `Garbled` that goes back to lldpd.

`Exchange` is the abstract specification of the transport: no headers, cells or
partial reads, only whole messages. A call sends its request, lldpd answers it or
refuses it, pushes notifications and may hang up, losing the youngest messages;
a request takes the message with its own number, a subscriber the oldest one, and
`Judged` decides by that message alone. `Session` instantiates it as `X`: `call`
is `cur`, `asked` the frames in `c2d`, and `mail` (`Mail`) the messages whose last
cell the client has yet to take, which makes the read of a header, or of part of
a payload, a stuttering step. A frame that a hangup cut short is in no `mail`.
`ImplementsExchange` is checked and proved for the blocking API with replies below the cap;
the runs `cancellation` and `oversize` show why it needs both.

`Cursor` has the operations of `cursor.rs` as operators on a record (payload as
words, length, offset, ok), with `usize` arithmetic that wraps at `USIZE_MAX`.
`CursorWalk` lets any of them follow any other on any payload, so what it shows
holds for every decoder.

`Layout` holds the structures of `raw.rs` and computes their sizes and offsets.
`Decode` has the decoders. Each is the sequence of reads it makes behind its own
structure, and `Step` makes one of them, with the decoders' call stack made
explicit (`todo`, `frames`); the first that fails is the last (`?`). `Chain` is
the recursive list walk and `PortChassis` the cache. `DecodeWalk` is the state
machine of it: any decoder on any payload of `Inputs`, a read per step. `Answers`
runs a decoder to its end (`Walk`, the one recursive operator of the decoders) and
makes of its fields what `model.rs` does. `Marshal` has the two encoders and, as
external reference, lldpd's `marshal_serialize`. `Tables` is a small state machine
of lldpd's tables; its invariants encode the tables of each state and decode them.
Text is a label, unique per string, and so are `h_ifname`, `h_lladdr`, `p_ttl` and
the capabilities; subtypes, families and change kinds have lldpd's numbers, and
the operators named after the types of `model.rs` turn them into its values. The
other plain fields are `noise`, a choice of zero or a large word, because what
they hold matters only when the wrong layout reads them as pointers. So it is for
the pointers that lldpd does not marshal and copies as they are (`Unmarshalled`):
the end of a list and the way back from an element are never null, as in the
capture at `src/src/wire/decode.rs:520`, and hold `HeapAddress`; the other ones of
a `RawHardware`, whose words the wrong layout reads as the heads of lists, are
null or not (`noise.ptr`). `arcs` tells which chassis of a result are the same `Arc`.

`MCSession`, `MCTables` and `MCDecode` hold the instances' constants. Definitions marked
`Mutant` are deliberately wrong variants of a definition after them, at least one
for each property: with the variant in its place, TLC finds the property violated.

## Runs

| Run | Checks |
|---|---|
| `sync_session` | the blocking API, three calls, two interfaces that flap twice, two notifications, a description that is too long, all faults but `oversize`, refusals with a payload among them; what `all_interfaces` collects and for which request (`FetchedIsAsked`); also that it implements `Exchange` |
| `async_session` | the tokio API with cancellation anywhere, three calls, one interface, one notification, undecodable payloads and refusals; also what a `SET_PORT` outcome says after dropped futures, and what follows an I/O error |
| `liveness` | `CallReturns`, `NoteDelivered`, `IterationEnds`, with a too long description and a name that is not UTF-8 |
| `cursor` | all payloads of up to six 2-byte words from {0, 3, 4, 5, 6, 31} with `usize::MAX` = 31, and every walk over them |
| `decoders` | every decoder on three payloads of lldpd (two interfaces; hardware with a neighbor; a change), each with any one word replaced by 0, 1, 24 (a header and a word), 40 or `usize::MAX`, or its end cut off inside any word; most of them are not meant for that decoder |
| `payloads` | 64-bit, two interfaces with up to one neighbor of four shapes, both layouts, noise on and off in both structures and in the unmarshalled pointers; interface lists, the encoders at name lengths of every residue modulo the word size, and every message cut at each word and one byte short (with the words that the sender's layout ignores all zero or all not, for `HardwareRoundTrip` shows that it reads none of them) |
| `payloads32` | 4-byte words and 8-byte aligned `u64`: there the layouts differ by 8 bytes, the size of a chunk header, which is the worst case for telling them apart; the same noise; one interface, up to two neighbors on three chassis; `ChassisShared` |
| `cancellation`, `oversize`, `fresh_connection`, `lossy_names`, `layout_shift` | expected violations: see below |

The bounds: a bug in request/reply matching needs one call to go wrong and one
to see it, three leave room for a subscribe; headers of two cells and payloads of
up to two have an inside and an edge to be cut at. Two interfaces are needed for
order and for one to vanish while the other stays. Two neighbors on one chassis
and a third chassis in the local port exercise the cache; lists of two exercise
nesting. Word 31 in `cursor` is `usize::MAX`, so additions overflow. In `decoders` a
replaced word becomes a link where there was none, the end of a list, a size too
small or too large; a second one would only matter behind the first, and the
proofs of its properties leave no bound. The one notification of `async_session` is
enough to be torn, and to be missed; two in a row are in `sync_session`, and
`NotesNeverLost` is proved for any number.

On 64-bit the layouts are one word apart, so the wrong one takes the end of a list
for its head and `h_lport`'s words for its links. Such a message is refused because a
list ends in an address that is not null: the wrong reading then expects a list
where there is none. Were the ends null, some values of the words around them would let
one layout parse a message of the other: `LayoutsNotConfused` rests on what lldpd
leaves in those words, and not on the format alone. On 32-bit it is the tie-breaker
(`is_exhausted`) that refuses some of the messages.

Deadlock is not checked: a caller may stop calling and a subscription may wait
for a notification that never comes.

Fairness (`ConsumerSpec`): a started method runs on (it is straight-line code
around blocking reads), lldpd serves a request it has received or, if its header
announces more than the cap, closes the connection (its event loop does; without
a timeout in the client nothing else could unblock a call), and the consumer
keeps iterating. Nothing is assumed of notifications, other hangups or
interfaces. Frames in the liveness run are never above the cap and no future is
dropped: a reader that has lost the boundaries may block for ever.

## What the expected violations show

* `cancellation`: after a dropped future the next call of an `AsyncClient` can
  return the abandoned call's reply. `ReplyLag` says exactly how stale it is.
* `oversize`: a reply above the cap is refused with its payload unread, on a
  client that can go on being used.
* `fresh_connection`: a `Client` reuses one connection, though comments in
  `transport.rs` say that there is one per request; it is why the two cases
  above matter.
* `lossy_names`: an interface whose name is not UTF-8 is listed under a name that
  lldpd does not know, so `all_interfaces` skips it although it never went away.
* `layout_shift`: the newer layout moves pointers by 8 bytes on 64-bit targets,
  not by 4 as `raw.rs` says. The decoder uses the real offsets.

Two more observations. The scope note in the repository's README ("Nothing that
changes daemon state (`SET_PORT`, ...) is implemented") predates
`set_port_description`; `SetPortOutcome` states what that method does promise. And
a *truncated* message of the older layout
can decode under the newer one when its fields are zero, so `WholeOrNothing` is
stated for the sender's layout. Transport never hands a decoder less than the
declared length.

## Proofs

Assumed are only the named `ASSUME`s on constants: cells per header and cap are
positive, `Bad` is not a list, lldpd's first interface list has no duplicates,
`Garbled` is a name that is UTF-8, and words fit `USIZE_MAX`. (Those of `Marshal`
and `Tables` concern model-checked modules only.) `SizeAssumption` (a
structure has a size, and `h_lport` lies inside of either hardware layout) is a
fact that `Layout` computes from the structures by a recursive function, whose
values no prover unfolds this far: TLC evaluates it for both targets that are
checked.

* `StreamLemmas`: appending, cutting and splitting streams of frames keeps
  `Intact`, `StartsAt`, `EndsAt`.
* `SessionProofs`: `Spec => []TypeOK` (`TypeCorrect`), then `Spec => []SessionInv`, one
  step per action. `ReplyLag` alone is not inductive: that the next reply has the right
  number follows from both streams being runs of consecutively numbered frames
  (`ReplyStream`, `RequestStream`), from the count `taken + orphans` against `sent`
  (`InStep`), and, since notifications would break the count, from `SUBSCRIBE` being the
  last request of a connection (`SubscribeIsLast`, because `subscribe` takes `self`).
  `ReplyLag` and `SubscribedInStep` follow.
* `SubscriptionProofs`, for both APIs, dropped futures and all faults included.
  `NotesNeverLost`: `SessionInv` knows the next frame only, so `OrderInv` adds the
  whole stream: numbers never go down, go up at the end of a frame (`InSequence`)
  and leave nothing out (`NoGaps`), and `taken`, `pushed` and `sent` are in that
  order (`Counted`). `NoneMeansHungUp` and `NoneIsFinal` hold even for a torn stream:
  `EndInv` says that a read that met the end has used up the stream and the one
  report of a reset, and that an ended `Subscription` can only meet it again.
* `ClientProofs`, first for both APIs with every fault and dropped futures:
  * `OutcomesTold`: `Effects` says that a frame on its way tells what lldpd did with
    the request of its number (`Honest`), and that nothing not yet answered has been
    applied. Futures that tore nothing leave it true, so an outcome, even one that
    came too late, is true of the request `ret.num`, and `ReplyLag` says which one
    that is. A torn reader may make anything of what it reads, hence `~skewed`;
  * `IoErrorsLast` needs no such condition. `FailedInv`: who has failed with an I/O
    error has met the end of a connection that lldpd closed. `Over`, which such a
    state satisfies and every step keeps: a later write fails, a later read meets
    the end again, and whatever is left in the stream is never looked at.

  Then for the blocking client and replies below the cap. Nothing is ever torn
  and `orphans` stays 0 (`Calm`), so `AnswersThisCall` and `StaysFramed` follow from
  `SessionInv`. The rest needs `Base`: a request that lldpd has not taken is the one
  that the client waits for, and then nothing else is on its way (`OneRequest`); so
  lldpd's view of "this request" and the client's agree. On top of it
  * with `Effects` and `ReplyLag` this is `SetPortOutcome`; with `EndInv` it is
    `IoErrorIsFinal`, since a connection that is over stays over (`OverStays`);
  * `LongInv`: until the call returns, a request that is too long is unread in `c2d`,
    or was thrown away with a reset. That is `TooLongFails`;
  * `AnswerInv`, `LoopInv`, `CompleteInv`: a refusal of `GET_INTERFACE` is worth
    something because only an interface that went away is refused, and a list names
    all that has stayed; the loop has asked for a prefix of the list (`Fetched`), `acc`
    is drawn from that prefix, request by request and in its order (`DrawnBy` names the
    requests), and holds all of it that has stayed. These give `AllInterfacesInOrder`,
    `FetchedIsAsked` (`AddsWhatWasAsked`: each addition is the interface of the request
    just made) and, for UTF-8 names, `AllInterfacesComplete`:
    in general only the UTF-8 names are sure to be returned (`Utf8NamesReturned`), and
    `lossy_names` shows why.
* `ExchangeProofs`: `Spec => ImplementsExchange`, under the same assumptions. `Whole(s)`
  is the set of frames that end in the stream `s`; the lemmas say what appending a
  frame, reading a header, reading a rest and a cut do to it. Then each action of
  `Session` is an action of `Exchange` or leaves what it sees (`Seen`) alone: the read
  of a header changes `Mail` in no way, the read of a payload takes the oldest message
  (`OrderInv`), which for a request is its own reply (`ReplyLag`), the end of the
  stream is met with `Mail` empty, and a hangup keeps the messages up to some number.
  Steps of `all_interfaces` begin an exchange each.
* `CursorLemmas` says what each operation of the cursor does to its position and
  what it returns, sums that wrap at `USIZE_MAX` included. `CursorProofs` has
  `InBounds` and `DepthBounded` for any payload, word size and `usize`, and any
  order of operations.
* `DecodeProofs`, for any payload, word size and `usize`: `FieldsInBounds` and
  `WorkShrinks`. The first is not inductive: a read that is to be made later pushes
  further reads, of the same structure or of one inside of it, and they are in bounds
  only if that structure is the one meant. `DecodeInv` adds that each read on the stack
  fits the type of the structure it looks at (`Fits`: the embedded port is read from
  hardware only, an element only of a list that has such elements). `Legal` says so of
  the reads that a structure brings with it, and that they are no more than `MaxReads`.
  The measure of `WorkShrinks` weighs a byte unread as `MaxReads` reads: a read that
  takes bytes takes at least a header, a read that takes none pushes none.

`~Async` and `"oversize" \notin Faults` in the later theorems of `ClientProofs` and in
`ExchangeProofs` are not there for convenience: without them run `cancellation` violates
`AnswersThisCall` and run `oversize` violates `StaysFramed`, and both follow under the
two assumptions. `Calm` collects what holds under them.

Only model-checked:

* `CallReturns`, `NoteDelivered`, `IterationEnds`: liveness under fairness is beyond
  the prover.
* Everything in `Tables`: what a decoder makes of a whole payload is a recursion over
  the data, and so is the marshaller that wrote it, and what they compute for every
  input could only be proved by induction over that data. What can be said of one
  read of any decoder is proved in `DecodeProofs`.

## Not modelled

* `lib.rs` (documentation and re-exports), the examples and the tests: callers of
  the API, whose calls are among those that `Caller` makes.
* `Capabilities::contains`, `port_id_str`, `id_str`, `socket_path` and the default
  path: accessors without state. `c_cap_enabled` shares a word with
  `c_cap_available` and is not followed separately.
* The bytes of strings: the trailing NUL, an interior NUL in a name or description
  given by the caller. Lossy UTF-8 is modelled for interface names only, the one
  text that goes back to lldpd.
* Byte order and the padding inside headers; the stack use of the recursive
  decoders, whose depth is bounded by `DepthBounded` and `WorkShrinks`.
* Timeouts and retries: the code has none.
* Two clients at once: they share nothing but lldpd, and no property of this
  crate relates them.

## Plan

1. Done: transport, lldpd, session; cursor; layout, decoders, encoders, tables;
   `model.rs`; the abstract `Exchange` and the refinement; over-long requests.
2. Done, proofs: the inductive invariants of the session, the Subscription and
   Client properties for every instance, and the refinement of `Exchange`.
3. Done, proofs: what an outcome and an I/O error mean in either API; the decoders
   as a state machine that stays in bounds and ends.
4. Open: the round trips of `Tables` for every table, which need a prover with
   induction over data.
