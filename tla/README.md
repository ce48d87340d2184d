# A verification development of easee-ble

TLA+ models of `easee-ble`, a Python library that controls Easee EV chargers
over Bluetooth, with what TLC checks of them on small instances and what TLAPS
proves of them in general. Source paths are relative to the repository;
`client.py` and the like are in `src/easee_ble/`.

## The system

An application holds an `EaseeCharger` (client.py). It connects to one charger
through bleak, authenticates with a PIN, and then makes one request after
another; each is written to a GATT characteristic (a *channel*) and answered by
a notification on the same one. The layers beneath are sans-io: `Session`
builds requests and parses replies, `ECJPake` is the key exchange, `crypto` the
record layer, `commands` and `frames` the formats.

Everything runs on one asyncio event loop: nothing is preempted, and everything
may happen between an `await` and what follows it - another task of the
application, a notification, the backend's report that the link dropped, a
timeout, a cancellation. bleak and its backend are not part of the repository;
their `is_connected` and their reports can lag behind the radio, and code that
relies on them says so (client.py:99, :184).

| Component | State | Operations | What is hard, what must hold |
|---|---|---|---|
| Requests and replies (`client.py`) | `_queues`, `_waiting`, `_answered`, `_bonded`; locals of a call | `_write_and_wait`, `_write_with_retry`, `_wait_for_reply`, `_next_reply`, `_deliver` | replies have no serial number: late, repeated and unrequested notifications must not be taken for the reply; a write that fails may have been received; a drop wakes the wait; every call ends |
| Connecting, disconnecting (`client.py`) | `_client`, `_session`, `_link_lost`, `_link_lost_event`, `_bonded` | `connect`, `_reconcile_link_lost`, `disconnect`, `_disconnect_bounded`, `_on_disconnected` | any await may fail, time out, be cancelled or be overtaken by `disconnect()`; the charger has one slot, so no link may be abandoned; reports of drops are late |
| Discovery, subscription (`client.py`) | `_chars`, `_notify_ok`, `_handle_to_channel`, `_notify_cancels` | `_resolve_and_authenticate`, `_callback_kept`, `_subscribe_without_cccd`, `_remember_cancel` | handlers must be released; partial GATT tables; two ways to subscribe, of which one may half succeed; nothing of an earlier link may speak for the present one |
| Bonding (`client.py`) | `_bonded`, `_bond_note` | `_ensure_bonded`, on a refused write | it is an attempt inside the retry loop; `_bonded` is set after an await, for a connection that may be gone, and need not be true of the next |
| EC-JPAKE (`jpake.py`) | a context: secret, own scalars, the peer's points | two rounds of write and read, `derive_secret` | the sides agree exactly if their secrets do; a method that raises has already stored some of what it read |
| Session handshake (`session.py`) | `_jpake`, `session_key` | `start_handshake`, `read_round_one`, `read_round_two` | replies of another exchange, repeated or cut |
| Session requests (`session.py`) | `_uid`, `session_key` | `poll_*`, commands, `parse` | order errors |
| Polling, commands (`client.py`) | `unknown` | `poll`, `perform` | the session is read again after awaits; a poll that fails half-way; frames of several channels merged into one answer; a refusal is a reply too |
| Frames (`frames.py`) | - | `parse_response`, `decode_protobuf`, `command_*` | a frame in part against a broken one; lengths that overrun, varints at their width, signs; fields that are text, message or bytes without a schema to say so |
| Commands (`commands.py`) | - | the request builders | currents at their bounds, phases given in part |
| Record layer (`crypto.py`) | - | `encrypt`, `decrypt` | frame lengths, keys |

Calls go down this table's left column from the client to the pure layers.
Back up come callbacks: notifications (`_on_notify`, `_on_notify_handle` ->
`_deliver` -> a queue) and `_on_disconnected`, which sets `_link_lost` and the
event that waiting calls also wait on. `connect()` makes the first two requests
itself, with the same `_write_and_wait`, before the session exists.

The hazards of this code, each at its line with the properties aimed at it, are
listed in PROJECT.json.

## The modules

| Module | Models | Proofs |
|---|---|---|
| `RequestReply` | what the caller of a request is promised | |
| `Exchange` | requests and replies on one established connection; implements `RequestReply` | `ExchangeProofs` |
| `Calls` | `poll` and `perform`: several requests, each as `RequestReply` has it | `CallsProofs` |
| `Commands`, `Replies` | the request builders; what is made of a decoded reply: operators `Calls` uses | |
| `Connection` | the life of connections over several links, and what requests change of it | `ConnectionProofs` |
| `Discovery` | subscribing to the channels of a link, await by await: the phase `subscribing` of `Connection` in detail | `DiscoveryProofs` |
| `Frames` | decoding frames, byte by byte | `FramesProofs`, over `Recursion` |
| `ECJPake` | the methods of the class `ECJPake`, as operators | `ECJPakeProofs` |
| `Handshake` | a session's handshake with a charger, over `ECJPake` | `HandshakeProofs` |
| `MCCalls`, `MCDiscovery`, `MCFrames`, `MCHandshake` | the values TLC gives their constants: tables of names, GATT tables, bytes, random numbers | |

### Exchange

`phase` is where the coroutine of the call is suspended: in the write, in
`pair()`, in the pause before a retry, or in `asyncio.wait`. Each action is one
stretch of code between two suspensions: `Ask` is everything from the call of
`_write_and_wait` to the first `write_gatt_char`, its early errors included;
`WriteDone`, `WriteTimesOut`, `WriteFails`, `WriteRefused`, `PairDone`,
`PairFails`, `RetryWakes` are the ways a suspension in `_write_with_retry` ends,
`NextAttempt` being the `for` loop; `WakeReply`, `WakeDropped` and `TimeOut` are
the results of `_next_reply`, with the decision of `_wait_for_reply` to skip a
reply. `Ends` is the `finally`. `Cancel` may happen at any suspension.

`_queues`, `_waiting`, `_answered`, `_bonded`, `_link_lost` and the event are
variables of their names (`client` says whether `_client` is None). `up` is the link
itself, `believed` the backend's `is_connected`; they part and meet in
`LinkDrops` and `BeliefCatchesUp`, and `DropReported` is `_on_disconnected`, before
or after either. The charger keeps the writes it received (`inbox`) and answers
them in any order, or never; `ChargerReceives` is apart from `WriteDone`, so
that an answer can come before the write completes, and a write can fail that
was received. `Teardown` is `disconnect()` by another task.

A reply carries its command id and two ghosts: which request it answers, and
how many requests had been made when it was delivered. A request is its channel
and command id.

### RequestReply and Calls

`RequestReply` has three variables: every request made, whether the last is still
out, and how it ended. A request ends once; a reply it returns was delivered
while it was out and answers the same question, or nobody's - it may answer an
*earlier* request that asked the same, which is what the code can keep
(`exchange_own_answer` shows that it keeps no more). `Exchange!Promise` is the
refinement: the requests, `phase # "idle"` and the outcome of the call.

`Calls` is `poll` and `perform` on top of it. Its actions are the stretches
between two awaits: `Poll`, then for each channel `PollAsks` (the generator builds
a request, from a session no await has passed since looking at) and `PollReads`,
`PollCannotRead` or `PollFails`; `PollReturns`; `Perform` with the builder that may
raise, and a way to end for each reply there is. Between them the request is
`RequestReply`'s (`INSTANCE`), and another task may `disconnect()` while it is out;
`session` is looked at again after it, as in client.py:585. The value of a field is
the request whose reply carried it, which makes fields of two polls differ.
`phase = "asking"` lasts no time in the code: only `Step`s of the call are possible there.

`Commands` gives a builder's requests as a set, empty when it raises ValueError.
`Replies` has `Frame.named`, `Frame.unknown`, the aliases and
the acknowledgements; `NamesAssumption` is what tests/test_invariants.py holds the
tables of names to.

### Connection

The caller's task is in `connect()` or `disconnect()`; `phase` says at which
await, and `mine` is the local `client`. A `BleakClient` is the number of the link
it was made for; of each link the module has the radio's state (`link`), the
backend's belief, whether its drop was reported, and how far its `disconnect()`
is (`closing`). `Released` is `disconnect()` up to its await; the handlers it
unsubscribes are in `Discovery`. The caller's task then waits in `closing`, and `CloseEnds` is
also `DISCONNECT_TIMEOUT` and a cancellation, after which the disconnect goes on
by itself (`DisconnectCompletes`, `DisconnectFails`). `SetupFails` stands for every
failure between a link and a session - discovery, MTU, subscription, a write, a
JPakeError, `SETUP_TIMEOUT`, cancellation - since `connect()` treats them alike.
`OtherDisconnects` is another task's `disconnect()`. `OnDisconnected` is the
callback, called for any link of the past (`DropReported`) or for an attempt
inside `establish_connection` (`AttemptReported`).

Of requests there is what they change here: the two of the handshake, answered or
failing, and those made afterwards (`Ask`, `RequestEnds`). Any of them may find that the
charger wants a bond: `Bond` calls `pair()` on the client of the moment, and `PairEnds` sets `_bonded`
when it is done, whatever another task's `disconnect()` has done to that client meanwhile. How a request is answered,
retried and timed out is `Exchange`'s.

### Discovery

`_resolve_and_authenticate` for which `Connection` has one phase. `Visit` is a turn of
the loop up to its await, over a characteristic of a channel; `StartNotify` is
`start_notify` succeeding, or failing with its callback left registered
(`_callback_kept`); `NoWayAround`, `SubscribeWithoutCCCD`, `RegisterFails` and
`RememberCancel` are the out-of-band path, with the backend's own registering
(`BackendRegisters`) apart from the return of the call, so that a timeout, a
cancellation or a `disconnect()` can fall between the two. `callbacks` and `registered` are
the backend's: which handlers it will call. What a link's services show (`table`) is
chosen anew for each link. Two ghosts name the cases in which the code does not clean up:
`interrupted`, the handlers whose registration was cut off before the client had the
means to undo it (client.py:270), and `kept`, a `connect()` after a `connect()`, which keeps
`_notify_ok`, `_handle_to_channel` and `_notify_cancels` of the link before.

### Frames

`Varint`, `LengthDelimited`, `Decode` and `ParseResponse` are `_varint`, `_length_delimited`,
`decode_protobuf` and `parse_response`, on sequences of bytes; an error is a value,
so that which error comes first is part of the model. `Varint` and `Decode` are recursive
functions, the loops of the code. The
widths are constants. The two variables only enumerate inputs: `data` grows a byte at a
time, as a reader gets it, and `message` a field at a time, as a charger writes it
(`Encoded`). `Fields` is what a charger may put in a message: numbers that fit the width, floating point
numbers, which are their bytes, any bytes at all - a text or not - and messages of such fields, nested to any `Depth`
(`FieldsAssumption`). `Characters` are the sequences of bytes that UTF-8 has for the characters, of one byte or more, and
`Printable` those of printable ones: bytes are text if they can be spelled with these (`Spelled`).

Without a schema the decoder cannot know what a field is, and tries text before fields: a nested message whose bytes happen to
be printable is read as text. `20 C2 A9 20`, field 4 with the number 529602, is " © ". `ReadAs` is what each field is read
as, and says where this happens; `Meant` is what a message says with every field so read.
That Python would not follow a message nested some thousand deep is left out.

### ECJPake and Handshake

A point of the curve is its logarithm modulo the order `Q`; 0 is infinity, which
cannot be encoded, and stands also for a field that is None. A proof of
knowledge is what its hash binds: base, point and author. Operators give the
fields as a method leaves them also when it raises: `ReadRoundOne` keeps the
first point of a reply whose second is at fault. `Shared` is the arithmetic of
`derive_secret`, and as the key hashes an x coordinate only, `XCoordinate` takes
a point and its opposite for the same.

`Handshake` lets the user of a `Session` start and read in any order and as often
as he likes, on any reply that was ever sent, whole, cut or damaged; `connect()`'s
order is one of them. A session that raised is not used again. The charger runs
the server role of the same class (as tests/test_client.py does), a new exchange
for each round one.

## What TLC checks

| Run | Checks | Distinct states |
|---|---|---|
| `exchange_calls` | `WaitingRegistered`, `FreshReply`, `SameQuestion`, `KnownDropIsNotWaitedOut`, `CallsEnd`, `KeepsPromise` | 522,748 |
| `calls` | `PollIsWhole`, `UnknownIsOfLastPoll`, `LimitsAreWhole`, `CallsEnd` | 926,468 |
| `connection_life` | `NoLinkAbandoned`, `ClientIsAuthenticated`, `CallsEnd` | 770,847 |
| `discovery` | `HandlersReleased`, `FieldsAreThisLinks`, `NotifyOkIsTrue`, `HandshakeCanBeHeard` | 181,575 |
| `frames` | `Reassembles`, `OpaqueFieldsDecode`, `RoundTrip`, `CutIsContained` | 475,843 |
| `handshake_keys` | `KeysAgree`, `WrongPinDisagrees` | 13,318 |

Each also checks its module's `TypeOK`.

- `FreshReply`: a call never returns a notification that had arrived before it
  was made. `SameQuestion`: an answer it returns answers the same channel and,
  on COMMAND, the same command.
- `WaitingRegistered`: `_waiting` is the channel of the request in progress,
  whichever way calls end.
- `KnownDropIsNotWaitedOut`: once a drop is known, a waiting call ends without
  any time passing. `CallsEnd` (Exchange): every call ends, if time passes.
  `KeepsPromise`: every behaviour is one of `RequestReply`.
- `PollIsWhole`: a poll returns each field at the value the last frame that says it gave
  it, zeroes of absent fields included, whatever the types of the frames that came; a
  retired name follows the one it became. `UnknownIsOfLastPoll`: `unknown` is of the poll whose
  fields were returned last, also after polls that failed half-way.
- `LimitsAreWhole`: a command that a builder makes to limit currents limits one for all phases or each of
  three, in bounds (`Session.command`, which writes what it is given, is not a builder). `CallsEnd` (Calls):
  neither call waits for a session to come back.
- `NoLinkAbandoned`: a link that is up is the client's, or being closed, or one
  whose disconnect raised. `ClientIsAuthenticated`: once `connect()` is over, and while a request is out, a client has
  the session negotiated over it. `CallsEnd` (Connection): `connect()`, `disconnect()` and requests end.
- `HandlersReleased`: between calls without a client no handler is registered, but the one whose registration was cut
  off (client.py:270), which leaks; it takes what `start_notify` hands back to unsubscribe when called.
  `FieldsAreThisLinks`: a connection that follows a disconnect has the channels of its own link's table, and
  a failed one leaves nothing. `NotifyOkIsTrue`: a channel said to notify is heard once per notification,
  under its own name, and any other not at all. `HandshakeCanBeHeard`: no handshake is begun on a link with no
  subscription of its own.
- `Reassembles`: of a frame that has come whole, every part was incomplete, and short of
  exactly what `declared_length` says; one byte more is no frame. `OpaqueFieldsDecode`: no bytes inside a field
  keep the frame around it from being read. `RoundTrip`: what is written is read, at the ends of a whole
  number's width, with nested messages, repeated fields and text of more than ASCII, as far as its bytes allow
  (`ReadAs`). `CutIsContained`: a body cut
  short is an error, or spoils at most the field the cut goes through.
- `KeysAgree`, `WrongPinDisagrees`: an established session's key is one the
  charger has derived, in one of its exchanges, exactly if the PIN is the charger's.

### Bounds, and why they are enough

- Exchange: two requests, because every hazard is between a request and one
  before it; queues of two, a stray and an answer; two write attempts, a first
  and a last; deadlines of one and two ticks, the slow command's longer; one
  channel that answers with ids, one that discovery did not find, one that was
  not subscribed to. The invariants are proved for every value of these.
- Connection: three links - one of the past that is being closed, one present,
  one to reconnect to - and one unreported drop of an attempt
  (`CONNECT_ATTEMPTS` - 1). The invariants are proved for every value.
- Calls: three requests, so that a poll of two channels follows a command or another poll, or is
  followed by one; two types of frame, a type byte that is neither, fields that may be absent, one that may
  not, numbers with and without a name in either type, and an alias; currents at, and one
  beyond, each bound; of the commands one with phases, one without and one bare.
- Discovery: three links; GATT tables that are whole, without HELLO, with HELLO alone, with
  two handles exchanged and a channel that cannot notify, with nothing that can, empty, and without the service.
- Frames: bodies of up to four bytes of twelve values, which cover every wire type, one
  there is none of, a key and a length broken off, printable text and bytes that are none;
  ASCII and two characters of two bytes, of which one is printable;
  headers with each byte right and wrong; messages of up to three fields, nested up to two deep. A
  whole number has 21 bits and floating point numbers two and three bytes instead of 64 bits and
  four and eight: the code treats the widths alike, and what matters is to go to their ends and past them. The
  invariants are proved for every width, every byte and messages of any length.
- Handshake: two starts by the session, three exchanges by the charger; an order
  and random numbers that TLC's arithmetic takes and that coincide in no sum. The invariants are proved for every
  order and any number of starts and exchanges.

Deadlock is checked in `calls` and `discovery`, where the caller can always do something (`poll`
without channels, `disconnect`); in the other runs the bounds stop the model, and its caller may.

### Fairness

- `FairSpec` of Exchange assumes only that the event loop runs what is ready to
  run: a call whose wait has ended wakes up. `KnownDropIsNotWaitedOut` is checked
  under it alone. `CallsEnd` assumes in addition `TimePasses`: the loop's timers
  fire, so each deadline of the code (`REPLY_TIMEOUT`, `WRITE_TIMEOUT`,
  `PAIR_TIMEOUT`, `WRITE_RETRY_DELAY`) is reached. Nothing is assumed of the charger, the
  radio or the backend.
- `FairSpec` of Connection assumes the same of `LINK_TIMEOUT`, `SETUP_TIMEOUT` and
  `DISCONNECT_TIMEOUT`: the failure they lead to happens if nothing else ends the
  phase; and that a request ends (`RequestEnds`), which is Exchange's `CallsEnd`.

- `Spec` of Calls assumes that a request ends, which is Exchange's `CallsEnd`, and that the
  call then goes on, which is the event loop's.
- `Discovery` and `Frames` state no fairness and no liveness: that `connect()` ends is Connection's
  `CallsEnd`.

## What the code does not keep

Six runs expect a violation; each states what the repository says of the
program and shows how the code departs from it.

| Run | Source | What TLC finds |
|---|---|---|
| `exchange_silence` | client.py:436 | Bonding on the last attempt leaves the loop with nothing written; the call waits for a reply and then reports "wrote ... bytes". |
| `exchange_own_answer` | client.py:526 | A late answer to an earlier request with the same command id, or on a channel without ids, is returned for this one (client.py:465, CHANGELOG.md:39). |
| `exchange_errors` | client.py:488 | The backend's exception comes out of a call, not EaseeConnectionError (README.md:161, CHANGELOG.md:40). |
| `connection_usable` | client.py:118, :187 | The report of another link's drop is taken for this one's; settled as stale, it leaves `_link_lost_event` set: the connection says it is usable (client.py:115) and every wait ends as dropped (client.py:82). |
| `connection_bond` | client.py:435 | `_bonded` outlives its connection when the caller reconnects without disconnecting; the new one is never paired (client.py:98). |
| `handshake_wrong_pin` | session.py:62 | With a wrong PIN both rounds verify and the session is established; README.md:157, exceptions.py:31 and jpake.py:153 have JPakeError raised. |

`connection_usable` happens to a caller who disconnects before he connects again (`Disciplined`). Its property has
another way to fail, that the late report of an earlier client marks the present link lost.
`connection_bond` happens to a caller who reconnects without; to one who disconnects it happens when
another task does so during his `pair()`, which the same property excludes.
`handshake_wrong_pin` is as tests/test_client.py:173-181 has it: the first `poll()` raises RecordError.

Seen while modelling, without a run. Where a text of the repository says otherwise: a refusal whose `res` is null raises
TypeError (frames.py:563), not EaseeCommandRefused (README.md:165); `poll()` and `perform()` raise
AttributeError when another task disconnects under them (client.py:585, :646), and `struct.error` may come
out of `poll()` (frames.py:451), where README.md:161 has EaseeConnectionError, as in `exchange_errors`; each is one step
of one call, and modelled (`PerformRefused`, `PollCannotRead`, `PerformCannotRead`, `Fixed`). Where none does: a reconnect that fails
makes a connection known to have dropped `connected` again (client.py:135); JSON that is no object is returned from
`perform()` unjudged (client.py:647); a `connect()` after a `connect()` keeps what the channels of the link before were said to
do (client.py:230).

## What is proved

- `ExchangeProofs`: `TypeCorrect`, `WaitingIsRegistered`, `NoStaleReply` (`FreshReply`),
  `NoOtherAnswer` (`SameQuestion`) and `PromiseKept` (`KeepsPromise`), for all values of the constants.
  `Typed` adds to `TypeOK` that a call in progress has a request. `FreshReply` and
  `SameQuestion` are not inductive: they need to know where every queued notification
  comes from. `Provenance` says it: every answer, queued or still with the charger,
  has the channel and id of the request it is for; and while a call is out,
  everything in its queue was delivered during it, because the queue was emptied
  when it began. The same invariant makes each step of `Exchange` a step of
  `RequestReply`, or none: `Ask` asks or refuses, whatever ends a call returns or
  fails, and the rest changes nothing the promise speaks of.
- `ConnectionProofs`: `TypeCorrect`, `LinksAreNotAbandoned` and `ClientsAreAuthenticated`,
  for any number of links, with or without discipline and a second task. `Located` ties the caller's
  locals to its phase: an attempt has a link to make, setup has one and no other
  client; with it (in `Typed`) `NoLinkAbandoned` is inductive. `ClientIsAuthenticated` speaks of the
  time from the end of `connect()` on; `Settled` says what holds in the midst of one as well: while
  a link is being closed there is no client; and a client that is established, or about to
  be replaced, has the session made over it.
- `CallsProofs`: `TypeCorrect`, `EveryPhaseIsLimited` (`LimitsAreWhole`), `UnknownIsPublishedWhole` (`UnknownIsOfLastPoll`) and `PollReturnsEverything`
  (`PollIsWhole`), for any channels, commands, currents, tables of names and number of requests.
  `BuildersLimit` says of each builder that what it builds limits every phase. `Sound` says of a
  request under way that it limits every phase if any, and that a call waits for it. The two properties of a poll that returned need the same
  of one in progress: `Read` and `Merged` say that what has been gathered so far is what the
  frames read so far say; `ReadsOneMore` and `TellsOneMore` that one more frame keeps it so. They rest
  on `NamesAssumption`, what the code's own tests hold its tables to.
- `DiscoveryProofs`: `TypeCorrect`, `HandlersAreReleased`, `FieldsAreOfTheLink`
  (`FieldsAreThisLinks`), `NotifyOkTellsTheTruth` (`NotifyOkIsTrue`) and `HandshakeIsHeard`
  (`HandshakeCanBeHeard`), for any channels, handles, GATT tables and number of links. The properties
  speak of the time between calls, or of one moment of setup, and so need what holds in its midst: each handler can be
  unsubscribed, was cut off from it, or is being registered (`Remembered`); nothing is left of a
  link that was closed (`Emptied`); the characteristics found so far are those of the part of the
  table that was visited (`Own`); and of the channels visited, those said to notify are registered
  (`Heard`), each once (`Once`).
- `ECJPakeProofs`: `SameSecretSameKey`: two contexts with the same secret, which
  have read each other's messages, derive the same key, for every order, secret and
  choice of scalars. It rests on `SharedIs`, the closed form of what one side with one secret
  computes with another of any secret, with the reductions modulo `Q` carried along as multiples of `Q`.
  `OtherSecretOtherPoint`: with different secrets they arrive at different points, if the order is a
  prime, since those differ by a product of which no factor vanishes; the points may still be opposite,
  which the key does not tell apart.
- `HandshakeProofs`: `TypeCorrect`, `SessionsAgree` (`KeysAgree`) and `WrongPinIsFound` (`WrongPinDisagrees`), for every order, PIN
  and sequence of random numbers, and any number of exchanges on either side.
  `Consistent` says whose scalars each context and each message ever sent is made of,
  and that the charger has the key of an exchange before it answers its round two. A
  message that is accepted is the one that was sent (`RoundOneRead`, `TwoRead`), and the base it
  is bound to tells which pairs of scalars it is for (`BaseTellsExchange`); then
  `SharedSecret` gives both sides the same secret. With another PIN, `Derived` says of every key on either side
  of which exchange it is, and from which secrets; `SharedReached` gives the points in closed form, and these
  differ by assumption.
- `Recursion`: `Exists`. In TLA+ a function defined by recursion is *some* function that fulfils its
  equation, if there is one. The module shows that there is when what the function is at an element depends only on what it is
  at smaller ones, and that a set which holds an element whenever it holds the smaller ones holds all (`Induction`). Domain,
  measure and body are its constants: a module takes an INSTANCE for each of its recursive functions, so that no theorem needs
  an operator for a parameter, and induction over data can be used.
- `FramesProofs`: `TypeCorrect`, `FramesReassemble` (`Reassembles`), `FieldsAreOpaque`
  (`OpaqueFieldsDecode`), `MessagesRoundTrip` (`RoundTrip`) and `CutsAreContained` (`CutIsContained`), for every width, all bytes and
  messages of any length. `VarintDef`, `EncodedVarintDef`, `ConcatenatedDef`, `DecodeDef`, `ContentDef` and `ReadAsDef`, by `Recursion`, say that the recursive
  functions fulfil their equations, because each reads a shorter rest, a smaller number, a shorter field or one nested less deep. What they return is by induction on
  the length of the buffer (`VarintType`, `DecodeType`). `VarintRoundTrip` and `Digits`: the digits of a number are read as the
  number, before whatever follows, and any cut of them is an error. Of a field two facts are enough, `IsField`: written before
  anything, it is read as what it says and the rest goes on; and cut, it is an error or, if it has a length, a field with its
  number and another value. `IntField`, `FixedField` and `LongField` prove them of each kind of field, from `VarintRoundTrip`, two's
  complement and the slices; `MessageReads` then concludes both properties for a message of such fields by induction on how many there
  are, with `SaysStep` for a field that is repeated. A nested message of fields that are read is thereby itself a field that is read
  (`FieldStep`), and by induction on the depth every field is (`MessageField`). Which bytes are text is nowhere looked into: the proofs hold for
  any `Characters` and `Printable`. All five speak of what the decoder makes of one state's `data` or `message`, so that the inductive invariant is no more than the
  types of these (`Received`), and the work is in the lemmas.

Assumed: what the modules' ASSUMEs say of the constants - of `Handshake`'s random
numbers, that two different choices of three have different sums modulo `Q`
(`GenericAssumption`), and that what they make with a wrong PIN on one side and the right one on the other does not coincide, in any two exchanges
(`GuessAssumption`; within one exchange `OtherSecretOtherPoint` proves it up to the sign); of `Frames`, that the charger's messages fit their width - and what the models abstract (above).
Both assumptions on random numbers hold but for coincidences of remainders modulo a prime of 256 bits, and TLC evaluates them for the numbers of its run.

Only model-checked: liveness under fairness (`KnownDropIsNotWaitedOut`, and `CallsEnd` of `Exchange`, `Connection` and `Calls`), which the
prover does not reach. Every invariant of the runs is proved.

## Not modelled

- The record layer: AES-GCM by a library, around a random nonce, with a check of lengths that raises.
- MTU and cache clearing (`_negotiated_mtu`, `_check_mtu`, `_clear_cache`) change no state of the client; that
  they suspend and may fail is in `Discovery`.
- A `Session` used before its handshake, or after one of its methods raised: the client never
  does (`ClientIsAuthenticated`; client.py:171 discards it).
- `_report_unknown`, which logs; the values of the tables of names, units and enums; the deprecation
  warning of `_AliasedFields`; the commands that only put their arguments into JSON; `command_payload`, `wifi_networks` and the other helpers for
  display; the package interface, which re-exports.
- Logging, the texts of errors, JSON and byte encodings other than the frames'. AES-GCM, SHA-256 and the curve are
  libraries. bleak, the radio and the charger are environment, modelled from how
  the code uses them; the charger is taken to echo a command's id and to hold one
  link at a time.

## Plan

Done, in this order: `Exchange`, `Connection`, `ECJPake`, `Handshake`, and their
proofs; `RequestReply` and its refinement, `Commands`, `Replies` and `Calls`, `Discovery`, `Frames`; `DiscoveryProofs` and `CallsProofs`; `Recursion` and `FramesProofs`, and the wrong PIN. Next:

1. `Connection` and `Discovery` related by a refinement: `Discovery`'s setup phases as the phase
   `subscribing`.
