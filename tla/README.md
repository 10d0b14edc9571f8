# dlms-cosem-cpp in TLA+

A verification development of `dlms-cosem-cpp`, a DLMS/COSEM stack in C++17:
TLA+ modules that model its parts, TLC configurations that check them on small
instances, and TLAPS proofs of what matters most for every value of the
constants. `PROJECT.json` lists every run, property, theorem, hazard and
finding, and maps every definition that models code to the lines it stands for.

    tlc -workers 2 -config MCClientSession.cfg MCClientSession   # check one run
    tlapm ClientSession_proofs.tla                               # check one proof module

## The system

All paths are relative to the root of the repository.

| part | state it keeps | operations | interacts with |
|------|----------------|------------|----------------|
| `DlmsClient` (`src/dlms/client`) | configuration, `transport_`, `connected_`, `send_seq_`, `recv_seq_` | `connect`, `disconnect`, destructor, `get`, `set`, `action`, `is_connected`; all block | owns a transport; frames requests with HDLC; encodes and decodes A-XDR |
| Transport (`src/dlms/transport`) | `socket_fd_` | `connect`, `disconnect`, `send_and_receive` (send, poll with a timeout, one recv); the serial one only returns NotSupported | the TCP stream to a meter |
| HDLC (`src/dlms/hdlc`) | none (a CRC table filled at first use) | `to_bytes`, `from_bytes`, stuffing, CRC, addresses, frame constructors | called by the client |
| `ImageTransfer` (`include/dlms/cosem/image_transfer.hpp`) | identifier, size, status, data, block count | `initiate`, `transfer_block`, `verify`, `activate`, two writable attributes | whoever serves the object's clients |
| interface classes (`include/dlms/cosem`, 38 classes) | a field per attribute | `get_attribute`, `set_attribute`; some have methods and helpers of their own | `CosemObject`, `CosemDateTime` |
| lists, relays and the activity calendar among them | a list with a count, two or three states, two calendars | `add_*`, `clear_*`, `execute_insert`, `execute_delete`, `execute_method`, `activate_passive` | several callers |
| A-XDR (`src/dlms/axdr`), BER (`src/dlms/asn1`) | a buffer and a position | encode, decode | A-XDR: the client; BER: nobody |
| security (`src/dlms/security`) | none | AES-GCM and SM4 modes, suites, key derivation | nobody |
| core (`include/dlms/core`) | values | `ByteBuffer`, `ObisCode`, `CosemDateTime`, `DlmsValue` | everybody |

Nothing is persisted and nothing starts a thread. What makes the system hard is
the network under a client that blocks on it, and objects that several callers
share and that keep them to no order:

- an answer may come after its call timed out, in pieces, together with the next
  one, damaged, or never; the peer may close or reset the connection between any
  two steps; the code reads once and takes what it gets for one frame;
- a failed `connect()` leaves `connected_` and a new transport behind, and
  services look only at the transport;
- calls may be made in any order, and the HDLC layer must tell one frame from
  the half of two;
- an index into a list is compared with the list as it is now, or with nothing;
- a buffer may end early, or say of itself that it is longer than it is, at every
  level of a nested value;
- an object acknowledges writes it does not store, or stores in part; an upload
  may be verified, resized or started anew by somebody else in its middle.

What makes each part correct: the client sends frames in the order the link
needs, reads answers in the order of its requests, numbers its frames in one
chain, leaves nothing of a session behind and always returns; the codec accepts
exactly the frames that were written; an image is activated only as it was
verified; an attribute keeps its type and the last value it acknowledged; a list
keeps what was appended in order and its count true, a load is where the last
order put it, a calendar comes into force whole; what a codec wrote whole is read
as it was, of what arrives cut a beginning is read at most, and what arrives damaged is
refused where the format has a check.

## Modules

### ClientSession, ClientApi

`ClientSession` is the client, its TCP transport, the stream of answers and the
meter. One action per way a call can begin, send, time out, receive, fail or
return: `send_and_receive` is two steps, `Send` (`::send`) and one of
`PollTimeout`, `RecvError`, `Recv`, with the network's actions in between.

| code | model |
|------|-------|
| `transport_`, `socket_fd_` | `transport`: "null", "serial", "invalid" (a TCP transport without descriptor), "open" |
| `connected_`, `send_seq_`, `recv_seq_` | `connected`, `sendSeq`, `recvSeq` |
| where a blocked call is | `phase`, `call` |
| bytes of a frame | `Parts` pieces, each tagged with the request it answers |
| the receive buffer of 4096 bytes | `BufferParts` pieces per `::recv` |
| `& 0x07` | `SeqMod` |

`requests` logs the frames sent on the socket and, per frame, whose answer its
call read (`from`) and whether it read exactly one frame (`whole`). The meter and
the connection (`AnswerStarts`, `AnswerContinues`, `PeerCloses`, `PeerResets`) are
external: the meter answers in order, at most one frame per request, whenever it
likes or never, and accepts or refuses an SNRM. TCP loses and reorders nothing,
so loss is an answer that never comes. `ChunkIsFrame`, what `from_bytes` accepts,
is the assumption that `HdlcLink` checks on the bytes.

A send on a connection that was reset raises SIGPIPE (`Killed`) unless the
application ignores the signal; both are behaviours.

`ClientApi` is what the client promises a user who knows nothing of frames:
`is_connected()` goes up only with a successful `connect()` and down only with
`disconnect()`, services change neither, results are those of the code.
`ClientSession` implements it under `up <- connected`,
`linked <- transport = "open"`.

### Octets, HdlcCodec, HdlcLink

`Octets` has what the codecs share about bytes: exclusive or by a table of four
bits, a flipped bit as the exclusive or with its weight. `HdlcCodec` has the bytes: CRC with its table, stuffing, format, control and
address fields, `ToBytes`, `FromBytes`, the frame constructors. Decoders return
a value or one of the code's errors. The bytes it computes were compared with
those of the compiled code for all constructors. `HdlcLink` puts frames on a
stream: the meter writes, one bit may be flipped (external), each read hands
over any prefix of what is there, and `got` is what `from_bytes` made of it.
`WrongByteDetected` speaks of any whole byte that differs in the content, and
`WrongByteOnWireDetected` of any that differs on the line, flags included, as long as
no escape byte is made or unmade by it.

Of the 16 bits of the FCS, the code sends the high byte of the usual reflected
remainder first. Both directions agree, so nothing within the repository shows
it. The code also escapes 0x5E and 0x5D, 0x5E to the pair 0x7D 0x7E: a flag byte
can stand inside a frame.  Its own decoder, which is given whole frames, is not
confused by it (`OneFrameOnly`); a receiver that looks for flags would be.

### ImageTransfer

The object under calls in any order. A block is one unit of size; history
variables keep the acknowledged blocks, what the last successful verification
saw, and whether the size was written since the last initiate. The index of a
block is no variable: the code ignores it.

### CosemClasses, CosemObject

`CosemClasses` has one table per interface class: for each attribute the type
of its field and what `set_attribute` does with a value (refused, stored if the
type fits, stored as it is, refused unless the type fits, acknowledged and
dropped, a date-time, a pair of numbers). `CosemObject` runs one object of any
class under any reads and writes. A value is a type and one of a few contents,
those that the code can tell: a date-time of 12 bytes, the same with reserved
status bits (which the conversion loses), another length; pairs with elements
that are no numbers. `intended` remembers the last value acknowledged that the
attribute can hold. Fields that change by other means than `set_attribute`
(methods, helpers) are those of the next modules.

Reading the tables against the headers' comments shows attributes that
`get_attributes` lists and `get_attribute` does not know (`Hidden`, such as
`communication_window` of PushSetup), attributes shifted by one (ClockControl
announces `adjustment_time` as 3), and class ids used twice (18, 26, 40, 45).

### ObjectLists, LoadControl, TariffCalendar, CosemMethods

Operations of the objects that are no attributes. `CosemMethods` composes the
three modules; the objects share no state and call each other nowhere, so a
behaviour follows one of them, chosen at the start.

- `ObjectLists`: the seven classes that keep a list (SpecialDaysTable,
  SensorManager, MbusClient, RegisterMonitor, AssociationLN, PushSetup,
  GprsModemSetup), one table entry per class saying which of `add_*`, insert,
  delete, clear and `set_attribute` it has. An entry is the number of the call
  that made it. `execute_insert` compares its index with nothing, so a call may
  give any; one beyond the end of the list is undefined in C++, `undefined` says
  that it was made, and nothing of the object is modelled after it.
- `LoadControl`: DisconnectControl (methods move `control_state_` and
  `output_state_`, a write or `set_control_state` only the first) and
  DirectDisconnect, which has no methods although its comment lists two, and whose
  `effective_control_state_` nothing changes. A state is the byte that the code
  casts, also one that names no state.
- `TariffCalendar`: the four parts of the active and of the passive calendar, each
  the number of the edit it comes from. The passive profiles are public fields of
  the object and are written part by part.

### ByteBuffer, AxdrCodec, BerCodec, Sm4, SecurityControl, ObisText, Wire

`ByteBuffer` is the buffer as operators: a reader takes bytes and a position and
returns a value and the next position, or the code's error; `ReadMany` is the loop
of all decoders, at most n items as long as there are bytes and no error, written as two
loops of half as many so that TLC evaluates long lists in few levels. On it stand
the A-XDR codec (`Encoding`, `Decode`), BER with AARQ and AARE (`Tlv`, `ReadTlv`,
`EncodeApdu`, `DecodeApdu`), the block cipher of `sm4.cpp` with its counter mode
and tag, the byte of `SecurityControlField`, and the text of an OBIS code, digit
by digit, which may be cut inside a number; the values that `from_string` leaves
uninitialised are a free choice. A number is its bytes, high byte first; a float is
its bytes as the host has them.

The types of the code refer to themselves, and its functions call themselves. Both
are functions of a depth here: `Value[d]` are the values nested at most d deep,
`Encoding[d]` their bytes, and the decoder's readers `one[d]` read down to d levels, d
being the length of the data, which no nesting can exceed as each level takes a tag.

`Wire` writes one message with one of the codecs, lets something follow it on the
stream, flips a bit or cuts it (all three external), and reads what arrived.

| code | model |
|------|-------|
| `data_`, `pos_` | arguments and results of the readers |
| what an encoder returns | `stream` (`Written`), its length `whole` |
| what a decoder is given and returns | `given`, `got` (`Readings`) |
| how deep a value that is written nests | `MaxDepth`, any number |
| how long a message is | up to `Limit`, a sixteenth of `Huge`, with as much after it |

The block cipher was compared with the compiled code. It is not the one of the
standard it names (`Sm4TestVector`): its two linear transforms are exchanged and the
constants of its key schedule are bytes where words belong. It is a permutation
nevertheless, so encryption and decryption agree (`WholeIsRead`).

Reading the codec shows what no property says: dates, times and enumerations come
back as octet strings and numbers (`ReadType`), every byte but 0 is true, a compact
array is read as null and its content left for whatever is read next, an AARE has
a mechanism name that is never written.

## Runs

| run | states | shows |
|-----|--------|-------|
| ClientSession | 408,108 | frame order, answer order, staying in step, sequence numbers, end of a session, the implementation of `ClientApi`, `connect()` reading its own answer, and that calls return |
| ImageTransfer | 4,156 | the image is what was acknowledged, activated as verified; failures are final |
| HdlcLink | 8,944 | a whole frame is decoded to what was written, nothing else is accepted; one flipped bit is always detected, and so is any changed byte that is no escape |
| CosemObject | 31,325 | attributes keep their types and are read as last acknowledged, on all 38 classes |
| CosemMethods | 70,622 | lists keep order and count, loads obey orders, calendars come into force whole |
| Wire | 48,354 | whole messages are read as written, of a cut one a beginning at most; what a damaged one is decoded to can be written again, and with a tag it is refused; counters carry |
| SetNeedsConnection | violated | `set()` succeeds on a client that is not connected |
| ConnectNeedsUA | violated | a refusal (DM) connects |
| GetReturnsItsAnswer | violated | `get()` fails on its own complete answer |
| UFrameInformation | violated | the header check of a UA becomes part of its information |
| PhysicalAddressIsRead | violated | a short physical address is read as part of the logical one |
| Sm4TestVector | violated | the block of the SM4 test vector is another |

The violated runs each check one statement of a comment or a test of the
repository; the findings in `PROJECT.json` quote it.

### Bounds, and why they are enough

- `Parts = 2`, `BufferParts = 3`: an answer can be cut, and one read can hold an
  answer and half of the next, so every way a chunk can lie across frames occurs.
- `SeqMod = 3`, `MaxRequests = 4` (an SNRM and three more frames, and a DISC):
  the number wraps within one connection, with a timed out exchange before it;
  reconnecting starts a new count, so the number of sessions is unbounded. The
  violation runs use 2 and 2.
- `MaxFrames = 2` frames on the wire from a set of five answers: enough for the
  end of one to meet the beginning of another; the payloads hold the flag, the
  escape byte and both other escaped bytes, next to each other and last. Damage
  is one bit, of one frame, anywhere.
- `MaxSize = 2`, `MaxStored = 3`: an image may be short, exact or too long. Two
  block contents, exchangeable (symmetry), show any change of order.
- `MaxSets = 2` writes: one can disturb the other. All classes, so nothing is
  left out by choosing examples.
- Lists: `MaxAdded = 4` entries and `CountMod = 3` for 2^16, so the count wraps; an
  index may be any up to `MaxAdded`, beyond the end of every list. `Bytes` has every state
  of the relays and a byte that is none. `MaxEdits = 4` edits of calendars touch
  every pair of parts around an activation.
- Wire: a value of every type, strings of 0 and 3 bytes and octet strings of
  127, 128, 255 and 256 (both sides of each form of a length), an array of 130 items, groups in groups; APDUs
  with and without each optional field and longer than 127 bytes; nonces whose
  counter does not carry, carries over one byte, three and all four, and texts of
  zero, one and two blocks, one of them under a tag of one byte that matches by
  chance when the message is cut to its first byte. Every prefix, every bit of one message flipped.
  `MaxDepth = 3` is the depth of the deepest of the values. Lengths from 2^24 on are one
  number (`Huge`), 16 MB; messages have at most a sixteenth of it (`LengthsAssumption`,
  checked by TLC for those of the run), where the client receives 4096 bytes at once. A flipped bit reaches every tag, length and
  count; two flipped bits are not tried.

### Fairness

Only `FairSpec` of ClientSession has any: `WF_vars(ClientStep)`, a call that can
take its next step takes it. A frame is far below a socket's send buffer, so `::send` does not
block, and `poll` returns at the latest after `timeout_ms`: `PollTimeout` is
enabled as long as nothing has arrived. Nothing is assumed of the meter, the
network or the user. Under it `CallReturns` holds.

Deadlock is checked except for HdlcLink and Wire, whose frames and messages are
all read in the end.
In ClientSession a destroyed client or a killed process stutters (`Ended`).

## Proofs

`ClientSession_proofs`, for every `Parts`, `BufferParts`, `SeqMod` and
`MaxRequests` (assumption `SessionAssumption`: the first three positive):

- `TypeCorrect` by itself, then `Inductive` for `IndInv`. The properties are not
  inductive: that late answers come in order rests on how pieces lie in the
  stream (`StreamShape`) and on how far each call has read (`ReadSoFar`); that a
  client in step stays in step rests on where the last call stopped (`InSync`,
  `Waiting`); that SNRM is first and DISC last rests on which call may be in
  which phase on which transport (`CallShape`, `ByConfig`).
- `FrameOrderHolds`, `AnswersInOrderHolds`, `InStepHolds`, `SequenceNumbersHold`,
  `DisconnectEndsSessionHolds` follow from `IndInv`;
  `ConnectReadsItsAnswerHolds` from `IndInv` and the step.
- `ImplementsApi`: the initial state maps to an initial state of `ClientApi`, and
  each action, under `IndInv`, to a step of it or to a stutter.

`ImageTransfer_proofs`, for any identifiers, blocks and bounds: `TypeCorrect`, `Inductive`
(what is missing from the properties is `VerifiedFits`: only writing the size
can make a verified image too short), and from it `HoldsWhatItAcknowledgedHolds`,
`ActivatedIsVerifiedHolds`, `FailureIsFinalHolds`.

`CosemObject_proofs`, for any set of class tables whose entries are well formed
(`ClassAssumption`): the lemma `Stored` says what a write leaves in a field, by
cases on what `set_attribute` does; `Inductive` adds to `TypeOK` that fields hold
whole values and the value last acknowledged, also where it cannot be read.
From it `TypeCorrect` and `AcknowledgedIsReadHolds`.

`CosemMethods_proofs`, for any bounds, count width and bytes: lemmas about what
`InsertAt` and `RemoveAt` do to the entries of a list; `Inductive` for `IndInv`, which
adds to the properties that no list is longer than the entries made.
From it `TypeCorrect`, `NumberIsLengthHolds`, `AppendedInOrderHolds`,
`LoadObeysOrdersHolds` and `ActiveIsWhatWasActivatedHolds`. Of the lists they speak
up to the first undefined insert.

`Octets_proofs` has what the other proofs need about bytes and about folds. The
library's induction takes its property as an operator, which the provers cannot
instantiate; `NatSetInduction` and `SeqSetInduction` take it as a set instead, so
what a fold computes can be proved for sequences of every length. On them stand the
lemmas about joined sequences and that exclusive or is associative and undoes itself.

`HdlcLink_proofs`, for every set of frames whose fields have the widths of the
protocol (`FramesAssumption`) and every `MaxFrames`. The invariant is `LinkInv`: what
was read is `FromBytes` of what was handed over, what was written are frames, and the
stream holds bytes. Four arguments lead to the properties:

- stuffing is undone (`UnstuffUndoesStuff`), by induction over the content, and
  control, format and address fields come back (`AnswerIsRead`): `FramesAreRead`, a
  frame that arrives alone and undamaged is decoded to what was written;
- the step of the CRC register is injective, hence the table, hence the register;
  so sequences that differ in one byte have different checks (`CrcTellsApart`):
  `WrongBytesAreDetected`;
- what unstuffing does is led by the escape bytes alone, so two sequences that differ in
  one other byte are taken apart in step and give contents that differ in one byte
  (`UnstuffKeepsApart`, by induction over what follows that byte), and a flag that is
  lost is missed: `WrongBytesOnWireAreDetected`;
- decoding gives fields of the right widths or an error, whatever bytes come in
  (`FromBytesType`): `TypeCorrect`.

`Codec_proofs`, for every input of the operators; nothing is assumed but that lengths
are below `Huge`:

- *cipher*: a round is undone by the round that follows it in the opposite order of
  words, so the cipher is a permutation whatever its transforms compute
  (`BlockIsDecrypted`), and exclusive or with the same stream undoes itself
  (`MessageIsDecrypted`); the stream of fewer blocks is a beginning of that of more, so a
  message that is cut and whose tag matches all the same gives a beginning of its text
  (`CutIsABeginningOfText`). A byte of the tag is the exclusive or of bytes: a change of
  one byte, of the text or of the tag, changes one of them and cannot be made up for (`ChangeIsRefused`). All
  of this for nonces of at most 16 bytes and tags of at least one: see "Not modelled".
  Nothing is proved about secrecy;
- *lengths*: each of the forms of a length is read as the number written
  (`LengthIsWritten`, `MarkIs`), and one that is cut is not read (`LengthOnCut`);
- *loops*: `ManyExists` gives `ReadMany` its function and says that the loop in halves
  reads one item after the other (from `OneByOneChains`: m items and then n are m + n),
  `ManyAreRead` says that items laid
  one after the other are read in order, `CutManyAreRead` that of a list that is cut the
  items before the cut are read and the last one perhaps in part, `ManyBounds` that items
  that take bytes are no more than the bytes;
- *BER*: a list of elements is read as written (`AllAreRead`, `AllOnCut`); the four fields
  of an APDU are taken by a fold over such a list (`ApduIsRead`, `ApduOnCut`,
  `ApduType`), which gives the theorems about AARQ and AARE (`AarqIsRead`, `AarqOnCut`,
  `AarqIsSound` and their likes).

`Wire_proofs`, for every set of messages and tails (`MessagesAssumption`: those of the
types the program has; `LengthsAssumption`: no longer than `Limit`) and any `MaxDepth`.
`WireInv` says that the stream is what was written, or that and one tail, or that with
one bit flipped, and that what was read is a reading of its first bytes. The steps keep
it, by what they do alone; the properties follow from it by what the codecs compute.
Beside the theorems above:

- *values*: the recursive functions of a depth are shown to exist (`LayersExist`,
  `RecursionAlong`, by induction over Nat with the property as a set), and each fact
  about values is proved for their items and for all depths at once:
  `ValueIsRead` (what was written is read, whatever follows), `ValueOnCut` (what is cut
  is refused or a list cut between two items, at any depth), `DecodedValueIsSound`
  (whatever the bytes, the value is no deeper than half of them, has less in it than they
  have, and is encoded and decoded to itself);
- *the rest*: `ControlIsRead`; `ObisIsRead`, by what the loop has after each beginning of
  the text, inside a number or between two: of a whole text the code, of a cut one a code
  whose text begins with what arrived, whatever the numbers not read hold; and `CountersCarry`, in which the number of a
  block is followed through the four bytes of the counter.

From these follow `TypeIsOK`, `WholeMessagesAreRead`, `CutsAreBeginnings`,
`DecodedValuesAreSound`, `DamageIsRefused` and `CountersAlwaysCarry`, one for each
property of the run. The bound `Limit` is needed: above `Huge` all lengths are one number,
and a value decoded of more bytes than an eighth of it might be written with a length
that is `Huge`.

Model-checked only: `CallReturns` (liveness under fairness is beyond the proof
system); `OneFrameOnly` and `DamageDetected`, which hold for the payloads of the run
and are not proved for every payload: a flipped bit that makes or unmakes an escape
shifts the rest of the content, two frames read as one are other bytes altogether, and
16 bits of check cannot tell all such contents apart. `WrongBytesOnWireAreDetected` is
`DamageDetected` without that one case, and for any change of a byte.

## Not modelled

- The contents of requests and answers in ClientSession (it knows of A-XDR only
  that 0x7E is no tag); use of a transport without the client; the Windows branch.
- Use of the library from several threads, which the repository has none of.
- Inputs for which `sm4.cpp` has no defined behaviour: a nonce longer than 16 bytes, which
  is copied into 16 bytes unchecked (lines 138 and 174), and a tag of length 0, by which a
  remainder is taken (line 154). What follows an insert beyond the end of a list.
- AES-GCM, which is OpenSSL's, and the wrappers that hand it an IV and additional
  data (`security.cpp`); the table of suites. The key derivation is a loop that
  computes nothing and, with OpenSSL, does not end for a length above zero.
- `RegisterMonitor::capture`, `Limiter::is_over_threshold` and setters that assign one
  field; conversions that print, compare or widen a value; build files.
- A meter: the repository has the objects and the client, and nothing that serves the
  one to the other, so there is no composition of the two to model.

## Plan

1. Use of one transport object by itself: `connect` twice, `disconnect` in between.
2. `Limiter` and `RegisterMonitor` as the application drives them.
3. AES-GCM as an ideal cipher, and the IV and additional data the wrappers give it.
4. Proofs: the lemmas about bytes that the CRC and the tag share, in one place.
