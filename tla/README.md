# rusty_rtos_mqtt: a verification development

TLA+ models of the MQTT 5 client in `src/crates/rusty_rtos_mqtt-core/src/`,
model-checked with TLC. The safety of everything but the packet formats (the
publish records, the handshakes, keep alive, the receive buffer, the send paths, the
length encoding) is also proved with TLAPS, for every value of the parameters.
File names below are relative to that directory.

The crate is a `no_std` remake of coreMQTT v5.0.2: a library without threads.
Everything that makes it hard lies between the client and its surroundings:
the broker and the network, which decide what arrives and what is lost; the
application, which decides which call comes next, answers events, owns the
retransmit store and supplies the record arrays; and the caller's clock, which
wraps.

## 1. The system

| Part | State | Operations | Talks to |
|---|---|---|---|
| Publish state machine (`state.rs`) | two record arrays: packet id, QoS, handshake state; a resend cursor held by the caller | `reserve`, `update_publish`, `update_ack`, `remove`, `publish_to_resend`, `pubrel_to_resend`, `clear_*`, `cap` | called by client, loop and session |
| Client (`client.rs`) | connection status, next packet id, time stamps, ping flag, ack property buffer | `publish`, `subscribe`, `unsubscribe`, `ping`, `disconnect`, `cancel_callback`, `next_packet_id`, `send_buffer`, `send_vectors` | transport, clock, store, records |
| Receive loop (`loop_.rs`) | receive buffer and fill index, receive time stamp | `process_loop`, `receive_loop`: reassembly, keep alive, one handler per packet type, acknowledgements | transport, clock, store, event handler, records |
| Session (`session.rs`) | - | `connect`: CONNECT, CONNACK, limits, clean or resumed session | all of the above |
| Connection limits (`context.rs`) | what each side announced | taken from CONNECT and CONNACK | session, validation |
| Fixed header and variable length (`header.rs`, `reader.rs`) | - | decode, measure, incremental read | loop, session |
| Property sections (`property.rs`, `cursor.rs`, `builder.rs`) | read and write offsets | read, build, measure | serializers, application |
| Topics and validation (`topic.rs`, `validate.rs`) | - | `matches`; tables of refusals | client, application |
| Serializers and deserializers (`connect.rs`, `connack.rs`, `publish.rs`, `ack.rs`, `disconnect.rs`, `outpublish.rs`, `outbound.rs`, `size.rs`, `writer.rs`) | - | bytes to values and back | client, loop, session |

Interaction. The application calls `connect`, then `publish` and the like, and
`process_loop` again and again. The loop reads from the transport, handles
whole packets one at a time, moves records, tells the event handler, clears and
fills the store, sends acknowledgements. A read or send the transport fails makes
the status `DisconnectPending`, a send that times out leaves it; `disconnect` makes
it `NotConnected`; a new `connect` with a session present resends what the records,
with the store, say is in flight.

What is hard here, and what would make each part correct:

* **Handshakes across connections.** Bytes are lost with the connection at any
  point, acknowledgements come late or twice, and a resume resends. Correct: a
  QoS 2 message is forwarded exactly once, a QoS 1 message at least once,
  publishes stay in order, a completion reported is a completion that happened,
  every handshake finishes once faults stop.
* **Half-done operations.** A packet is stored, then sent, then noted; the store,
  the transport or the event handler can refuse in between. Correct: records,
  store and wire still agree well enough for the next resume.
* **A packet that is not consumed.** A handler's error leaves its packet at the
  front of the buffer. Correct: no packet a well-behaved broker sends stays there.
* **Arrays at their limit.** Holes, compaction, collisions, Receive Maximum.
  Correct: no duplicate id, no lost record, room found whenever there is any,
  send order kept.
* **Time.** A wrapping clock, a timeout that races its answer, a check that runs
  only on idle passes. Correct: no false timeout, no silence beyond the
  agreed interval, a dead broker noticed.
* **Bytes.** Packets split over reads, partial writes, lengths at their limits.
  Correct: no byte is lost, repeated or handled twice, and none of an earlier
  connection is met.
* **Formats.** A packet has a size that is announced, a serializer and a gather
  that must agree to the byte; sections of properties are built, resumed, walked
  and checked by code written several times over; what may be said depends on
  what the other side offered. Correct: each side reads what the other meant, and
  only what it offered.
* **State left over.** The connection's limits and the properties of a reply
  outlive the packet they were meant for. Correct: nothing of an earlier
  connection or event is taken for this one's.

`PROJECT.json` lists every component and every hazard with its line.

## 2. Modules

| Module | Models | How it corresponds |
|---|---|---|
| `PublishState` | `state.rs`, the pure half | One operator per function of the file. An array is a function `1..n -> Slots`; an operation answers the array it leaves *and* its status, because an array may change on an error path (compaction precedes the collision check). |
| `InFlight` | nothing: the abstract specification of one array | A set of handshakes with a strict order: no slots, holes or compaction. |
| `PublishRecords` | `PublishRecords` as a state machine | One action per method, every argument, any order. Refines two copies of `InFlight`. |
| `PublishStateProofs` | - | TLAPS lemmas: what each operation of `PublishState` does to an array, by slot and by packet id. |
| `PublishRecordsProofs` | - | TLAPS proofs: the invariants of `PublishRecords`, the resend cursor; that it implements `InFlight` (section 6). |
| `MqttSession` | `client.rs`, `loop_.rs`, `session.rs` around the records, with application, store, connection and broker | One action per API call or handled packet. |
| `MqttSessionProofs`, `MqttSessionHandshakes`, `MqttSessionStore`, `MqttSessionDeliveries` | - | TLAPS proofs about `MqttSession`: its types; the outgoing handshakes and their order; the store and the answers; the incoming handshakes, and that the store is released. |
| `KeepAlive` | `handle_keep_alive`, `ping`, the time stamps, the place of the check in the loop | One action per pass of the loop, API call and clock tick. |
| `KeepAliveProofs` | - | TLAPS proofs about `KeepAlive`. |
| `FixedHeader` | `header.rs`, `reader.rs` | Encoding and decoding a length, measuring a packet, byte by byte or in a buffer; the base is a parameter (128 in the code). |
| `SendPath` | the pure half of `send_buffer`, `send_vectors`, `send_list` | What is left to offer after a partial write, when a send gives up, the gathers of a list. |
| `Wire` | `session.rs` (waiting for the CONNACK), `loop_.rs` (the buffer), `client.rs` (sending) over a transport | One action per turn of a sender's loop, read, pass and call. |
| `PacketQueue` | nothing: the abstract specification of the receiving side | A queue of packets that a connection may lose. `Wire` refines it. |
| `WireProofs` | - | TLAPS proofs about `Wire` (keep alive, clock, buffer, bytes sent, `PacketQueue`) and the lengths of `FixedHeader`. |
| `PropertySection` | `property.rs`, `cursor.rs`, `builder.rs` | Builder and cursor; one operator for the getters and adders of one width. |
| `PropertyChecks` | `validate.rs`, and the property walks of `connack.rs`, `ack.rs`, `publish.rs`, `disconnect.rs`; limits of `context.rs` | What each packet makes of its section and which limits follow. |
| `PacketFormat` | `connect.rs`, `outpublish.rs`, `outbound.rs`, `size.rs`, `writer.rs`, `disconnect.rs`, the gathers of `client.rs` and `session.rs` | Each packet's announced size, its serializer, its parts. |
| `PacketReading` | `connack.rs`, `ack.rs`, `publish.rs`, `disconnect.rs` | One reader per kind of packet. |
| `ClientCalls` | `client.rs`, `session.rs`, `loop_.rs` | What each call checks, in its order, and the gathers it sends. |
| `PeerReading` | nothing of the code (external) | A broker that reads and writes by MQTT's layout. |
| `TopicMatching` | `topic.rs` | The byte-by-byte matcher, and MQTT's definition by levels. |
| `Codec` | all six above at work | Four kinds of job: a call with properties, a packet that arrives, replies to events, a name against a filter. |
| `MCPublishRecords`, `MCMqttSession`, `MCWire`, `MCCodec` | - | The small instances: symmetry sets, packets, requests, properties. |

### MqttSession

State: `status` is `connect_status`; `outgoing` and `incoming` are the record
arrays; `keptPublish` and `keptAck` are the retransmit store under its two kinds
of key (an outgoing PUBLISH under its id; the PUBREC or PUBREL under
`incoming_key`, whose one slot per id is shared by both directions, as in the
code); `owed` is an application's list of publishes to repeat when there is no
store; `toBroker`, `toClient`, `linkUp` are the connection; `brokerIn`,
`brokerOut` are the broker's half of the session; `onward` and `told` are
history variables: how often the message now under an id was forwarded by the
broker, or handed to the application; `late` is another: the ids whose publish
answered an error on a connection it left up.

| Action | Code |
|---|---|
| `Publish` (`PublishNew`, `PublishAgain`) | `publish`: reserve, store, send, note, each able to fail after those before it |
| `Cancel` | `cancel_callback` |
| `Connect` | `connect`: capped arrays, then `CleanSession` (`handle_clean_session`) or `Resumption` (`handle_unclean_session`, `send_publish_acks`) |
| `Disconnect` | `disconnect`, and the application closing the transport: at will, in `DisconnectPending`, or because the loop answers nothing but one error (`Refused`) |
| `HandlePublish` | `handle_incoming_publish` and the acknowledgement it sends |
| `HandlePublishAck` | `handle_publish_acks`: record, store, event, answer, in the code's order |
| `HandleDisconnect` | `handle_incoming_disconnect` |
| `NoticeDrop` | a failed read |
| `Drop`, `BrokerPublish`, `BrokerStep` | connection and broker, as MQTT 5 has them (external) |

Abstractions, and why they lose nothing the properties see:

* A packet is its type, id and QoS. A send fails in two ways, as `Wire` has them:
  the transport reports it and the status becomes `DisconnectPending`
  (`SendFails`); or it times out and the status stays `Connected`
  (`SendTimesOut`: `client.rs` 759-764, 854-859), so that later packets overtake
  this one. Either way nothing of the packet is on the wire. A send that timed
  out after *part* of its packet is covered only as far as the broker reads
  nothing more of that connection, which is a `Drop` with the packets behind it lost; a
  broker that takes the next packet's bytes for the rest of this one is not modelled.
* In a resumption the two are one: `connect` turns any failure of a connection
  that is up into `DisconnectPending` (`session.rs` 716-721).
* One call and one handled packet is one step: the context is borrowed mutably.
  Interleavings with broker and connection between the sends of one call differ
  from the modelled ones only in which prefix arrives, and `Drop`, which empties
  both directions, can follow at once.
* The CONNACK arrives within `Connect`. A late, split, lost or refusing one is in
  `Wire`, which has no records; the two are not combined (section 7).
* QoS 0 keeps no record and is left out. Replies written by the event handler
  (reason codes and properties) and packets of the subscribe family keep no
  record either: their contents are in `Codec`, their bytes in `Wire`.
* An incoming DISCONNECT is handled when the buffer is otherwise empty: the
  loop reads in order, and what follows a DISCONNECT is never sent.
* The broker keeps to the client's Receive Maximum (`InQuota`), resends only on
  a new connection, and in order.

`Allowed` says which liberties the surroundings take in a run: failing sends, sends
that time out, a refusing store, a refusing event handler, an application that calls the loop
again in `DisconnectPending`, clean sessions, cancelled publishes.

### KeepAlive

`now` is the clock modulo `Wrap`; `lastTx`, `lastRx`, `pingSent`, `waiting` are
the fields the code compares; `ageTx` and `agePing` are ghosts that do not wrap.
One pass of the loop reads nothing yet, part of a packet, a whole one, or more
than a whole one (`Reads`). Only the first and the last look at the clock: a read
that found something skips the check, and one that leaves bytes behind goes round
again with an empty read. Part of a packet stamps nothing. `rested` records
whether the last read found nothing: with `Steady = FALSE` two reads in a row do
not both find something. What the broker has sent may take any number of passes
to be read. Not modelled: a PINGREQ whose send fails (it is in `Wire`,
without timers), and `receive_loop`, which leaves keep alive to its caller.

### Wire

`buffer` is the filled part of the one network buffer; `down` what is under way to
the client; `sending` the parts still to offer, what the transport has of the
packet (`out`, as offsets in it) and how the send ended; `body` the bytes
`recv_exact` has of a CONNACK; `timer` the clock of the wait in progress. `phase`
says where the call in progress is, since here a call is many steps. `stream`,
`ends` and `taken` are history: everything the broker sent on this connection,
where its packets end, how much has been handed over.

A read brings any number of the bytes there are, or fails; a write takes any
number of the bytes offered, none included, or fails; a turn of a loop that waits
takes one tick of the clock or none. The CONNACK's header is read byte by byte, its
body by `recv_exact`, each with its timeout; then come the refusals and
`apply_connack`. The loop reads, looks at keep alive if it found nothing (here: it
pings or it does not; when is `KeepAlive`'s), measures, asks the two size
questions, handles, answers, consumes and goes round while bytes are left. A bare
acknowledgement goes out through `send_buffer` and one with a reason through
`send_vectors`, whose timeout tests differ (`>=` and `>`); either is possible
(`HandleFront`). `connect` is called with `timeout_ms = 0`: the tries end the wait for
the CONNACK, where another timeout would have the clock end it (`session.rs`
172-175). What a handler does to records is `MqttSession`'s. Writes are not read by the broker: what
goes out is compared with the packet it was made from.

### Codec

`builder` is the section an application is building, `said` what it was meant to
say, `connection` the limits after one CONNECT and its CONNACK. A `Send` job adds
properties, one call at a time and some refused, puts the builder down and resumes
another, then makes one call with the section whole or cut; a `Hear` job lets the
broker write any packet with properties, then damages it by a byte or not; a
`Reply` job answers event after event, with a reason or none, accepted or refused,
the property buffer carried from one to the next as `ack_used` carries it; a
`Match` job holds a name against a filter. The answers are values of `outcome`, and
properties compare them with what was meant.

What a broker may send (`MaySend`) is written from MQTT 5.0 and the CONNECT, not
from the client's tables: the arrivals of `MCCodec` are marked legal or not by MQTT,
with its defaults. `WellMade` is the part of it the client holds a broker to, `Lawful` what
MQTT asks beyond it. `HeardOnlyAsSent` says that the client accepts exactly what a
broker may send, but for two lists: `RefusesTooMuch` and `AcceptsTooMuch`, the
departures of section 5, each with its line. Both are exact: on the lists the
client always departs, and off them never.

Two abstractions. Lengths are written in a base smaller than 128, so that lengths
of several bytes are reached by short packets; a byte of twice the base or more,
which the code's base does not have, is read as the one it is congruent to
(`SameBytes`). Numbers of four bytes are compared up to 2^16.

## 3. Runs

Every passing run explores its whole state space, in a minute and a half at most. Deadlock is
checked in all but `wire` and `codec`: there the broker stops after its last
packet and the client after its last connection, and a job is over when its
answer has been looked at.

| Run | Question | Bounds |
|---|---|---|
| `records` | Do the arrays keep their promises under any calls in any order? | 3 ids, 3 outgoing slots and 1 incoming slot |
| `session_store` | With a store: exactly once, in order, no false completion? | 3 ids, 3 slots, sends that fail or time out, refused copies, drops, clean sessions, no limit on faults |
| `session_cancel` | Does the store hold whatever a resume will ask for, with cancels and reused ids? | 2 ids, 2 slots, sends that fail or time out, clean sessions, at most 3 packets unread before a new publish |
| `session_both_ways` | Does the store hold nothing else? Is the broker only released from messages the application was handed? Is there always room? | both directions on the same 2 ids, 1 outgoing and 2 incoming slots; sends that fail or time out, refusing store, refused events, looping on after errors |
| `session_store_live` | Does every publish finish once faults stop, and is no acknowledgement refused? | both directions (QoS 1 only from the broker), 2 ids, 2 drops or disconnects, clean sessions |
| `session_no_store` | The same, and deliveries, for an application that repeats publishes itself | QoS 2 out, QoS 1 in, 2 ids, 2 faults, sends of any packet that fail or time out, also during a resume |
| `keep_alive` | No false timeout, no long silence, dead broker noticed | clock modulo 9, timeouts 2, 3 and 1, keep alive 0, 1 or 9 |
| `wire` | Is every byte handed over once, in order, and to its own connection? Does every call return? | 2 connections; a CONNACK and 2 packets of 4 kinds in each; buffer of 5 bytes; lengths in base 2; clock modulo 4, timeouts 1 |
| `codec` | Do both ends read what was meant, and only what was offered? | sections of 2 properties, packets of up to 260 bytes, 4 pairs of CONNECT and CONNACK, one damaged byte, names of 3 and filters of 3 characters, those of 4 that begin with `+/`, lengths in base 4 |
| `resume_wedge`, `store_key_clash`, `lost_pubcomp` | See section 5 | one id |

Why the bounds are enough. Two records are needed for order, a hole and a
collision; three for a hole *between* records and for compaction that moves two
of them; three ids over two slots (`records`) for one that reuses a slot before it
is free. A handshake has at most four packets, so the wire is bounded by the ids,
and the safety runs do not count faults: any number of drops and resumes is
explored, to a fixpoint. `onward` and `told` saturate at two, which is already a
duplicate. Liveness runs count faults (`CountFaults`), because a liveness
property speaks of what follows the last one; two suffice to interrupt
a handshake, and its repair. Packet ids are symmetric: no definition
tells one from another; liveness runs do not use symmetry. The clock's modulus
only has to exceed the sum of timeouts, which `KeepAliveAssumption` states, so
that ages and wrapped differences can disagree; the initial reading is arbitrary.
In `wire`, two connections show what one leaves to the next; two packets behind a
CONNACK show a read that spans them, a whole packet behind another and the front
of a third; the packets include one as long as the buffer, one longer, one that is
answered, and lengths of two bytes; timeouts of one tick and a clock
that starts just before its wrap put the wrap inside every wait. In `codec`, a
section of two properties shows order, repeats and a property in the middle; the
largest packets lie on both sides of a length's limit; filters of four characters
hold two levels, a wildcard and an empty level.

`MaxOnWire` bounds *new* publishes while packets are unread: at 3 in
`session_cancel` and `session_both_ways`, at 1 in the two liveness runs, where a
second publish starts as soon as the first is on its way to being answered.
Cancelling and reusing ids would otherwise put any number on the wire. The theorems
of section 6 have no such bound, nor one on ids, slots or faults.

Excluded on purpose, because the property does not hold there and the code, its
comments or section 5 says so: `StoreIsReleased` after a clean session (leaks
PUBRELs, comment at `session.rs` 407-420) or a cancel; `ResumeCanResend` when the
store refuses a copy, the loop runs on in `DisconnectPending`, or one id is
used both ways; `AckAccepted` and `EveryPublishCompletes` with a store and
failing sends; `AckAccepted` without a store with sends that time out, since a PUBREL that
timed out leaves its PUBREC to be refused; `ForwardedInOrder` for a publish whose own call
timed out, or was refused by the store, on a connection left up (`late`); `CompletedMeansForwarded` when the application refuses a PUBACK's
event, since the same PUBACK is handled again and completes whatever publish has
taken the id by then; `NothingLost` when it refuses a DISCONNECT's (section 5); all
but the last filter of a list in `WithinLimits`, as the comment at `client.rs`
517-518 says. `AckedMeansTold` says *handed over* and not *accepted*: a QoS 2
PUBLISH whose event is refused is a duplicate in the next pass and acknowledged
without another word.

## 4. What the checks can see

Each property is there because a plausible slip in the code breaks it. The
operators named `Slip_...` write such slips down beside the definition they
distort: a missing collision check, compaction forgotten, the first hole taken
instead of the tail, a record not advanced after a send, one that keeps its id
when deleted, a resend set too small or too large, the acknowledgement sent
before it is stored, a guarded clock subtraction, a packet's rest dropped with
it, a cut part offered whole, an empty section's length forgotten, and so on. With a slip in place
of its definition, TLC finds the property violated in the same run. They are
used by nothing else.

## 5. Where the code and its documents differ

Three runs exhibit a disagreement; each checks a sentence of the repository as a
property, and TLC shows the code leaving it.

* `resume_wedge` (`AckAccepted`). `publish` reserves the record, stores the copy,
  fails to send. The resumed session sends the copy from the store but does not
  call `update_publish` (`session.rs` 521-535), so the record is still in
  `PublishSend` when the PUBACK comes; it answers `IllegalState`, the packet is
  not consumed, and the loop meets it for ever. `state.rs` 6-7 promises that all
  of it survives a dropped connection. Without a store the application repeats
  the publish through `publish`, which notes it: `session_no_store` passes.
* `store_key_clash` (`ResumeCanResend`). `client.rs` 1182-1185 says the directions
  can share a number without sharing a slot; acknowledgements of both directions
  are stored and cleared under the same `incoming_key`.
* `lost_pubcomp` (`AckAccepted`). The record of an incoming QoS 2 message is
  deleted when the PUBCOMP is sent; the PUBREL the broker repeats when it was lost
  answers `BadResponse` and is never consumed, although `state.rs` 191-193 lists
  exactly this recovery. The table allows it; no record is left to apply it to.

Seen while modelling, without a run of their own:

* Sends that time out leave the status `Connected` (`client.rs` 759-764, 854-859), and
  nothing remembers that a packet, or half of one, is missing from the stream. A publish
  that timed out before its first byte is overtaken by the next one, although its record
  comes first; a PUBREL that timed out leaves its PUBREC at the front of the buffer and
  the record in `PubRelSend`, so the loop answers `IllegalState` until the application
  disconnects (`loop_.rs` 439-443). A PUBREC's or PUBCOMP's does not wedge: the broker's packet
  is handled again and answered again. `late` and `Refused` are the marks these leave.
* Handshakes. A PUBREC handled in `DisconnectPending` clears the stored PUBLISH
  before `connected()` refuses, so no PUBREL is kept (`loop_.rs` 773). A refused
  event's packet is not "already consumed" (`client.rs` 111, 1098-1099). A smaller
  Receive Maximum on resume drops records in flight (`session.rs` 756).
* Keep alive. "A silent transmitter pings on the keep-alive interval" (`loop_.rs`
  257-258), but the check is reached only in a pass whose read found nothing
  (`loop_.rs` 151): with `Steady = TRUE` `KeepsAlive` fails. The receive side's ping
  compares with a stamp that is zero until the first packet (`loop_.rs` 286), so a
  connection that has heard nothing can ping at once.
* Buffer. A DISCONNECT whose event the application refuses sets `NotConnected` and
  is not consumed (`loop_.rs` 714); `disconnect` then refuses before it empties the
  buffer, and the next connection starts behind it: with `RefusesDisconnect = TRUE`
  `NothingLost` fails.
* Limits. `request_problem_info` becomes false with every CONNECT that has properties but does
  not name it (`session.rs` 678), though `context.rs` 368 gives true as MQTT's
  default, and a PUBACK with a section is then refused (`ack.rs` 236). `context.rs` 69
  documents `request_response_info` as whether this client asked for response
  information, and `connack.rs` 155-157 makes it an error only if it did not; nothing sets
  the field (`context.rs` 239 drops the CONNECT's property), so a CONNACK that answers the
  request is refused: a case of `RefusesTooMuch`. `connect` keeps what it learnt of a section it then refuses.
  Limits that neither CONNECT nor CONNACK names keep the previous connection's value;
  only the keep alive is put back.
* Replies. Properties of a reply that is refused, or that has no reason code, stay
  in the buffer (`loop_.rs` 940 is the only place that empties it): the next
  acknowledgement carries them, or is refused if it has no reason. `AckSaysOwn` says
  what holds unless such properties are owed.
* Topics. `topic.rs` 8-30 names one case its loop misses, a final `+` behind an earlier
  `+`. It also misses `a` and `a/` under `+/#`, and `/` under `+//#`: `LosesItsPlace`
  has all of them, and `MatchesAsDefined` shows there are no others and no false match.
* Packets from the broker. Refused though MQTT has them: an UNSUBACK's code 17 (`ack.rs`
  381-390 says so), a DISCONNECT's 159 (`disconnect.rs` 115-118). Accepted though it has not: in a PUBACK
  or PUBREC code 146 (`ack.rs` 454-456 says so), in a PUBREL or PUBCOMP
  any other refusal (450-461), in an UNSUBACK a granted QoS (381-401),
  properties of a SUBACK or UNSUBACK the client asked to be spared, DUP at QoS 0, a
  subscription identifier of zero, a PUBLISH with neither topic nor alias, and a SUBACK or
  UNSUBACK without any reason code unless it is shorter than four bytes.
* Packets to the broker.
  QoS 2 goes out to a broker whose maximum is 1. `validate_publish_properties` allows a
  topic alias of 0, a payload format above 1, and repeats; a DISCONNECT of the client's
  may not carry a server reference but may repeat properties.

## 6. Proofs

Nothing is assumed but the named `ASSUME`s of the modules, which TLC evaluates in
every run.

### The publish records

`PublishRecordsProofs` proves, for every size of the arrays, every set of packet
ids and every sequence of calls:

* `TypeCorrect`: the arrays keep their type;
* `WellFormedAlways`: every slot is empty or holds a record its direction and QoS
  can have, and no id occurs twice in a direction;
* `RoomAlwaysFound`: a publish is refused for want of room exactly when every
  slot is occupied;
* `OutgoingLeavesOnlyWhenDone`: an outgoing record leaves only by completing, or
  by an explicit remove, clear or cap. In particular the second half of the
  PUBREC move never fails;
* `SweepMissesNothing`: the resend cursor, passed from call to call, answers every
  record that is owed once, in array order, and then that there is none.

Assumed: the sizes are natural numbers (`SlotsAssumption`) and
`PACKET_ID_INVALID` is not a packet id (`InvalidAssumption`).

The inductive invariant is `Inv == TypeOK /\ RecordsWellFormed`. Neither half is
inductive alone: uniqueness is what makes `find_in_record` answer *the* record,
and the states an acknowledgement leads to are well formed only because the
record's QoS and state already agreed. The argument runs bottom up, in
`PublishStateProofs`. `Rank`, the number of occupied slots up to a slot, grows strictly (`RankGrows`) and stays
within the array (`RankInArray`), so compaction is injective and order-preserving,
keeps every id (`CompactKeepsIds`) and, if there was a hole, leaves the last slot
free (`CompactMakesRoom`). From these come one lemma for each function on arrays
(`AddRecordGood`, `DeleteGood`, `ChangeGood`, `CapGood`, ...), one for each
operation, and `NextInv`, one step per action.

A sweep is a recursive function of the number of calls. That the function exists at all is
`Iterates`, and what it answers after `k` calls is shown by induction on `k`. The
library's induction theorems take a predicate, which these provers cannot
instantiate; `SetInduction` says the same of a set of naturals (it follows from the
least-element principle of well-founded orders), and the predicate is then the set
of the `k` for which the claim holds. `WireProofs` uses the same device.

The second half of the module proves that each array implements `InFlight`
(`OutgoingRefines`, `IncomingRefines`, together `ArraysRefine`). The mapping reads an
array as its set of records and the order of their slots. Compaction changes
neither (`CompactSame`); an add puts its record last (`PutLast`, `AddRecordSeen`), a
delete, clear or cap drops records and leaves the order of the others
(`DeleteDrops`, `CapDrops`), a change keeps the place (`ChangeInPlace`). Each
operation is then one step of `InFlight` or a stutter; the invariant above supplies
uniqueness, without which the order would not be one of ids.

### The publish handshakes

Four modules about `MqttSession`, for every size of the arrays, every set of packet
ids, every Receive Maximum and any number of packets, losses and connections
(`SessionAssumption`: sizes are natural numbers, the Receive Maximums positive, QoS 1
or 2). Each theorem names what it asks of the surroundings. Below the table is what goes
wrong without it, and which of the limits are those of the proof.

| Theorem | Property | Asks for |
|---|---|---|
| `MqttSessionProofs!TypeCorrect` | `TypeOK` | nothing |
| `MqttSessionHandshakes!ForwardedOnce` | `ExactlyOnceOut` | `Undisturbed` |
| `MqttSessionHandshakes!CompletedWasForwarded` | `CompletedMeansForwarded` | `Undisturbed` |
| `MqttSessionHandshakes!OrderKept` | `ForwardedInOrder` | `Undisturbed`, a store |
| `MqttSessionStore!ResumeFindsAll` | `ResumeCanResend` | `Served`, `OneWayQoS2` |
| `MqttSessionStore!AnswersAwaited` | `AckAccepted` | `Undisturbed`, `Served`, sends that do not time out and, with a store, do not fail, no QoS 2 from the broker |
| `MqttSessionDeliveries!ToldBeforeAcked` | `AckedMeansTold` | `NoStrayPubRec` |
| `MqttSessionDeliveries!AlwaysRoom` | `RoomForIncoming` | `NoStrayPubRec`, an incoming array no shorter than the Receive Maximum |
| `MqttSessionDeliveries!StoreReleased` | `StoreIsReleased` | `Unbroken` |

* `Undisturbed`: the application takes every message it is handed and cancels no
  publish (a refused PUBACK or a cancelled id lets an old answer complete a new
  publish), and `SteadyMaximum`: no CONNACK cuts records off the array. Two Receive
  Maximums may differ as long as both are at least the array's length. A cut drops
  records in flight, whose answers are then about nothing, or about the id's next
  publish.
* `Served`: the store keeps what it is given, the application takes every message and
  does not call the loop again on a connection that has failed. `ResumeFindsAll`
  allows everything else: cancels, clean sessions, failing sends, cut arrays.
* `OneWayQoS2`: QoS 2 publishes in one direction only, or the store's key clashes
  (run `store_key_clash`).
* `OrderKept` lets sends time out and the store refuse copies: the property exempts the
  publish that answered an error itself, and no other (`late`). Without a store the
  application repeats publishes behind the resumption, and a new one can come first.
* Failing sends and a store: run `resume_wedge`. Sends that time out: the PUBREL of
  section 5. QoS 2 from the broker: run `lost_pubcomp`.
* `NoStrayPubRec`: the client has no store, or `OneWayQoS2`, or starts no clean
  sessions. With a store, QoS 2 both ways and clean sessions TLC finds
  `AckedMeansTold` violated: a clean session leaves the PUBREC of a broker's message
  in the store; a QoS 2 publish of the same id gets as far as owing a PUBREL, which
  the store refuses; the resumption sends the old PUBREC in its place, and the
  broker has a new message under that id by then. For `RoomForIncoming` TLC has no
  counterexample: there `NoStrayPubRec` is a limit of the proof, which needs `InInv`.
* `Unbroken`: `SteadyMaximum`, no clean session and no cancelled publish. Each of the three
  drops records without telling the store: `session.rs` 411-420 says so of a clean
  session, `cancel_callback` and the cut of an array do not look at the store.
  Everything else is allowed: losses, failing sends, a store or an application that
  refuses, QoS 2 both ways.
* An array shorter than the Receive Maximum the application announces: nothing in
  the code compares the two, and a broker that uses what it was offered fills it.

The type invariant needs the records' half of `Inv`: a state out of place would
answer with a packet that is none.

`OutInv` is the heart of the rest. Packet id by packet id it says what may be under way
(`Fits`): a request on the wire to the broker, or an answer on the wire back, not
both, no two of either, each agreeing with the record's QoS and state, with whether
the broker still holds the id (`brokerIn`), and with how often the message was
forwarded (`onward`). `ExactlyOnceOut` is not inductive, because it says
nothing of the packets in flight: a second PUBLISH after the PUBREL would
be forwarded again, and only `RequestFits` rules it out. A resumption is where
everything meets: the wires are empty, `ResentWires` says what is on them after, and
that no id is resent twice, because the arrays' ids are unique. `OrderInv` adds, of
two publishes that may be resent, that the later is neither forwarded before the
earlier nor on the wire without it ahead (`PairFits`), and that on a connection in
use every such publish is forwarded or on its way (`OnItsWay`), unless it is `late`. The lemmas about arrays are those of
`PublishStateProofs`, here by packet id: which ids an operation adds, changes and
drops, and in which order it leaves them.

`KeptInv` says of each record what the store must hold for it. Alone it fails on
packets it does not mention: a PUBREL or PUBREC from the other direction
would clear or overwrite the slot of the id. `NoneReceived`, or `NoneSent` when it is
the application that does not use QoS 2, excludes exactly those.
`AllNoted` says that a record is in a state *before sent* only while its answer
cannot come: with `OutInv`, which relates answers to states, that gives
`AckAccepted`.

`InInv` mirrors `OutInv` for the broker's messages, and unlike it needs no
`Undisturbed`: refusals, cancels and cuts leave it true. `MessageFits` relates, id by
id, what the broker remembers of its publish (`brokerOut`), what is on the wires
about it, the client's record and how often the application was told (`told`).
`AckedMeansTold` is not inductive: it says nothing of a PUBLISH sent again,
which is told again unless the record is still there (`EntryFits`: a QoS 2
message not released has been told once exactly if it has a record). Packets of one
id may be on the wires several times, and their order counts: a PUBLISH behind a
PUBREL is not the message the PUBREL releases, so `InInv` says of each packet
what stands before it (`Delivered`, `Replied`). `RecHeld` adds that a PUBREC a
resumption takes from the store, rather than makes, is for a message of QoS 2 that has
a record; this is what a clean session breaks. For
`AlwaysRoom`, every record belongs to a publish the broker remembers; it remembers at
most `InQuota`, each once, among them the one now arriving, which has none. The array
is at least that long, because nothing shorter than that Maximum cuts it (`Trimmed`),
so a slot is free.

`StoreReleased` takes both directions, because they share a key. `NeededInv` (in
`MqttSessionStore`) says that a kept PUBLISH or PUBREL is for an outgoing record in a
state a resumption asks for; `RecHeld`, with `InInv`, that a kept PUBREC is for an incoming one.
`OutInv` is not needed, nor is `Undisturbed`: the slot is cleared as the record moves on, whatever
answer made it move and whatever is refused or fails afterwards.

### Keep alive

`KeepAliveProofs`, for every modulus, timeouts and keep alives
(`KeepAliveAssumption`: the timeouts and the time two passes take stay below the
modulus):

* `TypeCorrect`;
* `NeverFalse`: no timeout without a PINGRESP that is really missing that long;
* `NeverSilent`: the bound of `KeepsAlive`, where no two reads in a row both find
  something (`~Steady`, the theorem's own assumption).

The code sees wrapped subtractions and the properties speak of true ages.
`AgesAgree` connects them: while an age is below the modulus, the subtraction is the
age. `KeepsAlive` is not inductive, because an answered PINGREQ ends the wait without
a look at the clock; `SilenceInv` adds that ages exceed their timeouts by no more than
the time since the last look, and that nothing is older than a PINGREQ that is out.

### The wire

`WireProofs`, for every broker, transport, clock and buffer. `WireAssumption` asks that
the timeouts stay two ticks below the modulus, that the broker's packets are as
long as they say, and that a packet to send is made of gathers that have bytes
(`Made`: a fixed header, or at least one topic, is in each; the bytes are
numbered, so that a byte sent twice is not mistaken for an equal one).

* `KeepAliveIsAgreed`: the keep alive in force is this connection's.
  `AgreedInv` adds that from the CONNECT on the server's slot holds what was asked.
* `TimeoutsReal`: a send gives up neither before its timeout nor more than a turn
  after it. `SendInv` adds that the wrapped difference is the age while that is below
  the modulus, and that a send that has not given up is within its timeout.
* `SentIsAsMade`: the transport has a prefix of the packet, and all of it exactly
  when the send is reported done.
* `NothingIsLost`: buffer and transport hold exactly what arrived and was not handed
  over, and the client stands at the end of a packet.
* `NothingIsLeftWaiting`: a receive call without an error leaves no whole packet.
* `WireImplementsQueue`: `Wire` implements `PacketQueue`.
* `WireTypes`: the type invariant.

The last four assume `~RefusesDisconnect`, an application that takes the event of a
DISCONNECT: without it they fail (section 5). None of them is inductive.
`WireInv`, which they share, says that the stream is packets end to end with a
DISCONNECT only at the end (`StreamInv`), where the client stands in it in each
phase of a call (`PlaceInv`), that nothing precedes or follows a CONNACK until it is
read (`ConnectInv`), and that no whole packet is in the buffer between calls, also while
a packet of the application's goes out (`LeftInv`). The step that matters is the end
of a packet: that the client measures in its buffer, of which it may have only
a part, the same length as in the stream. A measure that succeeds on a part says the
same of the whole, by induction over the bytes of the length field. For
`PacketQueue` the ends of the packets not handed over are the queue.

`OfferInv` is what `SentAsMade` lacks: what has been taken, then the parts left of this
gather, then the gathers behind it, are the packet, and something is left to offer.
A partial write drops whole parts and the front of one, of which `Bytes`, the
concatenation of the parts, is shown by induction on their number.

The same module has, for every base and length: `FramedIsMeasured`, the reader finds
the end of a packet where the writer put it, whatever follows; `ReadAsWritten`, a length is read
back from its encoding, in as many bytes as `EncodedSize` says, whatever follows; and
`PartIsNotRead`, an encoding short of bytes makes the reader ask for more. They split
on the number of digits (`Digits`, `SumOfDigits`).

### Only model-checked

* Everything about `Codec` but the lengths it is built on. Its walks over sections,
  packets and topics are recursive functions and folds with a case for each kind of
  property or packet; the folds take operators as parameters, which the provers cannot
  reason about, and the properties compare two or three walks with each other.
* All liveness: fairness and `ENABLED` are beyond the prover.
* `RoomForIncoming` with a store, QoS 2 both ways and clean sessions.

### Fairness

`MqttSession!Fairness`: the application runs the loop while there is something to
read (the documented duty of its main loop), calls `disconnect` and reconnects when
the status is `DisconnectPending` or the loop answers nothing but the same error about the
same packet, repeats what it owes when it has no store; the broker reads what
reaches it. Each is weak fairness on an action nothing else disables for good.
Disconnecting from a loop that answers one error for ever is an assumption: the code
reports the error and leaves the connection to the application, and without it a PUBREL
that timed out is never sent.
Nobody is obliged to publish, and faults are not fair. `KeepAlive!FairSpec`: time
passes, the loop runs, a timed-out connection is closed. `DeadBrokerNoticed` allows
for an application that calls `ping` for ever, which restarts the timeout each time.

`Wire!FairSpec`: a call in progress goes on and the application calls again (weak
fairness of `Program`); a loop that waits meets a later clock reading again and
again, a read that is made again and again finds some of the bytes there are, and
an application that is told of an error again and again disconnects at some point.
These three are strong: reads that find nothing and calls that are repeated come
in between. A transport that breaks is not excluded: what is promised is that
the bytes arrive or the connection goes.

## 7. Not modelled, and what is left

* `MqttSession` with the bytes of `Wire` below it: a CONNACK lost after a clean
  CONNECT while the records are still there, and a Receive Maximum that shrinks on
  resume. Both are listed as hazards; the state spaces multiply.
* `subscribe`, `unsubscribe` and replies as actions of `MqttSession`. They keep no
  record and change nothing but the wire; `Codec` has what they write.
* `receive_loop` as a caller of its own: it shares every step with `process_loop`
  but the keep-alive check.
* The width of strings (65,535 bytes) and of the largest packet (268,435,460 bytes),
  which the instances scale down with the base.
* The getters and adders of property values one by one: those of one width are one
  operator.
* `next_packet_id` as a counter: the models take any id, in flight or not, which is
  more than the counter can do.
* Proofs about `Codec`: they would take an induction over the items of a section for every
  walk of `PropertySection`, of the kind `WireProofs` makes over the parts of a packet.

The facade crate re-exports; benchmarks and oracle drivers measure and compare. None
has behaviour to model.
