------------------------------- MODULE Codec -------------------------------
(***************************************************************************)
(* The codec at work.  An application builds a property section and makes  *)
(* a call with it, and a broker reads what goes out; a broker writes a     *)
(* packet, perhaps not the one it meant, and the client reads it; an       *)
(* event callback leaves properties for an acknowledgement; a topic is     *)
(* held against a filter.  `job` says which of the four goes on.           *)
(***************************************************************************)
EXTENDS PeerReading, TopicMatching

CONSTANTS
  Connections,   \* [offer, answer]: the properties of a CONNECT and a CONNACK
  Sends,         \* kind -> [requests, menu]: calls, and properties to add
  Arrivals,      \* kind -> [packets, menu]: what a broker writes
  Replies,       \* [kinds, reasons, menu]: what event callbacks leave
  Bends,         \* the values a byte of an arriving packet may be changed to
  Capacity,      \* bytes of the application's property buffer
  MaxSaid,       \* properties put into one section
  PacketId,
  Names, Filters

VARIABLES
  job,
  kind,        \* the packet the job is about
  connection,  \* ConnectionProperties, and the offer they go back to
  builder,     \* PropertyBuilder: the section being built
  named,       \* the packet type its caller names, or "None"
  said,        \* the properties that are in the section, as they were meant
  since,       \* how many of them an earlier builder added
  owed,        \* properties of an earlier reply have not been sent
  outcome      \* what the last call answered

vars == <<job, kind, connection, builder, named, said, since, owed, outcome>>

NoOutcome == [done |-> FALSE]
EmptyBuilder == [bytes |-> <<>>, fields |-> {}]
Idle == ~outcome.done
Butlast(bytes) == SubSeq(bytes, 1, Len(bytes) - 1)

\* The CONNECT of an offer, and the CONNACK to it.
Offered(c) ==
  LET bare == [clean |-> TRUE, keep_alive |-> <<0, 0>>, id |-> <<99>>, will |-> <<>>,
               username |-> <<>>, password |-> <<>>]
      call == ConnectCall(InitialConnection, bare, SectionBytes(c.offer))
  IN  [offer |-> c.offer, now |-> AfterConnack(call.connection, SectionBytes(c.answer))]

Init ==
  /\ \/ job = "Send"  /\ kind \in DOMAIN Sends    /\ named \in {kind, "None"}
     \/ job = "Hear"  /\ kind \in DOMAIN Arrivals /\ named = "None"
     \/ job = "Reply" /\ kind \in Replies.kinds   /\ named = kind
     \/ job = "Match" /\ kind = "None"            /\ named = "None"
  /\ connection \in {Offered(c) : c \in IF job = "Match" THEN {[offer |-> <<>>, answer |-> <<>>]}
                                       ELSE Connections}
  /\ builder = EmptyBuilder
  /\ said = <<>>
  /\ since = 0
  /\ owed = FALSE
  /\ outcome = NoOutcome

---------------------------------------------------------------------------
(* The application's side. *)

\* An adding method of PropertyBuilder, for a call or in with_properties.
Add(p) ==
  LET r == AddProperty(builder, IF job = "Reply" THEN AckCapacity ELSE Capacity, p, named)
  IN  /\ job \in {"Send", "Reply"} /\ Idle
      /\ Len(said) < MaxSaid
      /\ builder' = r.builder
      /\ said' = IF r.status = "Ok" THEN Append(said, p) ELSE said
      /\ UNCHANGED <<job, kind, connection, named, since, owed, outcome>>

\* The builder is put down, and another resumes over the same bytes.
Resume ==
  /\ job = "Send" /\ Idle
  /\ said # <<>> /\ since = 0
  /\ builder' = ResumeBuilder(builder)
  /\ since' = Len(said)
  /\ UNCHANGED <<job, kind, connection, named, said, owed, outcome>>

Call(c, request, section) ==
  CASE kind = "CONNECT" -> ConnectCall(c, request, section)
    [] kind = "SUBSCRIBE" -> ListCall(c, request, PacketId, section, TRUE)
    [] kind = "UNSUBSCRIBE" -> ListCall(c, request, PacketId, section, FALSE)
    [] kind = "PUBLISH" -> PublishCall(c, request, PacketId, section)
    [] kind = "DISCONNECT" -> DisconnectCall(c, request, section)

\* connect, subscribe, unsubscribe, publish or disconnect, with the section
\* whole or short of its last byte.
Submit(request, whole) ==
  LET section == IF whole THEN builder.bytes ELSE Butlast(builder.bytes)
      call    == Call(connection.now, request, section)
  IN  /\ job = "Send" /\ Idle
      /\ whole \/ said # <<>>
      /\ outcome' = [done |-> TRUE, call |-> call, request |-> request, section |-> section]
      /\ UNCHANGED <<job, kind, connection, builder, named, said, since, owed>>

\* The event callback is done: it has set a reason or none, and accepted the
\* event or refused it, in which case nothing is answered.
Reply(reason, accepts) ==
  LET call == AckCall(connection.now, kind, PacketId, reason, builder.bytes)
      left == IF accepts THEN call.left ELSE builder.bytes
      sent == accepts /\ call.status = "Ok"
  IN  /\ job = "Reply" /\ Idle
      /\ outcome' = [done |-> TRUE, call |-> call, request |-> reason,
                     section |-> builder.bytes, accepts |-> accepts, owed |-> owed]
      /\ builder' = [builder EXCEPT !.bytes = left]
      /\ owed' = (~sent /\ (owed \/ said # <<>>))
      /\ UNCHANGED <<job, kind, connection, named, said, since>>

\* The next event: AckReply resumes what stands in the buffer.
NextEvent ==
  /\ job = "Reply" /\ outcome.done
  /\ builder' = ResumeBuilder(builder)
  /\ said' = <<>>
  /\ outcome' = NoOutcome
  /\ UNCHANGED <<job, kind, connection, named, since, owed>>

---------------------------------------------------------------------------
(* The broker's side. *)

BrokerAdds(p) ==
  /\ job = "Hear" /\ Idle
  /\ Len(said) < MaxSaid
  /\ said' = Append(said, p)
  /\ UNCHANGED <<job, kind, connection, builder, named, since, owed, outcome>>

\* A body as it was meant, a byte short, a byte long, or with a byte changed.
Bent(body) ==
  {Butlast(body), Append(body, 0)} \cup {[body EXCEPT ![i] = v] : i \in DOMAIN body, v \in Bends}

Arrive(packet, body) ==
  LET arrived == [type |-> IF kind = "PUBLISH" THEN packet.codes[1] ELSE TypeOf(kind),
                  body |-> body]
  IN  outcome' = [done |-> TRUE, packet |-> packet, arrived |-> arrived,
                  straight |-> body = BodyOf(packet, SectionBytes(said)),
                  heard |-> Deserialize(arrived, connection.now.client)]

\* handle_packet and connect's read, up to what the packet says.
Deliver(packet) ==
  LET body == BodyOf(packet, SectionBytes(said))
  IN  /\ job = "Hear" /\ Idle
      /\ \E b \in {body} \cup Bent(body) : Arrive(packet, b)
      /\ UNCHANGED <<job, kind, connection, builder, named, said, since, owed>>

\* matches
Match(topic, filter) ==
  /\ job = "Match" /\ Idle
  /\ outcome' = [done |-> TRUE, topic |-> topic, filter |-> filter,
                 answer |-> Matches(topic, filter)]
  /\ UNCHANGED <<job, kind, connection, builder, named, said, since, owed>>

Menu == CASE job = "Send" -> Sends[kind].menu [] job = "Reply" -> Replies.menu
          [] OTHER -> {}

Next ==
  \/ \E p \in Menu : Add(p)
  \/ Resume
  \/ /\ job = "Send"
     /\ \E request \in Sends[kind].requests, whole \in BOOLEAN : Submit(request, whole)
  \/ \E reason \in Replies.reasons, accepts \in BOOLEAN : Reply(reason, accepts)
  \/ NextEvent
  \/ /\ job = "Hear"
     /\ \/ \E p \in Arrivals[kind].menu : BrokerAdds(p)
        \/ \E packet \in Arrivals[kind].packets : Deliver(packet)
  \/ \E topic \in Names, filter \in Filters : Match(topic, filter)

Spec == Init /\ [][Next]_vars

---------------------------------------------------------------------------
(* Properties. *)

Ids(properties) == {properties[i].id : i \in DOMAIN properties}
Repeats(properties, but) ==
  \E i, j \in DOMAIN properties :
    i < j /\ properties[i].id = properties[j].id /\ properties[i].id \notin but
Answered == job = "Send" /\ outcome.done /\ outcome.call.status = "Ok"
Replied == job = "Reply" /\ outcome.done /\ outcome.accepts /\ outcome.call.status = "Ok"
OnTheWire == Bytes(FlattenSeq(outcome.call.gathers))
AtBroker == BrokerHears(kind, OnTheWire)

\* A section gives back to the cursor (cursor.rs) exactly what the builder
\* (builder.rs) answered Ok to, whatever was refused in between: property by
\* property, by every getter, the wrong getter refusing without moving, and
\* neither running past the end of a section that was cut; and a builder
\* knows no property but the ones it put there.
ReadsBack ==
  LET Walk[i \in 0..Len(said)] ==
        IF i = 0 THEN 0 ELSE SkipProperty(builder.bytes, Walk[i - 1]).at
      Gives(i) ==
        LET at == Walk[i - 1]
            id == said[i].id
        IN  /\ NextType(builder.bytes, at) = "Ok" /\ builder.bytes[at + 1] = id
            /\ SkipProperty(builder.bytes, at).status = "Ok"
            /\ \A other \in KnownIds \ NoGetter :
                 GetProperty(builder.bytes, at, other) =
                   IF other = id THEN [status |-> "Ok", at |-> Walk[i], value |-> said[i].value]
                   ELSE CursorFails("BadParameter", at)
  IN  job = "Send" =>
        /\ \A i \in DOMAIN said : Gives(i)
        /\ GetProperty(builder.bytes, Walk[Len(said)], Id.USER_PROPERTY).status = "EndOfProperties"
        /\ said # <<>> =>
             /\ Butlast(Items(Butlast(builder.bytes))) = Butlast(Items(builder.bytes))
             /\ ~Items(Butlast(builder.bytes))[Len(said)].ok
        /\ builder.fields = Ids(SubSeq(said, since + 1, Len(said))) \ {Id.USER_PROPERTY}

\* What a packet's own walk (validate.rs, disconnect.rs) says of a section.
Verdict(section) ==
  CASE kind = "CONNECT" -> CheckConnect(section)
    [] kind = "SUBSCRIBE" ->
         CheckSubscribe(connection.now.server.subscription_id_available # 0, section)
    [] kind = "UNSUBSCRIBE" -> CheckUnsubscribe(section)
    [] kind = "PUBLISH" -> CheckPublish(connection.now.server.topic_alias_max, section)
    [] kind = "DISCONNECT" -> CheckDisconnect(connection.now.session_expiry, section)

\* What a packet cannot carry although its builder lets it in: a will's own
\* properties in the CONNECT's section, a broker's subscription identifier,
\* and what the other side has not offered.
Beyond(p) ==
  LET server == connection.now.server
  IN  \/ kind = "CONNECT" /\ p.id \notin ConnectIds
      \/ kind = "SUBSCRIBE" /\ p.id = Id.SUBSCRIPTION_ID /\ server.subscription_id_available = 0
      \/ kind = "PUBLISH" /\ p.id = Id.SUBSCRIPTION_ID
      \/ kind = "PUBLISH" /\ p.id = Id.TOPIC_ALIAS
           /\ TwoByteNumber(p.value[1]) > server.topic_alias_max
      \/ kind = "DISCONNECT" /\ p.id = Id.SESSION_EXPIRY
           /\ connection.now.session_expiry = 0 /\ ~IsZero(p.value[1])

\* A section one builder made for a packet type it was told (builder.rs
\* 216-305) is accepted by that packet's walk, which is written
\* independently, exactly when it asks for nothing beyond.
BuiltIsAccepted ==
  job = "Send" /\ named = kind /\ since = 0 =>
    (Verdict(builder.bytes) = "Ok" <=> ~\E i \in DOMAIN said : Beyond(said[i]))

\* What the serializer that fills a buffer writes for the same call.
Serialized(capacity) ==
  LET r == outcome.request
      s == IF kind = "CONNECT" /\ outcome.section = <<>> THEN InventedSection
           ELSE outcome.section
  IN  CASE kind = "CONNECT" -> SerializeConnect(capacity, r, s)
        [] kind = "SUBSCRIBE" -> SerializeList(capacity, r, PacketId, s, TRUE)
        [] kind = "UNSUBSCRIBE" -> SerializeList(capacity, r, PacketId, s, FALSE)
        [] kind = "PUBLISH" -> SerializePublish(capacity, r, PacketId, s)
        [] kind = "DISCONNECT" -> SerializeDisconnect(capacity, r, s)
        [] OTHER -> SerializeAck(capacity, kind, PacketId, r, s)

\* The buffer serializers are stricter than the gathering calls.
OnlyGathered ==
  \/ kind \in {"SUBSCRIBE", "UNSUBSCRIBE"}
       /\ \E i \in DOMAIN outcome.request : outcome.request[i].filter = <<>>
  \/ /\ kind = "PUBLISH"
     /\ PublishStrictFault(outcome.request, PacketId, outcome.section)

\* A packet is written twice over in this code, by a serializer into a buffer
\* and by the parts a call gathers, after its size was added up a third time
\* (size.rs, connect.rs, outpublish.rs).  The three agree to the byte: a
\* buffer of the size suffices and one byte less is refused, no list is cut
\* into a gather that is then too long to send (client.rs 1402), and the copy
\* a PUBLISH leaves with the store differs in the DUP flag alone.
WrittenAlike ==
  /\ job = "Send" /\ outcome.done => outcome.call.status # "SendFailed"
  /\ Answered \/ Replied =>
    LET bytes == OnTheWire
    IN  /\ Unframed(bytes).ok
        /\ IF OnlyGathered THEN Serialized(Len(bytes)).status = "BadParameter"
           ELSE /\ Serialized(Len(bytes)) = [status |-> "Ok", bytes |-> bytes]
                /\ Serialized(Len(bytes) - 1).status # "Ok"
        /\ kind = "PUBLISH" /\ ~OnlyGathered =>
             SerializePublishHeader(Len(bytes) - Len(outcome.request.payload), outcome.request,
                                    PacketId, outcome.section).bytes
               \o outcome.request.payload = bytes
        /\ kind = "PUBLISH" /\ HasId(outcome.request) =>
             Bytes(outcome.call.copy) = [bytes EXCEPT ![1] = IF outcome.request.dup THEN @ ELSE @ + 8]

\* What the broker should make of it.
Meant ==
  CASE kind = "UNSUBSCRIBE" ->
         [i \in DOMAIN outcome.request |->
            [outcome.request[i] EXCEPT !.qos = 0, !.no_local = FALSE,
               !.retain_as_published = FALSE, !.retain_handling = 0]]
    [] kind \in {"DISCONNECT"} \cup DOMAIN AckType ->
         IF outcome.request = <<>> THEN <<0>> ELSE outcome.request
    [] OTHER -> outcome.request

CarriesId == kind \in {"SUBSCRIBE", "UNSUBSCRIBE"} \cup DOMAIN AckType
             \/ (kind = "PUBLISH" /\ HasId(outcome.request))

\* The broker reads, by MQTT's layout, the very request the application made:
\* flags, lengths of every base, optional fields and properties each where it
\* looks for them, whichever call wrote it (session.rs, client.rs, loop_.rs).
HeardAsSent ==
  Answered \/ Replied =>
    AtBroker =
      Heard(Meant,
            IF CarriesId THEN PacketId ELSE <<>>,
            IF kind = "CONNECT" /\ outcome.section = <<>> THEN InventedSection
            ELSE outcome.section)

\* Whatever the application asked for, the broker is not sent more than it
\* said it takes, nor asked for what it said it has not; of a list of topics
\* only the last is held to that (client.rs 500).  And a CONNECT announces no
\* packet the receive buffer could not hold.
WithinLimits ==
  Answered \/ Replied => \A heard \in {AtBroker} :
    LET server == connection.now.server
        items  == Items(heard.section)
        last   == heard.request[Len(heard.request)]
    IN  /\ kind # "CONNECT" => Len(OnTheWire) <= server.max_packet_size
        /\ kind = "CONNECT" => Now(items, Id.MAX_PACKET_SIZE, 0) <= NetworkSize
        /\ kind = "SUBSCRIBE" =>
             /\ Has(items, Id.SUBSCRIPTION_ID) => server.subscription_id_available # 0
             /\ HasWildcard(last.filter) => server.wildcard_available # 0
             /\ Len(Levels(last.filter)) > 2 /\ IsPrefix(SharePrefix, last.filter) =>
                  /\ server.shared_available # 0 /\ ~last.no_local
                  /\ Levels(last.filter)[2] # <<>> /\ ~HasWildcard(Levels(last.filter)[2])
        /\ kind = "PUBLISH" =>
             /\ heard.request.retain => server.retain_available # 0
             /\ heard.request.qos > 0 => server.max_qos # 0
             /\ Now(items, Id.TOPIC_ALIAS, 0) <= server.topic_alias_max
             /\ heard.request.topic = <<>> => Now(items, Id.TOPIC_ALIAS, 0) > 0
        /\ kind = "DISCONNECT" /\ connection.now.session_expiry = 0 =>
             Now(items, Id.SESSION_EXPIRY, 0) = 0

Offer == Items(IF connection.offer = <<>> THEN InventedSection
               ELSE SectionBytes(connection.offer))
Asked(id, default) == Now(Offer, id, default) = 1
PublishAck == kind \in DOMAIN AckType
TopicsAck == kind \in {"SUBACK", "UNSUBACK"}

\* What MQTT and this client agree a broker must keep to: the properties of
\* the packet, its layout and the limits of the CONNECT.
WellMade(packet) ==
  LET ids == Ids(said)
      Aliases == {TwoByteNumber(said[i].value[1]) :
                    i \in {n \in DOMAIN said : said[n].id = Id.TOPIC_ALIAS}}
  IN  /\ ids \subseteq (IF kind = "PINGRESP" THEN {}
                        ELSE Allowed(kind) \ (IF kind = "DISCONNECT" THEN {Id.SESSION_EXPIRY}
                                              ELSE {}))
      /\ ~Repeats(said, {Id.USER_PROPERTY} \cup
                          IF kind = "PUBLISH" THEN {Id.SUBSCRIPTION_ID} ELSE {})
      /\ \A i \in DOMAIN said :
           /\ said[i].id \in {Id.RECEIVE_MAX, Id.MAX_PACKET_SIZE, Id.TOPIC_ALIAS} =>
                ~IsZero(said[i].value[1])
           /\ said[i].id \in OneByte => said[i].value[1][1] \in {0, 1}
      /\ \A alias \in Aliases : alias <= Now(Offer, Id.TOPIC_ALIAS_MAX, 0)
      /\ Id.RESPONSE_INFO \in ids => Asked(Id.REQUEST_RESPONSE, 0)
      /\ PublishAck /\ said # <<>> => Asked(Id.REQUEST_PROBLEM, 1)
      /\ kind = "DISCONNECT" \/ PublishAck => packet.codes # <<>> \/ said = <<>>
      /\ TopicsAck => packet.codes # <<>> \/ said # <<>>
      /\ Has(Offer, Id.MAX_PACKET_SIZE) =>
           PacketSize(Len(outcome.arrived.body)) <= Now(Offer, Id.MAX_PACKET_SIZE, 0)

\* What only MQTT asks beyond it: that the codes, the flags and the packet id
\* are ones it lists (`legal`), that a SUBACK or UNSUBACK has a code
\* and its properties were asked for, that a PUBLISH names its topic
\* or an alias, and no subscription by zero.
Lawful(packet) ==
  /\ packet.legal
  /\ TopicsAck => packet.codes # <<>>
  /\ TopicsAck /\ said # <<>> => Asked(Id.REQUEST_PROBLEM, 1)
  /\ kind = "PUBLISH" =>
       /\ packet.topic # <<>> \/ Id.TOPIC_ALIAS \in Ids(said)
       /\ \A i \in DOMAIN said : said[i].id = Id.SUBSCRIPTION_ID => ~IsZero(said[i].value[1])

\* What a broker may send, going by MQTT 5.0 and the CONNECT it was offered.
MaySend(packet) == WellMade(packet) /\ Lawful(packet)

\* Where the client is stricter than MQTT: a code missing in its tables
\* (ack.rs 381-390, disconnect.rs 115-118); an absent Request Problem
\* Information taken for a zero (validate.rs 85-87); and response information
\* even when it asked for it, because it never notes that (context.rs 239 drops
\* it, connack.rs 577 refuses).
RefusesTooMuch(packet) ==
  \/ kind = "UNSUBACK" /\ 17 \in Range(packet.codes)
  \/ kind = "DISCONNECT" /\ packet.codes = <<159>>
  \/ PublishAck /\ said # <<>> /\ connection.offer # <<>> /\ ~Asked(Id.REQUEST_PROBLEM, 0)
  \/ Id.RESPONSE_INFO \in Ids(said)

\* Where it is laxer: one table of codes for the four acknowledgements of a
\* PUBLISH (ack.rs 450-461) and one for SUBACK and UNSUBACK (ack.rs 381-401),
\* DUP at QoS 0 (publish.rs 82), and all that Lawful asks beyond its first
\* line (ack.rs 279-309 looks at neither; publish.rs 91, 440).
AcceptsTooMuch(packet) ==
  /\ WellMade(packet) /\ ~Lawful(packet)
  /\ \/ packet.legal
     \/ kind \in {"PUBACK", "PUBREC"} /\ packet.codes = <<PacketIdNotFound>>
     \/ kind \in {"PUBREL", "PUBCOMP"} /\ packet.codes # <<>> /\ packet.codes[1] \in Refusals
     \/ kind = "UNSUBACK" /\ packet.codes = <<1>>
     \/ kind = "PUBLISH" /\ packet.codes = <<56>>

\* A byte of twice the base or more, which no byte is when the base is 128,
\* stands in a length for the one it is congruent to.
SameBytes(one, other) ==
  /\ Len(one) = Len(other)
  /\ \A i \in DOMAIN one :
       one[i] = other[i] \/ (one[i] >= 2 * Base /\ one[i] % Base = other[i] % Base)

\* The packet the client took it for, written again.
Rewritten ==
  LET h == outcome.heard
      again == BodyOf([kind |-> kind, codes |-> h.codes, id |-> h.id, topic |-> h.topic,
                       payload |-> h.payload], h.section)
  IN  IF kind \in {"DISCONNECT"} \cup DOMAIN AckType /\ h.section = <<>>
      THEN {again, Append(again, 0)} ELSE {again}

\* A packet that arrives as the broker meant it is accepted exactly when the
\* broker may send it, but for the two lists above, and there it is always
\* refused and always accepted; and however it arrives, if it is accepted then
\* nothing in it was skipped, read twice or read past: the packet the
\* application is shown, written again, is the bytes that arrived (connack.rs,
\* ack.rs, publish.rs, disconnect.rs).
HeardOnlyAsSent ==
  job = "Hear" /\ outcome.done =>
    /\ outcome.straight =>
         (outcome.heard.status = "Ok" <=>
            /\ MaySend(outcome.packet) \/ AcceptsTooMuch(outcome.packet)
            /\ ~RefusesTooMuch(outcome.packet))
    /\ outcome.heard.status = "Ok" =>
         \E again \in Rewritten : SameBytes(outcome.arrived.body, again)

\* Unless properties of an earlier reply are still owed, an acknowledgement
\* carries the properties its own event was answered with and no others, and
\* one with neither properties nor a reason is never refused: what stands in
\* ack_properties is emptied with the send (loop_.rs 940).
AckSaysOwn ==
  job = "Reply" /\ outcome.done /\ outcome.accepts =>
    /\ outcome.call.status = "Ok" /\ AtBroker.section # SectionBytes(said) => outcome.owed
    /\ outcome.call.status # "Ok" /\ said = <<>> /\ outcome.request = <<>> => outcome.owed

\* Where the loop of match_filter loses its place: behind a '+' that took a
\* level, an empty last level of the name is missed by a filter that ends in
\* '+' (the source says so), and so are the level a '#' may leave out and the
\* empty one it may stand for (it does not say so).
LosesItsPlace(topic, filter) ==
  LET names   == Levels(topic)
      levels  == Levels(filter)
      n       == Len(names)
      stepped == n > 1 /\ levels[n - 1] = <<Plus>> /\ names[n] = <<>>
  IN  \/ Len(levels) = n + 1 /\ (levels[n] = <<Plus>> \/ stepped)
      \/ Len(levels) = n /\ stepped /\ levels[n] \in {<<Hash>>, <<Plus>>}

\* For every name and every filter MQTT allows, the byte-by-byte matcher
\* (topic.rs) answers what MQTT defines level by level, but where it loses
\* its place, and there it only ever misses.
MatchesAsDefined ==
  job = "Match" /\ outcome.done /\ WellFormedFilter(outcome.filter) /\ outcome.topic # <<>> =>
    (outcome.answer = "Match" <=>
       MatchesByLevels(outcome.topic, outcome.filter)
         /\ ~LosesItsPlace(outcome.topic, outcome.filter))
=============================================================================
