-------------------------- MODULE PropertySection --------------------------
(***************************************************************************)
(* A section of MQTT 5 properties: the cursor an application reads it with *)
(* (cursor.rs over property.rs) and the builder it is written with         *)
(* (builder.rs).  A property is [id, value], and its value a sequence of   *)
(* byte strings: one for a number or a string, two for a user property.    *)
(***************************************************************************)
EXTENDS FixedHeader, SequencesExt

Id == [PAYLOAD_FORMAT |-> 1, MESSAGE_EXPIRY |-> 2, CONTENT_TYPE |-> 3,
       RESPONSE_TOPIC |-> 8, CORRELATION_DATA |-> 9, SUBSCRIPTION_ID |-> 11,
       SESSION_EXPIRY |-> 17, ASSIGNED_CLIENT_ID |-> 18, SERVER_KEEP_ALIVE |-> 19,
       AUTH_METHOD |-> 21, AUTH_DATA |-> 22, REQUEST_PROBLEM |-> 23, WILL_DELAY |-> 24,
       REQUEST_RESPONSE |-> 25, RESPONSE_INFO |-> 26, SERVER_REFERENCE |-> 28,
       REASON_STRING |-> 31, RECEIVE_MAX |-> 33, TOPIC_ALIAS_MAX |-> 34,
       TOPIC_ALIAS |-> 35, MAX_QOS |-> 36, RETAIN_AVAILABLE |-> 37, USER_PROPERTY |-> 38,
       MAX_PACKET_SIZE |-> 39, WILDCARD_AVAILABLE |-> 40,
       SUBSCRIPTION_ID_AVAILABLE |-> 41, SHARED_SUB_AVAILABLE |-> 42]

FourBytes == {Id.SESSION_EXPIRY, Id.MAX_PACKET_SIZE, Id.WILL_DELAY, Id.MESSAGE_EXPIRY}
TwoBytes == {Id.RECEIVE_MAX, Id.TOPIC_ALIAS_MAX, Id.TOPIC_ALIAS, Id.SERVER_KEEP_ALIVE}
Booleans == {Id.MAX_QOS, Id.RETAIN_AVAILABLE, Id.WILDCARD_AVAILABLE,
             Id.SUBSCRIPTION_ID_AVAILABLE, Id.SHARED_SUB_AVAILABLE}
OneByte == Booleans \cup {Id.REQUEST_PROBLEM, Id.REQUEST_RESPONSE, Id.PAYLOAD_FORMAT}
Strings == {Id.AUTH_METHOD, Id.CONTENT_TYPE, Id.RESPONSE_TOPIC, Id.ASSIGNED_CLIENT_ID,
            Id.REASON_STRING, Id.RESPONSE_INFO, Id.SERVER_REFERENCE, Id.AUTH_DATA,
            Id.CORRELATION_DATA}
KnownIds == FourBytes \cup TwoBytes \cup OneByte \cup Strings
            \cup {Id.USER_PROPERTY, Id.SUBSCRIPTION_ID}

---------------------------------------------------------------------------
(* Numbers and strings. *)

IsZero(bytes) == \A i \in DOMAIN bytes : bytes[i] = 0
TwoByteNumber(bytes) == 256 * bytes[1] + bytes[2]

\* A four-byte number, counted no further than 2^16.
FourByteNumber(bytes) ==
  IF bytes[1] > 0 \/ bytes[2] > 0 THEN 65536 ELSE 256 * bytes[3] + bytes[4]

\* encode_string
Prefixed(string) == <<Len(string) \div 256, Len(string) % 256>> \o string

PropertyBytes(p) ==
  <<p.id>> \o (IF p.id \in Strings \cup {Id.USER_PROPERTY}
               THEN FlattenSeq([i \in DOMAIN p.value |-> Prefixed(p.value[i])])
               ELSE p.value[1])

SectionBytes(properties) ==
  FlattenSeq([i \in DOMAIN properties |-> PropertyBytes(properties[i])])

\* PropertyReader: `at` bytes have been taken; what is left of the section
\* must hold what the width asks for.
Malformed(at) == [ok |-> FALSE, at |-> at, value |-> <<>>]

TakeBytes(bytes, at, n) ==
  IF at + n > Len(bytes) THEN Malformed(at)
  ELSE [ok |-> TRUE, at |-> at + n, value |-> <<SubSeq(bytes, at + 1, at + n)>>]

\* utf8
TakeString(bytes, at) ==
  IF at + 2 > Len(bytes) THEN Malformed(at)
  ELSE TakeBytes(bytes, at + 2, TwoByteNumber(SubSeq(bytes, at + 1, at + 2)))

\* What is taken behind what has been, of whatever was at `at`.
Joined(first, second, at) ==
  IF first.ok /\ second.ok THEN [second EXCEPT !.value = first.value \o second.value]
  ELSE Malformed(at)

\* user_property
TakePair(bytes, at) ==
  LET TakeSecond(key) == Joined(key, TakeString(bytes, key.at), at)
  IN  TakeSecond(TakeString(bytes, at))

\* variable_length
TakeVariable(bytes, at) ==
  LET Take(length) ==
        IF length.status = "Ok" THEN TakeBytes(bytes, at, length.size) ELSE Malformed(at)
  IN  Take(ReadLength(SubSeq(bytes, at + 1, Len(bytes))))

TakeValue(bytes, at, id) ==
  CASE id \in OneByte -> TakeBytes(bytes, at, 1)
    [] id \in TwoBytes -> TakeBytes(bytes, at, 2)
    [] id \in FourBytes -> TakeBytes(bytes, at, 4)
    [] id \in Strings -> TakeString(bytes, at)
    [] id = Id.USER_PROPERTY -> TakePair(bytes, at)
    [] id = Id.SUBSCRIPTION_ID -> TakeVariable(bytes, at)
    [] OTHER -> Malformed(at)

\* What a walk over a section meets: properties, up to and with the first one
\* it cannot get past.
Items(bytes) ==
  LET From[at \in 0..Len(bytes)] ==
        IF at = Len(bytes) THEN <<>>
        ELSE LET Meet(id, v) == <<[id |-> id, ok |-> v.ok, value |-> v.value]>>
                                \o IF v.ok THEN From[v.at] ELSE <<>>
             IN  Meet(bytes[at + 1], TakeValue(bytes, at + 1, bytes[at + 1]))
  IN  From[0]

---------------------------------------------------------------------------
(* PropertyCursor: `at` is the cursor's position. *)

CursorFails(status, at) == [status |-> status, at |-> at, value |-> <<>>]

CursorReads(section, at, id) ==
  LET Gives(v) == IF v.ok THEN [status |-> "Ok", at |-> v.at, value |-> v.value]
                  ELSE CursorFails("BadResponse", at)
  IN  Gives(TakeValue(section, at + 1, id))

\* next_type
NextType(section, at) ==
  IF at >= Len(section) THEN "EndOfProperties"
  ELSE IF section[at + 1] \notin KnownIds THEN "BadParameter" ELSE "Ok"

SkipProperty(section, at) ==
  IF NextType(section, at) # "Ok" THEN CursorFails(NextType(section, at), at)
  ELSE CursorReads(section, at, section[at + 1])

\* The getters, user_property and subscription_id.
GetProperty(section, at, id) ==
  IF at >= Len(section) THEN CursorFails("EndOfProperties", at)
  ELSE IF section[at + 1] # id THEN CursorFails("BadParameter", at)
  ELSE CursorReads(section, at, id)

NoGetter == {Id.WILL_DELAY, Id.REQUEST_PROBLEM, Id.REQUEST_RESPONSE}

---------------------------------------------------------------------------
(* PropertyBuilder: `fields` is what it knows to have been added. *)

Allowed(packet) ==
  CASE packet = "CONNECT" ->
         {Id.SESSION_EXPIRY, Id.RECEIVE_MAX, Id.MAX_PACKET_SIZE, Id.TOPIC_ALIAS_MAX,
          Id.REQUEST_RESPONSE, Id.REQUEST_PROBLEM, Id.USER_PROPERTY, Id.AUTH_METHOD,
          Id.AUTH_DATA, Id.WILL_DELAY, Id.PAYLOAD_FORMAT, Id.MESSAGE_EXPIRY,
          Id.CONTENT_TYPE, Id.RESPONSE_TOPIC, Id.CORRELATION_DATA}
    [] packet = "CONNACK" ->
         Booleans \cup
         {Id.SESSION_EXPIRY, Id.RECEIVE_MAX, Id.MAX_PACKET_SIZE, Id.ASSIGNED_CLIENT_ID,
          Id.TOPIC_ALIAS_MAX, Id.REASON_STRING, Id.USER_PROPERTY, Id.SERVER_KEEP_ALIVE,
          Id.RESPONSE_INFO, Id.SERVER_REFERENCE, Id.AUTH_METHOD, Id.AUTH_DATA}
    [] packet = "PUBLISH" ->
         {Id.PAYLOAD_FORMAT, Id.MESSAGE_EXPIRY, Id.TOPIC_ALIAS, Id.RESPONSE_TOPIC,
          Id.CORRELATION_DATA, Id.USER_PROPERTY, Id.SUBSCRIPTION_ID, Id.CONTENT_TYPE}
    [] packet \in {"PUBACK", "PUBREC", "PUBREL", "PUBCOMP", "SUBACK", "UNSUBACK"} ->
         {Id.REASON_STRING, Id.USER_PROPERTY}
    [] packet = "SUBSCRIBE" -> {Id.SUBSCRIPTION_ID, Id.USER_PROPERTY}
    [] packet = "UNSUBSCRIBE" -> {Id.USER_PROPERTY}
    [] packet = "DISCONNECT" ->
         {Id.SESSION_EXPIRY, Id.REASON_STRING, Id.USER_PROPERTY, Id.SERVER_REFERENCE}
    [] packet = "AUTH" -> {Id.AUTH_METHOD, Id.AUTH_DATA, Id.REASON_STRING, Id.USER_PROPERTY}
    [] OTHER -> {}

\* Properties an application can add: the server's own have no method.
Addable == KnownIds \ (Booleans \cup {Id.ASSIGNED_CLIENT_ID, Id.SERVER_KEEP_ALIVE,
                                      Id.RESPONSE_INFO, Id.SERVER_REFERENCE})

\* new, and resume at a position that must lie inside the buffer.
NewBuilder(capacity) ==
  CASE capacity = 0 -> "Empty" [] capacity >= LengthLimit -> "TooLong" [] OTHER -> "Ok"

Wildcards == {35, 43}    \* '#' and '+'

\* Slip: only the values of zero are looked at.
Slip_BadValue(p, fields) ==
  p.id \in {Id.RECEIVE_MAX, Id.MAX_PACKET_SIZE, Id.TOPIC_ALIAS} /\ IsZero(p.value[1])

\* What the adding methods refuse before they look at the room: a limit of
\* zero, an identifier of zero, half a user property, a wildcard in a response
\* topic, an empty string, authentication data before its method.
BadLimit(p) == p.id \in {Id.RECEIVE_MAX, Id.MAX_PACKET_SIZE, Id.TOPIC_ALIAS} /\ IsZero(p.value[1])
BadSubscriptionId(p) == p.id = Id.SUBSCRIPTION_ID /\ IsZero(p.value[1])
BadPair(p) == p.id = Id.USER_PROPERTY /\ <<>> \in Range(p.value)
BadTopic(p) == p.id = Id.RESPONSE_TOPIC /\ Range(p.value[1]) \cap Wildcards # {}
BadValue(p, fields) ==
  \/ BadLimit(p) \/ BadSubscriptionId(p) \/ BadPair(p) \/ BadTopic(p)
  \/ p.id \in Strings /\ <<>> \in Range(p.value)
  \/ p.id = Id.AUTH_DATA /\ Id.AUTH_METHOD \notin fields

\* room_for; packet "None" is a caller who names no packet type.
RoomFor(b, capacity, p, packet) ==
  IF p.id \in b.fields THEN "AlreadySet"
  ELSE IF packet # "None" /\ p.id \notin Allowed(packet) THEN "NotAllowedInPacket"
  ELSE IF capacity - Len(b.bytes) < Len(PropertyBytes(p)) THEN "NoMemory" ELSE "Ok"

\* Slip: the bit is set although the property did not fit.
Slip_AddProperty(b, capacity, p, packet) ==
  LET status == IF BadValue(p, b.fields) THEN "BadValue" ELSE RoomFor(b, capacity, p, packet)
  IN  [status  |-> status,
       builder |-> [bytes  |-> IF status # "Ok" THEN b.bytes ELSE b.bytes \o PropertyBytes(p),
                    fields |-> b.fields \cup ({p.id} \ {Id.USER_PROPERTY})]]

\* The adding methods.  A user property may repeat and sets no bit.
AddProperty(b, capacity, p, packet) ==
  LET status == IF BadValue(p, b.fields) THEN "BadValue" ELSE RoomFor(b, capacity, p, packet)
  IN  [status  |-> status,
       builder |-> IF status # "Ok" THEN b
                   ELSE [bytes  |-> b.bytes \o PropertyBytes(p),
                         fields |-> b.fields \cup ({p.id} \ {Id.USER_PROPERTY})]]

\* resume: the bytes are kept, and what was added is forgotten.
ResumeBuilder(b) == [b EXCEPT !.fields = {}]
=============================================================================
