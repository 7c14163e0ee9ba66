---------------------------- MODULE PacketFormat ----------------------------
(***************************************************************************)
(* What the client writes: the size each packet announces (size.rs,        *)
(* connect.rs, outpublish.rs, disconnect.rs), the serializers that fill a  *)
(* buffer (outbound.rs, writer.rs and the same three), and the parts the   *)
(* client gathers instead (client.rs, session.rs).  An optional field is   *)
(* <<>> or <<value>>.                                                      *)
(***************************************************************************)
EXTENDS PropertyChecks, SendPath

MaxRemaining == LengthLimit - 1
ContextMaxPacketSize == LengthLimit + 4

Flag(on, bit) == IF on THEN bit ELSE 0
Opt(option, F(_)) == IF option = <<>> THEN <<>> ELSE F(option[1])
Section(bytes) == Encode(Len(bytes)) \o bytes
SectionSize(bytes) == EncodedSize(Len(bytes)) + Len(bytes)
PacketSize(remaining) == remaining + EncodedSize(remaining) + 1

\* The parts that are gathered: an empty one is left out.
Parts(parts) == SelectSeq(parts, LAMBDA part : part # <<>>)

Written(capacity, bytes) ==
  IF capacity < Len(bytes) THEN [status |-> "NoMemory", bytes |-> <<>>]
  ELSE [status |-> "Ok", bytes |-> bytes]
Refused(status) == [status |-> status, bytes |-> <<>>]

---------------------------------------------------------------------------
(* CONNECT: [clean, keep_alive, id, will, username, password], a will being *)
(* [qos, retain, section, topic, payload].                                  *)

ConnectFlags(c) ==
  Flag(c.clean, 2) + Flag(c.username # <<>>, 128) + Flag(c.password # <<>>, 64)
  + IF c.will = <<>> THEN 0
    ELSE 4 + 8 * c.will[1].qos + Flag(c.will[1].retain, 32)

\* connect_packet_size's sum.
ConnectLength(c, section) ==
  LET Field(s) == 2 + Len(s)
  IN  10 + SectionSize(section) + Field(c.id)
      + (IF c.will = <<>> THEN 0
         ELSE SectionSize(c.will[1].section) + Field(c.will[1].topic) + Field(c.will[1].payload))
      + (IF c.username = <<>> THEN 0 ELSE Field(c.username[1]))
      + (IF c.password = <<>> THEN 0 ELSE Field(c.password[1]))

\* connect_packet_size's refusals; the server's maximum is not yet known.
ConnectSizeFault(c, section) ==
  \/ c.id # <<>> /\ c.id[1] = 0
  \/ Len(section) > MaxRemaining \/ ConnectLength(c, section) > MaxRemaining
  \/ c.will # <<>> /\ Len(c.will[1].section) > MaxRemaining

\* serialize_connect_fixed_header
ConnectHeader(c, remaining) ==
  <<16>> \o Encode(remaining) \o <<0, 4, 77, 81, 84, 84, 5, ConnectFlags(c)>> \o c.keep_alive

\* serialize_connect, into a buffer.
SerializeConnect(capacity, c, section) ==
  LET remaining == ConnectLength(c, section)
  IN  IF capacity < PacketSize(remaining) THEN Refused("NoMemory")
      ELSE Written(capacity,
             ConnectHeader(c, remaining) \o Section(section) \o Prefixed(c.id)
             \o Opt(c.will, LAMBDA w : Section(w.section) \o Prefixed(w.topic) \o Prefixed(w.payload))
             \o Opt(c.username, Prefixed) \o Opt(c.password, Prefixed))

\* push_string
StringParts(s) == <<<<Len(s) \div 256, Len(s) % 256>>, s>>
SectionParts(section) == <<Encode(Len(section)), section>>

\* The parts send_connect gathers.
ConnectParts(c, section) ==
  Parts(<<ConnectHeader(c, ConnectLength(c, section))>> \o SectionParts(section)
        \o StringParts(c.id)
        \o Opt(c.will, LAMBDA w : SectionParts(w.section) \o StringParts(w.topic)
                                  \o StringParts(w.payload))
        \o Opt(c.username, StringParts) \o Opt(c.password, StringParts))

---------------------------------------------------------------------------
(* SUBSCRIBE and UNSUBSCRIBE: a packet id and a list of                     *)
(* [filter, qos, no_local, retain_as_published, retain_handling].           *)

\* subscription_options
Options(e) ==
  e.qos + Flag(e.no_local, 4) + Flag(e.retain_as_published, 8) + 16 * e.retain_handling

\* Slip: the options' byte is left out.
Slip_ListLength(list, section, subscribing) ==
  2 + SectionSize(section) + FoldSeq(LAMBDA e, n : n + Len(e.filter) + 2, 0, list)

\* list_packet_size's sum.
ListLength(list, section, subscribing) ==
  2 + SectionSize(section)
  + FoldSeq(LAMBDA e, n : n + Len(e.filter) + 2 + Flag(subscribing, 1), 0, list)

\* list_packet_size, under the server's maximum.
ListSizeFault(list, section, subscribing, max) ==
  LET remaining == ListLength(list, section, subscribing)
  IN  \/ max = 0 \/ Len(section) > MaxRemaining \/ list = <<>>
      \/ remaining > MaxRemaining \/ PacketSize(remaining) > max

\* serialize_id_header
IdHeader(type, remaining, id) == <<type>> \o Encode(remaining) \o id
ListType(subscribing) == IF subscribing THEN 130 ELSE 162

\* serialize_subscribe and serialize_unsubscribe.
SerializeList(capacity, list, id, section, subscribing) ==
  LET remaining == ListLength(list, section, subscribing)
  IN  IF \/ Len(section) >= LengthLimit \/ list = <<>> \/ IsZero(id)
         \/ remaining >= LengthLimit
      THEN Refused("BadParameter")
      ELSE IF capacity < PacketSize(remaining) THEN Refused("NoMemory")
      ELSE IF \E i \in DOMAIN list : list[i].filter = <<>> THEN Refused("BadParameter")
      ELSE Written(capacity,
             IdHeader(ListType(subscribing), remaining, id) \o Section(section)
             \o FlattenSeq([i \in DOMAIN list |->
                  Prefixed(list[i].filter)
                  \o IF subscribing THEN <<Options(list[i])>> ELSE <<>>]))

\* The gathers of send_list.
ListGathers(list, id, section, subscribing) ==
  LET carried == Parts(<<IdHeader(ListType(subscribing),
                                  ListLength(list, section, subscribing), id)>>
                       \o SectionParts(section))
      each    == [i \in DOMAIN list |->
                    Parts(StringParts(list[i].filter)
                          \o IF subscribing THEN <<<<Options(list[i])>>>> ELSE <<>>)]
  IN  Gathers(carried, each, IF subscribing THEN 3 ELSE 2)

---------------------------------------------------------------------------
(* PUBLISH: [qos, retain, dup, topic, payload]. *)

\* publish_flags
PublishType(p) == PublishByte + 2 * p.qos + Flag(p.retain, 1) + Flag(p.dup, 8)
HasId(p) == p.qos > 0

PublishLength(p, section) ==
  2 + Len(p.topic) + Flag(HasId(p), 2) + SectionSize(section) + Len(p.payload)

\* publish_packet_size: the properties and the payload are each held against
\* what is left of the largest remaining length.
PublishSizeFault(p, section, max) ==
  LET fixed  == 2 + Len(p.topic) + Flag(HasId(p), 2) + EncodedSize(Len(section))
      budget == IF fixed > MaxRemaining THEN 0 ELSE MaxRemaining - fixed
  IN  \/ Len(section) > budget
      \/ Len(p.payload) > budget - Len(section)
      \/ PacketSize(PublishLength(p, section)) > max

\* validate_strict
PublishStrictFault(p, id, section) ==
  \/ p.topic = <<>>
  \/ HasId(p) /\ IsZero(id)
  \/ p.dup /\ ~HasId(p)
  \/ PublishLength(p, section) >= LengthLimit

\* serialize_common
PublishBytes(p, id, section, payload) ==
  <<PublishType(p)>> \o Encode(PublishLength(p, section)) \o Prefixed(p.topic)
  \o (IF HasId(p) THEN id ELSE <<>>) \o Section(section) \o payload

\* serialize_publish, and serialize_publish_header without the payload.
SerializePublish(capacity, p, id, section) ==
  IF PublishStrictFault(p, id, section) THEN Refused("BadParameter")
  ELSE IF capacity < PacketSize(PublishLength(p, section)) THEN Refused("NoMemory")
  ELSE Written(capacity, PublishBytes(p, id, section, p.payload))

SerializePublishHeader(capacity, p, id, section) ==
  IF PublishStrictFault(p, id, section) THEN Refused("BadParameter")
  ELSE IF capacity < PacketSize(PublishLength(p, section)) - Len(p.payload)
       THEN Refused("NoMemory")
  ELSE Written(capacity, PublishBytes(p, id, section, <<>>))

\* update_duplicate_flag, setting it.
WithDup(parts) ==
  LET byte == parts[1][1]
  IN  [parts EXCEPT ![1][1] = IF (byte \div 8) % 2 = 1 THEN @ ELSE @ + 8]

\* The parts publish gathers: the header ends with the topic's length.
PublishParts(p, id, section) ==
  Parts(<<<<PublishType(p)>> \o Encode(PublishLength(p, section)) \o StringParts(p.topic)[1],
          p.topic>>
        \o (IF HasId(p) THEN <<id>> ELSE <<>>) \o SectionParts(section) \o <<p.payload>>)

---------------------------------------------------------------------------
(* Acknowledgements and DISCONNECT; a reason is <<>> or <<code>>. *)

AckType == [PUBACK |-> 64, PUBREC |-> 80, PUBREL |-> PubRelByte, PUBCOMP |-> 112]
Refusals == {16, 128, 131, 135, 144, 145, 151, 153}
PacketIdNotFound == 146

\* ack_reason_code_allowed, and with no reason validate_publish_ack_reason_code.
AckReasonAllowed(kind, code) ==
  \/ code = 0
  \/ kind \in {"PUBACK", "PUBREC"} /\ code \in Refusals
  \/ kind \in {"PUBREL", "PUBCOMP"} /\ code = PacketIdNotFound

AckLength(section) == 3 + SectionSize(section)

\* ack_packet_size
AckSizeFault(max, section) ==
  \/ max = 0 \/ Len(section) > MaxRemaining \/ AckLength(section) > MaxRemaining
  \/ PacketSize(AckLength(section)) > max

\* serialize_ack: without a reason four bytes, with one an empty section too.
SerializeAck(capacity, kind, id, reason, section) ==
  IF capacity < 4 THEN Refused("NoMemory")
  ELSE IF \/ IsZero(id)
          \/ reason = <<>> /\ section # <<>>
          \/ reason # <<>> /\ ~AckReasonAllowed(kind, reason[1])
          \/ Len(section) >= LengthLimit
       THEN Refused("BadParameter")
  ELSE IF reason = <<>> THEN Written(capacity, <<AckType[kind], 2>> \o id)
  ELSE IF \/ capacity < 6 \/ AckLength(section) > MaxRemaining
          \/ capacity < PacketSize(AckLength(section))
       THEN Refused("BadParameter")
  ELSE Written(capacity, <<AckType[kind]>> \o Encode(AckLength(section)) \o id \o reason
                         \o Section(section))

\* What build_and_send_ack_with_props gathers.
AckParts(kind, id, reason, section) ==
  Parts(<<<<AckType[kind]>> \o Encode(AckLength(section)) \o id
          \o (IF reason = <<>> THEN <<0>> ELSE reason)>>
        \o SectionParts(section))

SharedDisconnectReasons == {0, 128, 129, 130, 131, 144, 147, 148, 149, 150, 151, 152, 153}
ServerDisconnectReasons == {135, 137, 139, 140, 141, 142, 143, 154, 155, 156, 157, 158,
                            160, 161, 162}

\* reason_code_allowed; 4 is a disconnect with the will.
DisconnectReasonAllowed(code, incoming) ==
  \/ code \in SharedDisconnectReasons
  \/ incoming /\ code \in ServerDisconnectReasons
  \/ ~incoming /\ code = 4

DisconnectLength(reason, section) == Len(reason) + SectionSize(section)

\* disconnect_packet_size, under the server's maximum.
DisconnectSizeFault(reason, section, max) ==
  \/ reason = <<>> /\ section # <<>>
  \/ max = 0
  \/ reason # <<>> /\ ~DisconnectReasonAllowed(reason[1], FALSE)
  \/ Len(section) >= LengthLimit \/ DisconnectLength(reason, section) >= LengthLimit
  \/ PacketSize(DisconnectLength(reason, section)) > max

\* serialize_disconnect_fixed
DisconnectHeader(reason, section) ==
  <<DisconnectByte>> \o Encode(DisconnectLength(reason, section)) \o reason

SerializeDisconnect(capacity, reason, section) ==
  IF \/ reason = <<>> /\ section # <<>>
     \/ Len(section) >= LengthLimit \/ DisconnectLength(reason, section) >= LengthLimit
  THEN Refused("BadParameter")
  ELSE IF capacity < PacketSize(DisconnectLength(reason, section)) THEN Refused("NoMemory")
  ELSE Written(capacity, DisconnectHeader(reason, section) \o Section(section))

\* The parts MqttContext::disconnect gathers.
DisconnectParts(reason, section) ==
  Parts(<<DisconnectHeader(reason, section)>> \o SectionParts(section))
=============================================================================
