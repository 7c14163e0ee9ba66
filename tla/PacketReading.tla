--------------------------- MODULE PacketReading ---------------------------
(***************************************************************************)
(* What the client reads: the deserializers (connack.rs, ack.rs,           *)
(* publish.rs, disconnect.rs), over packet_view's packet: its type byte    *)
(* and a body of exactly the remaining length.                             *)
(***************************************************************************)
EXTENDS PacketFormat

\* A section: its length, then as many bytes.
TakeSection(bytes, at) ==
  LET Take(length) == IF length.status # "Ok" THEN Malformed(at)
                      ELSE TakeBytes(bytes, at + length.size, length.value)
  IN  Take(ReadLength(SubSeq(bytes, at + 1, Len(bytes))))

TooBig(packet, max) == PacketSize(Len(packet.body)) > max

\* What a reader answers: a status and the fields it hands on.
Fails(status) == [status |-> status, id |-> <<>>, codes |-> <<>>, section |-> <<>>,
                  topic |-> <<>>, payload |-> <<>>]
Hears(fields) == fields @@ Fails("Ok")

---------------------------------------------------------------------------
(* CONNACK *)

ConnackReasons == {0, 144, 149, 151, 153, 154, 155, 156, 157, 159} \cup (128..138) \cup {140}

\* deserialize_connack.  The codes are the flags and the reason.
DeserializeConnack(packet, client) ==
  LET body    == packet.body
      section == TakeSection(body, 2)
  IN  IF packet.type # ConnAckByte \/ client.max_packet_size = 0 THEN Fails("BadParameter")
      ELSE IF \/ TooBig(packet, client.max_packet_size)
              \/ Len(body) < 3
              \/ body[1] > 1
              \/ body[1] = 1 /\ body[2] # 0
              \/ body[2] \notin ConnackReasons
              \/ ~section.ok \/ section.at # Len(body)
              \/ CheckConnack(section.value[1], client.request_response_info) # "Ok"
           THEN Fails("BadResponse")
      ELSE Hears([codes |-> <<body[1], body[2]>>, section |-> section.value[1]])

---------------------------------------------------------------------------
(* Acknowledgements *)

\* deserialize_pub_acks: a reason and a section may each be absent, and a
\* section is refused unless it was asked for.
DeserializePubAck(body, requestProblem) ==
  LET section == TakeSection(body, 3)
  IN  IF \/ Len(body) < 2 \/ IsZero(SubSeq(body, 1, 2))
         \/ Len(body) > 3 /\ ( \/ ~requestProblem
                               \/ ~section.ok \/ section.at # Len(body)
                               \/ CheckIncomingAck(section.value[1]) # "Ok" )
         \/ Len(body) > 2 /\ body[3] \notin Refusals \cup {0, PacketIdNotFound}
      THEN Fails("BadResponse")
      ELSE Hears([id |-> SubSeq(body, 1, 2), codes |-> SubSeq(body, 3, Min({3, Len(body)})),
                  section |-> IF Len(body) > 3 THEN section.value[1] ELSE <<>>])

SubackReasons == {0, 1, 2, 128, 131, 135, 143, 145, 151, 158, 161, 162}

\* Slip: the codes begin where the section's length says it is, not behind it.
Slip_SubackCodes(body, section) == SubSeq(body, 3 + Len(section.value[1]), Len(body))

SubackCodes(body, section) == SubSeq(body, section.at + 1, Len(body))

\* deserialize_sub_unsub_ack: the codes of an UNSUBACK are held against the
\* same table as a SUBACK's.
DeserializeSubUnsubAck(body) ==
  LET section == TakeSection(body, 2)
  IN  IF \/ Len(body) < 4 \/ IsZero(SubSeq(body, 1, 2)) \/ ~section.ok
         \/ CheckIncomingAck(section.value[1]) # "Ok"
         \/ ~(Range(SubackCodes(body, section)) \subseteq SubackReasons)
      THEN Fails("BadResponse")
      ELSE Hears([id |-> SubSeq(body, 1, 2), codes |-> SubackCodes(body, section),
                  section |-> section.value[1]])

SubAckByte == 144
UnsubAckByte == 176

\* deserialize_ack
DeserializeAck(packet, client) ==
  IF packet.type = ConnAckByte \/ client.max_packet_size = 0 THEN Fails("BadParameter")
  ELSE IF TooBig(packet, client.max_packet_size) THEN Fails("BadResponse")
  ELSE CASE packet.type \in Range(AckType) ->
              DeserializePubAck(packet.body, client.request_problem_info)
         [] packet.type \in {SubAckByte, UnsubAckByte} -> DeserializeSubUnsubAck(packet.body)
         [] packet.type = PingRespByte /\ packet.body = <<>> -> Hears(<<>>)
         [] OTHER -> Fails("BadResponse")

---------------------------------------------------------------------------
(* PUBLISH *)

\* process_publish_flags: the two bits of the QoS may not both be set.
QoSOf(type) == (type % 8) \div 2

\* deserialize_publish.  The codes are the type byte, which holds the flags.
DeserializePublish(packet, client) ==
  LET body    == packet.body
      qos     == QoSOf(packet.type)
      topic   == TakeString(body, 0)
      id      == IF qos = 0 THEN [topic EXCEPT !.value = <<>>] ELSE TakeBytes(body, topic.at, 2)
      section == TakeSection(body, id.at)
  IN  IF Nibble(packet.type) # 3 \/ Len(body) >= LengthLimit THEN Fails("BadParameter")
      ELSE IF \/ TooBig(packet, client.max_packet_size)
              \/ qos = 3
              \/ Len(body) < 4 + Flag(qos > 0, 2)
              \/ ~topic.ok \/ ~id.ok
              \/ qos > 0 /\ IsZero(id.value[1])
              \/ ~section.ok
              \/ CheckIncomingPublish(section.value[1], client.topic_alias_max) # "Ok"
           THEN Fails("BadResponse")
      ELSE Hears([codes |-> <<packet.type>>, topic |-> topic.value[1],
                  id |-> FlattenSeq(id.value), section |-> section.value[1],
                  payload |-> SubSeq(body, section.at + 1, Len(body))])

---------------------------------------------------------------------------
(* DISCONNECT *)

\* deserialize_disconnect: a reason and a section may each be absent.
DeserializeDisconnect(packet, client) ==
  LET body    == packet.body
      section == TakeSection(body, 1)
  IN  IF client.max_packet_size = 0 THEN Fails("BadParameter")
      ELSE IF \/ TooBig(packet, client.max_packet_size) \/ Len(body) >= LengthLimit
              \/ body # <<>> /\ ~DisconnectReasonAllowed(body[1], TRUE)
              \/ Len(body) > 1 /\ ( \/ ~section.ok \/ section.at # Len(body)
                                    \/ CheckIncomingDisconnect(section.value[1]) # "Ok" )
           THEN Fails("BadResponse")
      ELSE Hears([codes |-> SubSeq(body, 1, Min({1, Len(body)})),
                  section |-> IF Len(body) > 1 THEN section.value[1] ELSE <<>>])

\* The loop's choice among them, by the type byte; a CONNACK is only read by
\* connect.
Deserialize(packet, client) ==
  CASE packet.type = ConnAckByte -> DeserializeConnack(packet, client)
    [] Nibble(packet.type) = 3 -> DeserializePublish(packet, client)
    [] packet.type = DisconnectByte -> DeserializeDisconnect(packet, client)
    [] OTHER -> DeserializeAck(packet, client)
=============================================================================
