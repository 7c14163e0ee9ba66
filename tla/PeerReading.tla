---------------------------- MODULE PeerReading ----------------------------
(***************************************************************************)
(* The other end, by the layout MQTT gives each packet: what a broker      *)
(* makes of the bytes the client sends, and how it writes what the client  *)
(* reads.  Nothing here is the client's code.                              *)
(***************************************************************************)
EXTENDS ClientCalls

TakeField(kind, bytes, at) ==
  CASE kind = "One" -> TakeBytes(bytes, at, 1)
    [] kind = "Two" -> TakeBytes(bytes, at, 2)
    [] kind = "Seven" -> TakeBytes(bytes, at, 7)
    [] kind = "String" -> TakeString(bytes, at)
    [] kind = "Section" -> TakeSection(bytes, at)
    [] kind = "Rest" -> TakeBytes(bytes, at, Len(bytes) - at)

\* The fields of a layout, of bytes it uses up.
Fields(bytes, layout) ==
  LET Then(read, kind) ==
        IF ~read.ok THEN read ELSE Joined(read, TakeField(kind, bytes, read.at), read.at)
      UsedUp(all) == [all EXCEPT !.ok = @ /\ all.at = Len(bytes)]
  IN  UsedUp(FoldLeft(Then, [ok |-> TRUE, at |-> 0, value |-> <<>>], layout))

\* A packet off the wire: its length says exactly how many bytes follow.
Unframed(bytes) ==
  LET Behind(length) ==
        [ok |-> length.status = "Ok" /\ Len(bytes) = 1 + length.size + length.value,
         type |-> bytes[1], body |-> SubSeq(bytes, length.size + 2, Len(bytes))]
  IN  Behind(ReadLength(Tail(bytes)))

Unheard == [ok |-> FALSE, request |-> <<>>, id |-> <<>>, section |-> <<>>]
Heard(request, id, section) == [ok |-> TRUE, request |-> request, id |-> id, section |-> section]

Bit(byte, bit) == (byte \div bit) % 2 = 1

HearConnect(body) ==
  LET flags  == body[8]
      will   == Bit(flags, 4)
      layout == <<"Seven", "One", "Two", "Section", "String">>
                \o (IF will THEN <<"Section", "String", "String">> ELSE <<>>)
                \o (IF Bit(flags, 128) THEN <<"String">> ELSE <<>>)
                \o (IF Bit(flags, 64) THEN <<"String">> ELSE <<>>)
      read   == Fields(body, layout)
      v      == read.value
      after  == IF will THEN 8 ELSE 5
  IN  IF ~read.ok \/ v[1] # <<0, 4, 77, 81, 84, 84, 5>> \/ Bit(flags, 1) THEN Unheard
      ELSE Heard(
        [clean |-> Bit(flags, 2), keep_alive |-> v[3], id |-> v[5],
         will |-> IF will THEN <<[qos |-> (flags \div 8) % 4, retain |-> Bit(flags, 32),
                                  section |-> v[6], topic |-> v[7], payload |-> v[8]]>>
                  ELSE <<>>,
         username |-> IF Bit(flags, 128) THEN <<v[after + 1]>> ELSE <<>>,
         password |-> IF Bit(flags, 64) THEN <<v[Len(v)]>> ELSE <<>>], <<>>, v[4])

\* A list of topics; an UNSUBSCRIBE's have no options.
HearList(body, subscribing) ==
  LET each    == IF subscribing THEN <<"String", "One">> ELSE <<"String">>
      topics  == {n \in 1..Len(body) :
                    Fields(body, <<"Two", "Section">>
                                 \o FlattenSeq([i \in 1..n |-> each])).ok}
      n       == CHOOSE k \in topics : TRUE
      v       == Fields(body, <<"Two", "Section">> \o FlattenSeq([i \in 1..n |-> each])).value
      OptionsOf(i) == IF subscribing THEN v[2 * i + 2][1] ELSE 0
  IN  IF topics = {} THEN Unheard
      ELSE Heard(
        [i \in 1..n |->
           [filter |-> IF subscribing THEN v[2 * i + 1] ELSE v[i + 2],
            qos |-> OptionsOf(i) % 4, no_local |-> Bit(OptionsOf(i), 4),
            retain_as_published |-> Bit(OptionsOf(i), 8),
            retain_handling |-> OptionsOf(i) \div 16]], v[1], v[2])

HearPublish(type, body) ==
  LET qos  == (type % 8) \div 2
      read == Fields(body, IF qos = 0 THEN <<"String", "Section", "Rest">>
                           ELSE <<"String", "Two", "Section", "Rest">>)
      v    == read.value
  IN  IF ~read.ok \/ qos = 3 THEN Unheard
      ELSE Heard([qos |-> qos, retain |-> type % 2 = 1, dup |-> Bit(type, 8),
                  topic |-> v[1], payload |-> v[Len(v)]],
                 IF qos = 0 THEN <<>> ELSE v[2], v[Len(v) - 1])

\* A reason that is left out is zero, and so is a section that is.
HearReason(body, layout) ==
  LET short == Fields(body, layout)
      one   == Fields(body, layout \o <<"One">>)
      whole == Fields(body, layout \o <<"One", "Section">>)
      id(v) == IF layout = <<>> THEN <<>> ELSE v[1]
  IN  CASE short.ok -> Heard(<<0>>, id(short.value), <<>>)
        [] one.ok -> Heard(one.value[Len(layout) + 1], id(one.value), <<>>)
        [] whole.ok -> Heard(whole.value[Len(layout) + 1], id(whole.value),
                             whole.value[Len(layout) + 2])
        [] OTHER -> Unheard

\* What the broker makes of a packet of some kind.
BrokerHears(kind, bytes) ==
  LET packet == Unframed(bytes)
  IN  CASE ~packet.ok -> Unheard
        [] kind = "CONNECT" /\ packet.type = 16 -> HearConnect(packet.body)
        [] kind = "SUBSCRIBE" /\ packet.type = 130 -> HearList(packet.body, TRUE)
        [] kind = "UNSUBSCRIBE" /\ packet.type = 162 -> HearList(packet.body, FALSE)
        [] kind = "PUBLISH" /\ Nibble(packet.type) = 3 -> HearPublish(packet.type, packet.body)
        [] kind = "DISCONNECT" /\ packet.type = DisconnectByte -> HearReason(packet.body, <<>>)
        [] kind \in DOMAIN AckType /\ packet.type = AckType[kind] ->
             HearReason(packet.body, <<"Two">>)
        [] OTHER -> Unheard

---------------------------------------------------------------------------
(* What the broker writes. *)

TypeOf(kind) ==
  CASE kind = "CONNACK" -> ConnAckByte [] kind = "SUBACK" -> SubAckByte
    [] kind = "UNSUBACK" -> UnsubAckByte [] kind = "PINGRESP" -> PingRespByte
    [] kind = "DISCONNECT" -> DisconnectByte [] kind \in DOMAIN AckType -> AckType[kind]

\* The body of a packet [kind, codes, id, topic, payload]; a PUBLISH's codes
\* are its type byte.
BodyOf(packet, section) ==
  CASE packet.kind = "CONNACK" -> packet.codes \o Section(section)
    [] packet.kind = "PUBLISH" ->
         Prefixed(packet.topic) \o packet.id \o Section(section) \o packet.payload
    [] packet.kind \in {"SUBACK", "UNSUBACK"} -> packet.id \o Section(section) \o packet.codes
    [] packet.kind = "PINGRESP" -> <<>>
    [] OTHER -> packet.id \o packet.codes
                \o (IF section = <<>> THEN <<>> ELSE Section(section))
=============================================================================
