------------------------------ MODULE MCCodec ------------------------------
(* A small instance of Codec for TLC: lengths in base 4, so that a section  *)
(* of four bytes has a length of two and the longest packet has 260 bytes.  *)
EXTENDS Codec

P(id, bytes) == [id |-> id, value |-> <<bytes>>]
User == [id |-> Id.USER_PROPERTY, value |-> <<<<107>>, <<>>>>]
UserPair == [id |-> Id.USER_PROPERTY, value |-> <<<<107>>, <<118>>>>]

MCConnections ==
  {[offer |-> <<>>, answer |-> <<>>],
   [offer |-> <<P(Id.SESSION_EXPIRY, <<0, 0, 0, 5>>), P(Id.TOPIC_ALIAS_MAX, <<0, 2>>),
                P(Id.REQUEST_PROBLEM, <<1>>)>>,
    answer |-> <<P(Id.TOPIC_ALIAS_MAX, <<0, 1>>), P(Id.MAX_PACKET_SIZE, <<0, 0, 0, 24>>),
                 P(Id.SHARED_SUB_AVAILABLE, <<0>>)>>],
   [offer |-> <<P(Id.RECEIVE_MAX, <<0, 3>>), P(Id.MAX_PACKET_SIZE, <<0, 0, 0, 16>>)>>,
    answer |-> <<P(Id.MAX_QOS, <<0>>), P(Id.RETAIN_AVAILABLE, <<0>>),
                 P(Id.WILDCARD_AVAILABLE, <<0>>), P(Id.SUBSCRIPTION_ID_AVAILABLE, <<0>>),
                 P(Id.TOPIC_ALIAS_MAX, <<0, 2>>)>>],
   [offer |-> <<P(Id.REQUEST_PROBLEM, <<0>>), P(Id.REQUEST_RESPONSE, <<1>>)>>,
    answer |-> <<>>]}

Will(section) == [qos |-> 1, retain |-> TRUE, section |-> section, topic |-> <<97>>,
                  payload |-> <<1, 2>>]
Connect(id, will, username, password) ==
  [clean |-> will = <<>>, keep_alive |-> <<0, 60>>, id |-> id, will |-> will,
   username |-> username, password |-> password]

Topic(filter, qos) == [filter |-> filter, qos |-> qos, no_local |-> FALSE,
                       retain_as_published |-> qos = 2, retain_handling |-> qos]
Group(name, qos) == Topic(SharePrefix \o name, qos)

Publish(qos, retain, dup, topic, size) ==
  [qos |-> qos, retain |-> retain, dup |-> dup, topic |-> topic,
   payload |-> [i \in 1..size |-> 7]]

MCSends ==
  [CONNECT |->
     [requests |-> {Connect(<<99>>, <<>>, <<>>, <<>>), Connect(<<0>>, <<>>, <<>>, <<>>),
                    Connect(<<>>, <<Will(<<>>)>>, <<<<117>>>>, <<<<>>>>),
                    Connect(<<99>>, <<Will(<<Id.PAYLOAD_FORMAT, 1>>)>>, <<>>, <<<<112>>>>),
                    Connect(<<99>>, <<Will(<<Id.PAYLOAD_FORMAT, 2>>)>>, <<>>, <<>>)},
      menu |-> {P(Id.SESSION_EXPIRY, <<0, 0, 0, 9>>), P(Id.RECEIVE_MAX, <<0, 0>>),
                P(Id.RECEIVE_MAX, <<0, 1>>), P(Id.MAX_PACKET_SIZE, <<0, 0, 0, 40>>),
                P(Id.MAX_PACKET_SIZE, <<0, 0, 0, 41>>), P(Id.REQUEST_PROBLEM, <<1>>),
                P(Id.AUTH_METHOD, <<109>>), P(Id.AUTH_DATA, <<100>>), UserPair,
                P(Id.WILL_DELAY, <<0, 0, 0, 1>>), P(Id.TOPIC_ALIAS, <<0, 1>>)}],
   SUBSCRIBE |->
     [requests |-> {<<Topic(<<97>>, 1)>>, <<Topic(<<97>>, 0), Topic(<<98>>, 2), Topic(<<>>, 1),
                      Topic(<<99, 47, 43>>, 1)>>,
                    <<Group(<<97, 47, 98>>, 1)>>, <<Group(<<97, 47, 98>>, 2), Topic(<<98>>, 1)>>,
                    <<Group(<<97, 47>>, 0)>>, <<Group(<<43, 47, 98>>, 0)>>,
                    <<[Group(<<97, 47, 98>>, 0) EXCEPT !.no_local = TRUE]>>, <<>>},
      menu |-> {P(Id.SUBSCRIPTION_ID, <<0>>), P(Id.SUBSCRIPTION_ID, <<5, 1>>), User, UserPair,
                P(Id.REASON_STRING, <<114>>)}],
   UNSUBSCRIBE |->
     [requests |-> {<<Topic(<<97>>, 1)>>, <<Topic(<<>>, 2), Topic(<<97, 47, 35>>, 0),
                      Topic(<<98>>, 0)>>, <<Topic(<<97>>, 0), Topic(<<>>, 0)>>},
      menu |-> {P(Id.SUBSCRIPTION_ID, <<1>>), UserPair}],
   PUBLISH |->
     [requests |-> {Publish(0, FALSE, FALSE, <<97>>, 2), Publish(0, TRUE, TRUE, <<97>>, 0),
                    Publish(1, FALSE, FALSE, <<97>>, 1), Publish(2, TRUE, FALSE, <<97>>, 1),
                    Publish(1, FALSE, TRUE, <<97>>, 0), Publish(1, FALSE, FALSE, <<>>, 1),
                    Publish(0, FALSE, FALSE, <<97>>, 251), Publish(1, FALSE, FALSE, <<97>>, 251),
                    Publish(1, FALSE, FALSE, <<97>>, 249)},
      menu |-> {P(Id.PAYLOAD_FORMAT, <<1>>), P(Id.TOPIC_ALIAS, <<0, 1>>),
                P(Id.TOPIC_ALIAS, <<0, 2>>), P(Id.RESPONSE_TOPIC, <<43>>),
                P(Id.RESPONSE_TOPIC, <<98>>), P(Id.SUBSCRIPTION_ID, <<1>>), UserPair}],
   DISCONNECT |->
     [requests |-> {<<>>, <<0>>, <<4>>, <<139>>},
      menu |-> {P(Id.SESSION_EXPIRY, <<0, 0, 0, 0>>), P(Id.SESSION_EXPIRY, <<0, 0, 0, 3>>),
                P(Id.REASON_STRING, <<114>>), P(Id.TOPIC_ALIAS, <<0, 1>>), UserPair}]]

Packet(what, codes, id, topic, payload, legal) ==
  [kind |-> what, codes |-> codes, id |-> id, topic |-> topic, payload |-> payload,
   legal |-> legal]
Coded(what, id, legal, illegal) ==
  {Packet(what, codes, id, <<>>, <<>>, codes \in legal) : codes \in legal \cup illegal}
Ack(what, legal, illegal) ==
  Coded(what, <<0, 1>>, legal, illegal) \cup Coded(what, <<0, 0>>, {}, {<<0>>})
AckMenu == {P(Id.REASON_STRING, <<114>>), User, P(Id.TOPIC_ALIAS, <<0, 1>>)}

\* What is legal is so by MQTT 5.0's own tables; that a SUBACK has a code
\* at all, and a PUBLISH a topic or an alias, is for Lawful to say.
MCArrivals ==
  [CONNACK |->
     [packets |-> Coded("CONNACK", <<>>, {<<0, 0>>, <<1, 0>>, <<0, 135>>},
                        {<<1, 135>>, <<2, 0>>, <<0, 1>>}),
      menu |-> {P(Id.RECEIVE_MAX, <<0, 1>>), P(Id.RECEIVE_MAX, <<0, 0>>), P(Id.MAX_QOS, <<0>>),
                P(Id.RETAIN_AVAILABLE, <<2>>), P(Id.RESPONSE_INFO, <<114>>),
                P(Id.SERVER_KEEP_ALIVE, <<0, 9>>), User, P(Id.TOPIC_ALIAS, <<0, 1>>)}],
   PUBLISH |->
     [packets |-> {Packet("PUBLISH", <<48>>, <<>>, <<97>>, <<>>, TRUE),
                   Packet("PUBLISH", <<59>>, <<0, 1>>, <<97>>, <<1>>, TRUE),
                   Packet("PUBLISH", <<52>>, <<1, 0>>, <<97>>, <<1>>, TRUE),
                   Packet("PUBLISH", <<50>>, <<0, 0>>, <<97>>, <<1>>, FALSE),
                   Packet("PUBLISH", <<54>>, <<0, 1>>, <<97>>, <<1>>, FALSE),
                   Packet("PUBLISH", <<56>>, <<>>, <<97>>, <<1>>, FALSE),
                   Packet("PUBLISH", <<48>>, <<>>, <<>>, <<1>>, TRUE)},
      menu |-> {P(Id.PAYLOAD_FORMAT, <<1>>), P(Id.PAYLOAD_FORMAT, <<2>>),
                P(Id.TOPIC_ALIAS, <<0, 0>>), P(Id.TOPIC_ALIAS, <<0, 2>>),
                P(Id.TOPIC_ALIAS, <<0, 3>>), P(Id.SUBSCRIPTION_ID, <<5, 1>>),
                P(Id.SUBSCRIPTION_ID, <<0>>), User, P(Id.SERVER_KEEP_ALIVE, <<0, 9>>)}],
   PUBACK |-> [packets |-> Ack("PUBACK", {<<>>, <<16>>}, {<<1>>, <<146>>}), menu |-> AckMenu],
   PUBREL |-> [packets |-> Ack("PUBREL", {<<>>, <<146>>}, {<<2>>, <<16>>}), menu |-> AckMenu],
   SUBACK |-> [packets |-> Ack("SUBACK", {<<>>, <<0>>, <<1, 135>>}, {<<3>>}), menu |-> AckMenu],
   UNSUBACK |-> [packets |-> Ack("UNSUBACK", {<<0>>, <<17>>}, {<<1>>, <<3>>}), menu |-> AckMenu],
   PINGRESP |-> [packets |-> Coded("PINGRESP", <<>>, {<<>>}, {}), menu |-> {}],
   DISCONNECT |->
     [packets |-> Coded("DISCONNECT", <<>>, {<<>>, <<0>>, <<139>>, <<159>>}, {<<4>>, <<1>>}),
      menu |-> AckMenu \cup {P(Id.SERVER_REFERENCE, <<115>>),
                             P(Id.SESSION_EXPIRY, <<0, 0, 0, 0>>)}]]

MCReplies ==
  [kinds |-> {"PUBACK", "PUBREC", "PUBREL", "PUBCOMP"}, reasons |-> {<<>>, <<0>>, <<16>>},
   menu |-> {P(Id.REASON_STRING, <<114>>), UserPair, P(Id.TOPIC_ALIAS, <<0, 1>>)}]

MCPacketId == <<1, 0>>
MCNames == SeqOf({97, Slash}, 3) \cup SeqOf({97, Slash, Dollar}, 2)
MCFilters == SeqOf({97, Slash, Plus, Hash, Dollar}, 3) \cup
             {<<Plus, Slash>> \o f : f \in {g \in SeqOf({97, Slash, Plus, Hash}, 2) : Len(g) = 2}}
=============================================================================
