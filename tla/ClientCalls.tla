---------------------------- MODULE ClientCalls ----------------------------
(***************************************************************************)
(* What the client checks before it writes a packet, and in which order    *)
(* (client.rs, session.rs, loop_.rs, validate.rs): each call answers a     *)
(* status and the gathers it pushes, none if it refuses.  The state of the *)
(* connection is ConnectionProperties (context.rs): what the CONNECT asked *)
(* for, and what the server has said it can do.                            *)
(***************************************************************************)
EXTENDS PacketReading

CONSTANTS
  NetworkSize,      \* bytes in the receive buffer
  AckCapacity,      \* bytes in the buffer of acknowledgement properties
  OutgoingRecords,  \* the client was given arrays of publish records
  IncomingRecords

\* ConnectionProperties::new.
InitialConnection ==
  [session_expiry |-> 0,
   client |-> [receive_max |-> 65535, max_packet_size |-> ContextMaxPacketSize,
               topic_alias_max |-> 0, request_response_info |-> FALSE,
               request_problem_info |-> TRUE],
   server |-> [receive_max |-> 65535, max_qos |-> 2, retain_available |-> 1,
               max_packet_size |-> ContextMaxPacketSize, topic_alias_max |-> 0,
               wildcard_available |-> 1, subscription_id_available |-> 1,
               shared_available |-> 1, keep_alive |-> 65535]]

Answer(status, gathers) == [status |-> status, gathers |-> gathers]
Refuse(status) == Answer(status, <<>>)

---------------------------------------------------------------------------
(* connect *)

\* The section an application's empty one is replaced with.
InventedSection == <<Id.MAX_PACKET_SIZE, 0, 0>> \o <<NetworkSize \div 256, NetworkSize % 256>>

\* connect, up to the CONNECT: what was learnt of the section is kept whether
\* or not the call goes on.
ConnectCall(connection, c, section) ==
  LET items    == Items(section)
      sent     == IF section = <<>> THEN InventedSection ELSE section
      learnt   == IF section = <<>> THEN [connection EXCEPT !.client.max_packet_size = NetworkSize]
                  ELSE [connection EXCEPT !.client.request_problem_info =
                          Now(items, Id.REQUEST_PROBLEM, 0) = 1]
      With(status, kept, gathers) ==
        [status |-> status, gathers |-> gathers, connection |-> kept]
  IN  IF \/ c.will # <<>> /\ c.will[1].section # <<>> /\ CheckWill(c.will[1].section) # "Ok"
         \/ section # <<>> /\ CheckConnect(section) # "Ok"
      THEN With("BadParameter", connection, <<>>)
      ELSE IF \/ section # <<>> /\ Now(items, Id.MAX_PACKET_SIZE, 0) > NetworkSize
              \/ ConnectSizeFault(c, sent)
              \/ CheckContext(sent) # "Ok"
      THEN With("BadParameter", learnt, <<>>)
      ELSE With("Ok", AfterConnect(learnt, sent), <<ConnectParts(c, sent)>>)

---------------------------------------------------------------------------
(* subscribe and unsubscribe *)

SharePrefix == <<36, 115, 104, 97, 114, 101, 47>>    \* "$share/"
HasWildcard(bytes) == Range(bytes) \cap Wildcards # {}

\* Slip: whether the server has shared subscriptions is not asked.
Slip_SharedFault(e, server) ==
  LET rest    == SubSeq(e.filter, Len(SharePrefix) + 1, Len(e.filter))
      slashes == {i \in DOMAIN rest : rest[i] = 47}
  IN  /\ Len(e.filter) > Len(SharePrefix) /\ IsPrefix(SharePrefix, e.filter)
      /\ \/ slashes = {}
         \/ Min(slashes) = 1
         \/ Min(slashes) = Len(rest)
         \/ e.no_local
         \/ HasWildcard(SubSeq(rest, 1, Min(slashes) - 1))

\* validate_shared: a share name, then a filter behind a slash.
SharedFault(e, server) ==
  LET rest    == SubSeq(e.filter, Len(SharePrefix) + 1, Len(e.filter))
      slashes == {i \in DOMAIN rest : rest[i] = 47}
  IN  /\ Len(e.filter) > Len(SharePrefix) /\ IsPrefix(SharePrefix, e.filter)
      /\ \/ slashes = {}
         \/ Min(slashes) = 1
         \/ e.no_local
         \/ server.shared_available = 0
         \/ Min(slashes) = Len(rest)
         \/ HasWildcard(SubSeq(rest, 1, Min(slashes) - 1))

\* validate_one
TopicFault(e, server, subscribing) ==
  \/ e.filter = <<>>
  \/ subscribing /\ ( \/ server.wildcard_available = 0 /\ HasWildcard(e.filter)
                      \/ SharedFault(e, server) )

\* validate_subscriptions: the verdict on the last entry is the verdict.
ListFault(list, id, server, subscribing) ==
  \/ list = <<>> \/ IsZero(id)
  \/ ~IncomingRecords /\ \E i \in DOMAIN list : list[i].qos > 0
  \/ TopicFault(list[Len(list)], server, subscribing)

\* send_list; its gathers have at most MaxVectors parts or are not sent.
ListCall(connection, list, id, section, subscribing) ==
  LET server == connection.server
      check  == IF section = <<>> THEN "Ok"
                ELSE IF subscribing
                THEN CheckSubscribe(server.subscription_id_available # 0, section)
                ELSE CheckUnsubscribe(section)
  IN  IF \/ ListFault(list, id, server, subscribing)
         \/ check # "Ok"
         \/ ListSizeFault(list, section, subscribing, server.max_packet_size)
      THEN Refuse("BadParameter")
      ELSE LET gathers == ListGathers(list, id, section, subscribing)
           IN  IF \E g \in DOMAIN gathers : Len(gathers[g]) > MaxVectors
               THEN Refuse("SendFailed") ELSE Answer("Ok", gathers)

---------------------------------------------------------------------------
(* publish *)

\* validate_publish_params: max_qos only tells QoS 0 from the others, and an
\* empty topic needs an alias.
PublishFault(p, server, section) ==
  LET alias == Now(Items(section), Id.TOPIC_ALIAS, 0)
  IN  \/ p.retain /\ server.retain_available = 0
      \/ p.qos > 0 /\ server.max_qos = 0
      \/ p.topic = <<>> /\ alias = 0
      \/ server.max_packet_size = 0

\* publish, but for its record (PublishState): the gather it pushes and, above
\* QoS 0, the copy it hands to the store first.
PublishCall(connection, p, id, section) ==
  LET server == connection.server
  IN  IF \/ HasId(p) /\ (IsZero(id) \/ ~OutgoingRecords)
         \/ section # <<>> /\ CheckPublish(server.topic_alias_max, section) # "Ok"
         \/ PublishFault(p, server, section)
         \/ PublishSizeFault(p, section, server.max_packet_size)
      THEN [status |-> "BadParameter", gathers |-> <<>>, copy |-> <<>>]
      ELSE LET parts == PublishParts(p, id, section)
           IN  [status |-> "Ok", gathers |-> <<parts>>,
                copy |-> IF HasId(p) THEN WithDup(parts) ELSE <<>>]

---------------------------------------------------------------------------
(* disconnect, and the acknowledgements *)

DisconnectCall(connection, reason, section) ==
  IF \/ reason = <<>> /\ section # <<>>
     \/ section # <<>> /\ CheckDisconnect(connection.session_expiry, section) # "Ok"
     \/ DisconnectSizeFault(reason, section, connection.server.max_packet_size)
  THEN Refuse("BadParameter")
  ELSE Answer("Ok", <<DisconnectParts(reason, section)>>)

\* Slip: what was sent stays in the buffer.
Slip_Emptied(waiting) == waiting

\* build_and_send_ack_with_props empties the buffer before it sends.
Emptied(waiting) == <<>>

AckAnswer(status, gathers, left) == [status |-> status, gathers |-> gathers, left |-> left]

\* send_publish_acks_without_property: four bytes.
BareAck(max, kind, id) ==
  IF max < 4 THEN AckAnswer("BadParameter", <<>>, <<>>)
  ELSE AckAnswer("Ok", <<<<SerializeAck(4, kind, id, <<>>, <<>>).bytes>>>>, <<>>)

\* send_publish_acks_with_property: a refusal leaves the properties waiting.
FullAck(max, kind, id, reason, waiting) ==
  IF \/ waiting # <<>> /\ CheckPublishAck(waiting) # "Ok"
     \/ reason = <<>>
     \/ ~AckReasonAllowed(kind, reason[1])
     \/ AckSizeFault(max, waiting)
  THEN AckAnswer("BadParameter", <<>>, waiting)
  ELSE AckAnswer("Ok", <<AckParts(kind, id, reason, waiting)>>, Emptied(waiting))

\* send_ack_for: `waiting` is what stands in the buffer of properties, from
\* this reply or from an earlier one that was never sent.
AckCall(connection, kind, id, reason, waiting) ==
  LET max == connection.server.max_packet_size
  IN  IF waiting = <<>> /\ reason = <<>> THEN BareAck(max, kind, id)
      ELSE FullAck(max, kind, id, reason, waiting)
=============================================================================
