--------------------------- MODULE PropertyChecks ---------------------------
(***************************************************************************)
(* The walks over a property section that say whether a packet may carry   *)
(* it: of what the application is about to send (validate.rs,              *)
(* disconnect.rs), of what the broker has sent (connack.rs, ack.rs,        *)
(* publish.rs, disconnect.rs), and the one that keeps what a CONNECT asks  *)
(* for (context.rs).  Each stops at the first item that is at fault.       *)
(***************************************************************************)
EXTENDS PropertySection

\* What every walk holds against item i: an identifier it does not know, a
\* repeat of one that may come once, a value that cannot be read.
ItemFault(items, i, known, once, unknown, repeated) ==
  CASE items[i].id \notin known -> unknown
    [] items[i].id \in once /\ \E j \in 1..(i - 1) : items[j].id = items[i].id -> repeated
    [] ~items[i].ok -> "BadResponse"
    [] OTHER -> "Ok"

FirstFault(items, Fault(_, _)) ==
  LET faults == {i \in DOMAIN items : Fault(items, i) # "Ok"}
  IN  IF faults = {} THEN "Ok" ELSE Fault(items, Min(faults))

Or(status, bad, fault) == IF status = "Ok" /\ bad THEN fault ELSE status

Has(items, id) == \E i \in DOMAIN items : items[i].id = id
ValueOf(items, id) == items[Max({i \in DOMAIN items : items[i].id = id})].value[1]

NotBoolean(item) == item.value[1][1] > 1
ReaderTakes(section) == Len(section) < LengthLimit

---------------------------------------------------------------------------
(* Before sending. *)

ConnectIds == {Id.SESSION_EXPIRY, Id.RECEIVE_MAX, Id.MAX_PACKET_SIZE, Id.TOPIC_ALIAS_MAX,
               Id.REQUEST_RESPONSE, Id.REQUEST_PROBLEM, Id.AUTH_METHOD, Id.AUTH_DATA,
               Id.USER_PROPERTY}

\* validate_connect_properties
CheckConnect(section) ==
  LET items == Items(section)
      Fault(s, i) ==
        Or(ItemFault(s, i, ConnectIds, ConnectIds \ {Id.USER_PROPERTY}, "BadResponse", "BadResponse"),
           \/ s[i].id \in {Id.RECEIVE_MAX, Id.MAX_PACKET_SIZE} /\ IsZero(s[i].value[1])
           \/ s[i].id \in {Id.REQUEST_RESPONSE, Id.REQUEST_PROBLEM} /\ NotBoolean(s[i]),
           "BadResponse")
  IN  IF ~ReaderTakes(section) THEN "BadParameter"
      ELSE Or(FirstFault(items, Fault),
              Has(items, Id.AUTH_DATA) /\ ~Has(items, Id.AUTH_METHOD), "BadParameter")

WillIds == {Id.WILL_DELAY, Id.PAYLOAD_FORMAT, Id.MESSAGE_EXPIRY, Id.CONTENT_TYPE,
            Id.RESPONSE_TOPIC, Id.CORRELATION_DATA, Id.USER_PROPERTY}

\* validate_will_properties
CheckWill(section) ==
  LET Fault(s, i) ==
        Or(ItemFault(s, i, WillIds, WillIds \ {Id.USER_PROPERTY}, "BadResponse", "BadResponse"),
           s[i].id = Id.PAYLOAD_FORMAT /\ NotBoolean(s[i]), "BadResponse")
  IN  IF ~ReaderTakes(section) THEN "BadParameter" ELSE FirstFault(Items(section), Fault)

\* validate_subscribe_properties
CheckSubscribe(available, section) ==
  LET Fault(s, i) ==
        Or(ItemFault(s, i, {Id.SUBSCRIPTION_ID, Id.USER_PROPERTY}, {Id.SUBSCRIPTION_ID},
                     "BadParameter", "BadParameter"),
           s[i].id = Id.SUBSCRIPTION_ID /\ (~available \/ IsZero(s[i].value[1])), "BadParameter")
  IN  IF ~ReaderTakes(section) THEN "BadParameter" ELSE FirstFault(Items(section), Fault)

\* validate_unsubscribe_properties
CheckUnsubscribe(section) ==
  LET Fault(s, i) == ItemFault(s, i, {Id.USER_PROPERTY}, {}, "BadParameter", "BadParameter")
  IN  IF ~ReaderTakes(section) THEN "BadParameter" ELSE FirstFault(Items(section), Fault)

PublishIds == {Id.PAYLOAD_FORMAT, Id.MESSAGE_EXPIRY, Id.CONTENT_TYPE, Id.RESPONSE_TOPIC,
               Id.CORRELATION_DATA, Id.TOPIC_ALIAS, Id.USER_PROPERTY}

AliasTooLarge(alias, maximum) == alias > maximum

\* validate_publish_properties: only the alias may not repeat.
CheckPublish(aliasMax, section) ==
  LET Fault(s, i) ==
        Or(ItemFault(s, i, PublishIds, {Id.TOPIC_ALIAS}, "BadParameter", "BadResponse"),
           s[i].id = Id.TOPIC_ALIAS
             /\ AliasTooLarge(TwoByteNumber(s[i].value[1]), aliasMax), "BadParameter")
  IN  IF ~ReaderTakes(section) THEN "BadParameter" ELSE FirstFault(Items(section), Fault)

\* validate_publish_ack_properties
CheckPublishAck(section) ==
  LET Fault(s, i) == ItemFault(s, i, {Id.REASON_STRING, Id.USER_PROPERTY}, {Id.REASON_STRING},
                               "BadParameter", "BadResponse")
  IN  IF ~ReaderTakes(section) THEN "BadParameter" ELSE FirstFault(Items(section), Fault)

\* validate_outgoing_properties: nothing is refused for repeating.
CheckDisconnect(sessionExpiry, section) ==
  LET Fault(s, i) ==
        Or(ItemFault(s, i, {Id.SESSION_EXPIRY, Id.REASON_STRING, Id.USER_PROPERTY}, {},
                     "BadParameter", "BadParameter"),
           s[i].id = Id.SESSION_EXPIRY /\ sessionExpiry = 0 /\ ~IsZero(s[i].value[1]),
           "BadParameter")
  IN  FirstFault(Items(section), Fault)

---------------------------------------------------------------------------
(* What a CONNECT asks for. *)

ContextIds == {Id.SESSION_EXPIRY, Id.RECEIVE_MAX, Id.MAX_PACKET_SIZE, Id.TOPIC_ALIAS_MAX}

\* update_with_connect_props' verdict.
CheckContext(section) ==
  LET Fault(s, i) == ItemFault(s, i, ConnectIds, ContextIds, "BadParameter", "BadResponse")
  IN  IF Len(section) >= LengthLimit THEN "BadParameter" ELSE FirstFault(Items(section), Fault)

NumberOf(id, value) == IF id \in FourBytes THEN FourByteNumber(value)
                       ELSE IF id \in TwoBytes THEN TwoByteNumber(value) ELSE value[1]

\* What a section says of id; what it does not mention stays as it was.
Now(items, id, old) == IF Has(items, id) THEN NumberOf(id, ValueOf(items, id)) ELSE old

\* What update_with_connect_props keeps of a section without fault.
AfterConnect(connection, section) ==
  LET items == Items(section)
  IN  [connection EXCEPT
         !.session_expiry = Now(items, Id.SESSION_EXPIRY, @),
         !.client.receive_max = Now(items, Id.RECEIVE_MAX, @),
         !.client.max_packet_size = Now(items, Id.MAX_PACKET_SIZE, @),
         !.client.topic_alias_max = Now(items, Id.TOPIC_ALIAS_MAX, @)]

---------------------------------------------------------------------------
(* What the broker has sent: every refusal is a BadResponse. *)

ConnackIds == Allowed("CONNACK")

\* walk_connack_properties.  Response information must have been asked for.
CheckConnack(section, asksResponse) ==
  LET Fault(s, i) ==
        Or(ItemFault(s, i, ConnackIds, ConnackIds \ {Id.USER_PROPERTY}, "BadResponse", "BadResponse"),
           \/ s[i].id \in {Id.RECEIVE_MAX, Id.MAX_PACKET_SIZE} /\ IsZero(s[i].value[1])
           \/ s[i].id \in Booleans /\ NotBoolean(s[i])
           \/ s[i].id = Id.RESPONSE_INFO /\ ~asksResponse,
           "BadResponse")
  IN  FirstFault(Items(section), Fault)

\* walk_ack_properties
CheckIncomingAck(section) ==
  LET Fault(s, i) == ItemFault(s, i, {Id.REASON_STRING, Id.USER_PROPERTY}, {Id.REASON_STRING},
                               "BadResponse", "BadResponse")
  IN  FirstFault(Items(section), Fault)

\* walk_publish_properties: a subscription identifier may repeat, of any value.
CheckIncomingPublish(section, aliasMax) ==
  LET items == Items(section)
      known == PublishIds \cup {Id.SUBSCRIPTION_ID}
      Fault(s, i) ==
        Or(ItemFault(s, i, known, known \ {Id.USER_PROPERTY, Id.SUBSCRIPTION_ID},
                     "BadResponse", "BadResponse"),
           \/ s[i].id = Id.PAYLOAD_FORMAT /\ NotBoolean(s[i])
           \/ s[i].id = Id.TOPIC_ALIAS /\ IsZero(s[i].value[1]),
           "BadResponse")
      walked == FirstFault(items, Fault)
  IN  Or(walked, walked = "Ok" /\ Has(items, Id.TOPIC_ALIAS)
                   /\ AliasTooLarge(TwoByteNumber(ValueOf(items, Id.TOPIC_ALIAS)), aliasMax),
         "BadResponse")

\* walk_incoming_properties of a DISCONNECT.
CheckIncomingDisconnect(section) ==
  LET Fault(s, i) ==
        ItemFault(s, i, {Id.REASON_STRING, Id.SERVER_REFERENCE, Id.USER_PROPERTY},
                  {Id.REASON_STRING, Id.SERVER_REFERENCE}, "BadResponse", "BadResponse")
  IN  FirstFault(Items(section), Fault)

\* apply_connack
AfterConnack(connection, section) ==
  LET items == Items(section)
  IN  [connection EXCEPT
         !.session_expiry = Now(items, Id.SESSION_EXPIRY, @),
         !.server.receive_max = Now(items, Id.RECEIVE_MAX, @),
         !.server.max_qos = Now(items, Id.MAX_QOS, @),
         !.server.retain_available = Now(items, Id.RETAIN_AVAILABLE, @),
         !.server.max_packet_size = Now(items, Id.MAX_PACKET_SIZE, @),
         !.server.topic_alias_max = Now(items, Id.TOPIC_ALIAS_MAX, @),
         !.server.wildcard_available = Now(items, Id.WILDCARD_AVAILABLE, @),
         !.server.subscription_id_available = Now(items, Id.SUBSCRIPTION_ID_AVAILABLE, @),
         !.server.shared_available = Now(items, Id.SHARED_SUB_AVAILABLE, @),
         !.server.keep_alive = Now(items, Id.SERVER_KEEP_ALIVE, @)]
=============================================================================
