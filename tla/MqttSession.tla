---------------------------- MODULE MqttSession ----------------------------
(***************************************************************************)
(* The client's publish handshakes end to end: the calls and the receive   *)
(* loop of client.rs, loop_.rs and session.rs over the records of          *)
(* PublishState, with the three parties around them: an application, which *)
(* calls the API and owns the retransmit store; a connection, which drops  *)
(* and loses what is on it; and a broker, which keeps its half of the      *)
(* session across connections as MQTT 5 asks.                              *)
(*                                                                         *)
(* One API call, and the handling of one received packet, is one step: the *)
(* context is behind a mutable reference, so nothing else of the client    *)
(* runs meanwhile.  Bytes are abstracted to whole packets, and a packet to *)
(* its type, its id and its QoS.                                           *)
(*                                                                         *)
(* A send fails in two ways: the transport reports it, and the connection  *)
(* is on its way down; or it times out, and the connection is left up.     *)
(* Either way none of the packet is on the wire.  A packet cut short by a  *)
(* timeout, with the rest of the connection behind it, is covered as far   *)
(* as the broker reads nothing more until the connection ends: that is     *)
(* toBroker left as it is and then a Drop.  A broker that takes the bytes  *)
(* of the next packet for the rest of this one is not modelled.            *)
(***************************************************************************)
EXTENDS PublishState, Sequences, SequencesExt

CONSTANTS
  OutSlots, InSlots,  \* the record arrays the application supplies
  HasStore,           \* a retransmit store is passed to every call
  OutQoS, InQoS,      \* the QoS the application, and the broker, publish with
  InQuota,            \* the Receive Maximum the client announces
  ReceiveMaxes,       \* the ones a CONNACK may announce
  Allowed,            \* which of Liberties the environment may make
  MaxFaults,          \* how many faults a behaviour may have ...
  CountFaults,        \* ... if they are counted at all
  MaxOnWire           \* no new PUBLISH while this many packets are unread, either way

Liberties == {"SendFails", "SendTimesOut", "StoreRefuses", "HandlerRefuses", "LoopsWhilePending",
              "CleanSession", "Cancels"}

ASSUME SessionAssumption ==
  /\ OutSlots \in Nat /\ InSlots \in Nat /\ InQuota \in Nat \ {0}
  /\ ReceiveMaxes \subseteq Nat \ {0} /\ MaxFaults \in Nat /\ MaxOnWire \in Nat
  /\ HasStore \in BOOLEAN /\ CountFaults \in BOOLEAN
  /\ OutQoS \subseteq {1, 2} /\ InQoS \subseteq {1, 2} /\ Allowed \subseteq Liberties

VARIABLES
  status,       \* connect_status
  outgoing, incoming,
  keptPublish,  \* the ids the store holds a PUBLISH for
  keptAck,      \* what it holds under incoming_key: "PubRec", "PubRel" or "None"
  owed,         \* without a store: the PUBLISHes the application has yet to repeat
  linkUp, toBroker, toClient,
  brokerIn,     \* the broker's side: QoS 2 ids forwarded and not yet released
  brokerOut,    \* and what it has published and not seen completed, in order
  faults,
  onward,       \* how often the broker forwarded the message now under this id
  told,         \* how often the application was handed the one it received
  late          \* the ids whose publish answered an error on a connection left up

store  == <<keptPublish, keptAck>>
broker == <<brokerIn, brokerOut>>
vars   == <<status, outgoing, incoming, store, owed, linkUp, toBroker, toClient,
            broker, faults, onward, told, late>>

Packet(type, id, qos) == [type |-> type, id |-> id, qos |-> qos]

May(choice) == choice \in Allowed

\* A fault is a lost connection, a failed send, or a disconnection.
CanFail == faults < MaxFaults
Fail(failed) == faults' = IF failed /\ CountFaults THEN faults + 1 ELSE faults

Once(count, id) == [count EXCEPT ![id] = IF @ < 2 THEN @ + 1 ELSE 2]

\* What the wire to the broker holds after sending: a lost connection takes
\* the bytes and says nothing.
OnWire(packets) == IF linkUp THEN toBroker \o packets ELSE toBroker

Init ==
  /\ status = "NotConnected"
  /\ outgoing = [i \in 1..OutSlots |-> Empty]
  /\ incoming = [i \in 1..InSlots |-> Empty]
  /\ keptPublish = {} /\ keptAck = [id \in PacketIds |-> "None"]
  /\ owed = {}
  /\ linkUp = FALSE /\ toBroker = <<>> /\ toClient = <<>>
  /\ brokerIn = {} /\ brokerOut = <<>>
  /\ faults = 0
  /\ onward = [id \in PacketIds |-> 0] /\ told = [id \in PacketIds |-> 0]
  /\ late = {}

---------------------------------------------------------------------------
(* The application's calls. *)

\* Slip: a repeat is an error like any other.
Slip_Tolerated(answer, dup) == answer = "Ok"

\* A repeat tolerates the collision with the record of the first attempt.
Tolerated(answer, dup) == answer = "Ok" \/ (dup /\ answer = "StateCollision")

\* publish: reserve, keep a copy, send, and only then note that it is sent.
\* An error leaves everything before it done; a send that times out leaves the
\* connection as well, and without a store the application then owes the repeat.
Publish(id, qos, dup) ==
  LET kept   == IF HasStore THEN keptPublish \cup {id} ELSE keptPublish
      repaid == IF dup THEN owed \ {id} ELSE owed
      anew   == IF dup THEN late ELSE late \ {id}
  IN  \E reserved \in {ReserveState(outgoing, id, qos)} :
      /\ status = "Connected"
      /\ \/ /\ ~Tolerated(reserved.status, dup)
            /\ outgoing' = reserved.records
            /\ owed' = repaid
            /\ UNCHANGED <<status, store, toBroker, faults, onward, late>>
         \/ /\ Tolerated(reserved.status, dup)
            /\ onward' = IF dup THEN onward ELSE [onward EXCEPT ![id] = 0]
            /\ UNCHANGED keptAck
            /\ \/ /\ HasStore /\ May("StoreRefuses")
                  /\ outgoing' = reserved.records
                  /\ owed' = repaid /\ late' = late \cup {id}
                  /\ UNCHANGED <<status, keptPublish, toBroker, faults>>
               \/ /\ May("SendTimesOut") /\ CanFail /\ Fail(TRUE)
                  /\ keptPublish' = kept
                  /\ outgoing' = reserved.records
                  /\ owed' = IF HasStore THEN owed ELSE owed \cup {id}
                  /\ late' = late \cup {id}
                  /\ UNCHANGED <<status, toBroker>>
               \/ /\ May("SendFails") /\ CanFail /\ Fail(TRUE)
                  /\ keptPublish' = kept
                  /\ outgoing' = reserved.records
                  /\ status' = "DisconnectPending"
                  /\ owed' = repaid /\ late' = anew
                  /\ UNCHANGED toBroker
               \/ /\ keptPublish' = kept
                  /\ outgoing' = UpdatePublishSend(reserved.records, id, qos).records
                  /\ toBroker' = OnWire(<<Packet("Publish", id, qos)>>)
                  /\ owed' = repaid /\ late' = anew
                  /\ UNCHANGED <<status, faults>>
      /\ UNCHANGED <<incoming, linkUp, toClient, broker, told>>

\* An id is as next_packet_id gives it: it may still be in flight.
PublishNew ==
  /\ Len(toBroker) + Len(toClient) < MaxOnWire
  /\ \E id \in PacketIds, qos \in OutQoS : Publish(id, qos, FALSE)

\* Without a store the application repeats what publish_to_resend names, in
\* the order of its cursor, and a publish of its own that timed out.
PublishAgain ==
  \E i \in Occupied(outgoing) :
    /\ outgoing[i].packet_id \in owed
    /\ \A j \in Occupied(outgoing) : outgoing[j].packet_id \in owed => i <= j
    /\ Publish(outgoing[i].packet_id, outgoing[i].qos, TRUE)

\* cancel_callback: the record goes, whatever is stored or on the wire stays.
Cancel(id) ==
  /\ May("Cancels")
  /\ RemoveState(outgoing, id).status = "Ok"
  /\ outgoing' = RemoveState(outgoing, id).records
  /\ owed' = owed \ {id}
  /\ UNCHANGED <<status, incoming, store, linkUp, toBroker, toClient, broker,
                 faults, onward, told, late>>

\* The connection goes, and with it everything sent and not yet read.
Unplugged == linkUp' = FALSE /\ toBroker' = <<>> /\ toClient' = <<>>

\* The loop has a packet of these types at the front of its buffer.
Receiving(types) ==
  /\ linkUp /\ toClient # <<>>
  /\ Head(toClient).type \in types
  /\ \/ status = "Connected"
     \/ status = "DisconnectPending" /\ May("LoopsWhilePending")

\* What the records say of an acknowledgement that arrives.
AckAnswer(p) ==
  UpdateAckIn(IF IsPublishOutgoing(p.type, "Receive") THEN outgoing ELSE incoming,
              p.id, p.type, "Receive").status

\* The loop refuses what is at the front of the buffer, and will for ever.
Refused ==
  LET p == Head(toClient)
  IN  \/ Receiving(AckTypes) /\ AckAnswer(p) # "Ok"
      \/ Receiving({"Publish"})
         /\ ~Tolerated(UpdatePublishReceive(incoming, p.id, p.qos).status, TRUE)

\* disconnect, followed by the application closing the transport.  It refuses
\* only NotConnected, and is how DisconnectPending is left, and a connection
\* whose loop answers nothing but the same error.
Disconnect ==
  /\ \/ status = "Connected" /\ CanFail /\ Fail(TRUE)
     \/ status = "Connected" /\ Refused /\ Fail(FALSE)
     \/ status = "DisconnectPending" /\ Fail(FALSE)
  /\ status' = "NotConnected"
  /\ Unplugged
  /\ UNCHANGED <<outgoing, incoming, store, owed, broker, onward, told, late>>

---------------------------------------------------------------------------
(* connect. *)

InState(records, wanted) == {i \in DOMAIN records : records[i].state \in wanted}

\* The ids the resend cursor answers, in array order (PublishRecords checks
\* that the cursor answers exactly these: SweepsComplete).
Owed(records, wanted) ==
  LET slots == InState(records, wanted)
      nth(k) == CHOOSE i \in slots : Cardinality({j \in slots : j <= i}) = k
  IN  [k \in 1..Cardinality(slots) |-> records[nth(k)].packet_id]

\* handle_clean_session: the stored PUBLISHes in flight are forgotten, both
\* arrays zeroed.  The loop that should forget the stored PUBRELs reads the
\* array that has just been zeroed.
CleanSession(capped) ==
  /\ keptPublish' =
       IF HasStore THEN keptPublish \ Range(Owed(capped, PublishToResendStates))
                   ELSE keptPublish
  /\ outgoing' = Clear(capped)
  /\ incoming' = Clear(CapTo(incoming, InQuota))
  /\ owed' = {}
  /\ brokerIn' = {} /\ brokerOut' = <<>> /\ toClient' = <<>>
  /\ status' = "Connected" /\ toBroker' = <<>> /\ Fail(FALSE)
  /\ UNCHANGED keptAck

\* Slip: the PUBRELs go out and the records do not move.
Slip_Released(records, ids) == records

\* send_publish_acks for the first k PUBRELs: there the records do advance.
Released(records, ids) ==
  [i \in DOMAIN records |->
     IF records[i].packet_id \in Range(ids)
     THEN [records[i] EXCEPT !.state = "PubCompPending"] ELSE records[i]]

\* handle_unclean_session: the PUBRELs, then with a store the PUBLISHes.  With
\* a store each comes out of it, or the whole call fails there, and no record
\* changes; without one, PUBRELs are built afresh and noted as sent.  However
\* a send fails here, connect leaves the connection on its way down.
Resumption(capped) ==
  LET rels == Owed(capped, PubRelToResendStates)
      pubs == IF HasStore THEN Owed(capped, PublishToResendStates) ELSE <<>>
      rel(id) == Packet(IF HasStore THEN keptAck[id] ELSE "PubRel", id, 0)
      pub(id) == Packet("Publish", id, RecordOf(capped, id).qos)
      plan == [k \in DOMAIN rels |-> rel(rels[k])] \o [k \in DOMAIN pubs |-> pub(pubs[k])]
      missing == {k \in DOMAIN plan : \/ plan[k].type = "None"
                                      \/ plan[k].type = "Publish" /\ plan[k].id \notin keptPublish}
      reach == IF missing = {} THEN Len(plan) ELSE Min(missing) - 1
  IN  \E sent \in 0..reach :
        /\ sent < reach => CanFail /\ (May("SendFails") \/ May("SendTimesOut"))
        /\ Fail(sent < reach)
        /\ toBroker' = SubSeq(plan, 1, sent)
        /\ status' = IF sent = Len(plan) THEN "Connected" ELSE "DisconnectPending"
        /\ outgoing' = IF HasStore THEN capped
                       ELSE Released(capped, SubSeq(rels, 1, sent))
        /\ incoming' = CapTo(incoming, InQuota)
        /\ owed' = IF HasStore THEN {} ELSE Range(Owed(capped, PublishToResendStates))
        \* The broker repeats its own half at once.
        /\ toClient' = [k \in DOMAIN brokerOut |->
             Packet(brokerOut[k].phase, brokerOut[k].id,
                    IF brokerOut[k].phase = "PubRel" THEN 0 ELSE brokerOut[k].qos)]
        /\ UNCHANGED <<store, broker>>

\* CONNECT out, CONNACK in, arrays capped, then one of the two session paths.
Connect ==
  /\ status = "NotConnected"
  /\ linkUp' = TRUE
  /\ \E max \in ReceiveMaxes :
       \/ May("CleanSession") /\ CleanSession(CapTo(outgoing, max))
       \/ Resumption(CapTo(outgoing, max))
  /\ UNCHANGED <<onward, told, late>>

---------------------------------------------------------------------------
(* The receive loop: the packet at the front of the buffer.  A handler that *)
(* answers an error leaves it there.                                        *)

\* Slip: sent first, kept afterwards.
Slip_AckOutcomes(records, acks, id, ack) ==
  LET kept  == IF HasStore /\ ack \in {"PubRec", "PubRel"}
               THEN [acks EXCEPT ![id] = ack] ELSE acks
      noted == UpdateAckIn(records, id, ack, "Send")
  IN  {[records |-> noted.records, acks |-> kept, status |-> status,
        sent |-> <<Packet(ack, id, 0)>>, done |-> noted.status = "Ok", failed |-> FALSE]}
      \cup (IF May("SendFails") /\ CanFail
            THEN {[records |-> records, acks |-> acks, status |-> "DisconnectPending",
                   sent |-> <<>>, done |-> FALSE, failed |-> TRUE]} ELSE {})
      \cup (IF May("SendTimesOut") /\ CanFail
            THEN {[records |-> records, acks |-> acks, status |-> status,
                   sent |-> <<>>, done |-> FALSE, failed |-> TRUE]} ELSE {})

\* What sending an acknowledgement may come to: the connection is asked for
\* first, then a PUBREC or PUBREL is kept, then sent, and only then noted.
AckOutcomes(records, acks, id, ack) ==
  LET keeps == HasStore /\ ack \in {"PubRec", "PubRel"}
      kept  == IF keeps THEN [acks EXCEPT ![id] = ack] ELSE acks
      noted == UpdateAckIn(records, id, ack, "Send")
      unsent(acks2, status2, failed) ==
        [records |-> records, acks |-> acks2, status |-> status2, sent |-> <<>>,
         done |-> FALSE, failed |-> failed]
  IN  IF status # "Connected" THEN {unsent(acks, status, FALSE)}
      ELSE {[records |-> noted.records, acks |-> kept, status |-> status,
             sent |-> <<Packet(ack, id, 0)>>, done |-> noted.status = "Ok",
             failed |-> FALSE]}
           \cup (IF keeps /\ May("StoreRefuses")
                 THEN {unsent(acks, status, FALSE)} ELSE {})
           \cup (IF May("SendFails") /\ CanFail
                 THEN {unsent(kept, "DisconnectPending", TRUE)} ELSE {})
           \cup (IF May("SendTimesOut") /\ CanFail
                 THEN {unsent(kept, status, TRUE)} ELSE {})

Answered(outcome) ==
  /\ keptAck' = outcome.acks
  /\ status' = outcome.status
  /\ Fail(outcome.failed)
  /\ toBroker' = OnWire(outcome.sent)
  /\ toClient' = IF outcome.done THEN Tail(toClient) ELSE toClient

\* Slip: every arrival is told.
Slip_TellsApplication(answer, qos) == TRUE

\* A duplicate is told to the application again at QoS 1 only.
TellsApplication(answer, qos) == answer = "Ok" \/ qos = 1

\* handle_incoming_publish.  A record that is there already is a duplicate, and
\* acknowledged again.
HandlePublish ==
  /\ Receiving({"Publish"})
  /\ \E received \in {UpdatePublishReceive(incoming, Head(toClient).id, Head(toClient).qos)} :
     LET p    == Head(toClient)
         tell == TellsApplication(received.status, p.qos)
         ack  == IF p.qos = 1 THEN "PubAck" ELSE "PubRec"
     IN  \/ /\ ~Tolerated(received.status, TRUE)
            /\ incoming' = received.records
            /\ UNCHANGED <<status, store, toBroker, toClient, faults, told>>
         \/ /\ Tolerated(received.status, TRUE)
            /\ tell /\ May("HandlerRefuses")
            /\ incoming' = received.records
            /\ told' = Once(told, p.id)
            /\ UNCHANGED <<status, store, toBroker, toClient, faults>>
         \/ /\ Tolerated(received.status, TRUE)
            /\ told' = IF tell THEN Once(told, p.id) ELSE told
            /\ \E outcome \in AckOutcomes(received.records, keptAck, p.id, ack) :
                 incoming' = outcome.records /\ Answered(outcome)
            /\ UNCHANGED keptPublish
  /\ UNCHANGED <<outgoing, owed, linkUp, broker, onward, late>>

\* Which array an acknowledgement is about gets the new records.
Install(ack, records) ==
  /\ outgoing' = IF IsPublishOutgoing(ack, "Receive") THEN records ELSE outgoing
  /\ incoming' = IF IsPublishOutgoing(ack, "Receive") THEN incoming ELSE records

\* What the store is told to forget: a PUBACK and a PUBREC end the need for
\* the PUBLISH, a PUBCOMP and a PUBREL for what incoming_key holds.
StillKeptPublish(id, ack) ==
  IF HasStore /\ ack \in {"PubAck", "PubRec"} THEN keptPublish \ {id} ELSE keptPublish

\* Slip: a PUBREL releases nothing.
Slip_StillKeptAck(id, ack) ==
  IF HasStore /\ ack = "PubComp" THEN [keptAck EXCEPT ![id] = "None"] ELSE keptAck

StillKeptAck(id, ack) ==
  IF HasStore /\ ack \in {"PubComp", "PubRel"} THEN [keptAck EXCEPT ![id] = "None"] ELSE keptAck

\* handle_publish_acks.  The record moves and the store forgets before the
\* application is asked; a PUBREC and a PUBREL are then answered.
HandlePublishAck ==
  /\ Receiving(AckTypes)
  /\ LET p       == Head(toClient)
         records == IF IsPublishOutgoing(p.type, "Receive") THEN outgoing ELSE incoming
         acks    == StillKeptAck(p.id, p.type)
     IN  \E received \in {UpdateAckIn(records, p.id, p.type, "Receive")} :
         \/ /\ received.status # "Ok"
            /\ Install(p.type, received.records)
            /\ UNCHANGED <<status, store, toBroker, toClient, faults>>
         \/ /\ received.status = "Ok"
            /\ keptPublish' = StillKeptPublish(p.id, p.type)
            /\ \/ /\ May("HandlerRefuses")
                  /\ Install(p.type, received.records)
                  /\ keptAck' = acks
                  /\ UNCHANGED <<status, toBroker, toClient, faults>>
               \/ /\ p.type \in {"PubAck", "PubComp"}
                  /\ Install(p.type, received.records)
                  /\ keptAck' = acks
                  /\ toClient' = Tail(toClient)
                  /\ UNCHANGED <<status, toBroker, faults>>
               \/ /\ p.type \in {"PubRec", "PubRel"}
                  /\ \E outcome \in AckOutcomes(received.records, acks, p.id,
                                      IF p.type = "PubRec" THEN "PubRel" ELSE "PubComp") :
                       Install(p.type, outcome.records) /\ Answered(outcome)
  /\ UNCHANGED <<owed, linkUp, broker, onward, told, late>>

\* handle_incoming_disconnect, once everything before it has been handled.
HandleDisconnect ==
  /\ status = "Connected" /\ linkUp /\ toClient = <<>>
  /\ CanFail /\ Fail(TRUE)
  /\ status' = "NotConnected"
  /\ Unplugged
  /\ UNCHANGED <<outgoing, incoming, store, owed, broker, onward, told, late>>

\* recv fails.
NoticeDrop ==
  /\ status = "Connected" /\ ~linkUp
  /\ status' = "DisconnectPending"
  /\ UNCHANGED <<outgoing, incoming, store, owed, linkUp, toBroker, toClient,
                 broker, faults, onward, told, late>>

---------------------------------------------------------------------------
(* The connection and the broker: not in this repository. *)

Drop ==
  /\ linkUp /\ CanFail /\ Fail(TRUE)
  /\ Unplugged
  /\ UNCHANGED <<status, outgoing, incoming, store, owed, broker, onward, told, late>>

BrokerIds == {brokerOut[k].id : k \in DOMAIN brokerOut}

BrokerPublish(id, qos) ==
  /\ linkUp
  /\ id \notin BrokerIds /\ Len(brokerOut) < InQuota
  /\ brokerOut' = Append(brokerOut, [id |-> id, qos |-> qos, phase |-> "Publish"])
  /\ toClient' = Append(toClient, Packet("Publish", id, qos))
  /\ told' = [told EXCEPT ![id] = 0]
  /\ UNCHANGED <<status, outgoing, incoming, store, owed, linkUp, toBroker,
                 brokerIn, faults, onward, late>>

\* The receiver's half of the broker: QoS 2 is forwarded once per release.
BrokerReceives(p) ==
  \/ /\ p.type = "Publish"
     /\ brokerIn' = IF p.qos = 2 THEN brokerIn \cup {p.id} ELSE brokerIn
     /\ onward' = IF p.qos = 2 /\ p.id \in brokerIn THEN onward ELSE Once(onward, p.id)
     /\ toClient' = Append(toClient, Packet(IF p.qos = 1 THEN "PubAck" ELSE "PubRec", p.id, 0))
     /\ UNCHANGED brokerOut
  \/ /\ p.type = "PubRel"
     /\ brokerIn' = brokerIn \ {p.id}
     /\ toClient' = Append(toClient, Packet("PubComp", p.id, 0))
     /\ UNCHANGED <<brokerOut, onward>>

\* The sender's half.
BrokerIsAnswered(p) ==
  LET mine(e) == e.id = p.id /\ (p.type = "PubAck") = (e.qos = 1)
  IN  \/ /\ p.type = "PubRec"
         /\ brokerOut' = [k \in DOMAIN brokerOut |->
              IF mine(brokerOut[k]) THEN [brokerOut[k] EXCEPT !.phase = "PubRel"]
                                    ELSE brokerOut[k]]
         /\ toClient' = IF p.id \in BrokerIds
                        THEN Append(toClient, Packet("PubRel", p.id, 0)) ELSE toClient
         /\ UNCHANGED <<brokerIn, onward>>
      \/ /\ p.type \in {"PubAck", "PubComp"}
         /\ \/ \E k \in DOMAIN brokerOut :
                 mine(brokerOut[k]) /\ brokerOut' = RemoveAt(brokerOut, k)
            \/ (\A k \in DOMAIN brokerOut : ~mine(brokerOut[k])) /\ UNCHANGED brokerOut
         /\ UNCHANGED <<brokerIn, onward, toClient>>

BrokerStep ==
  /\ linkUp /\ toBroker # <<>>
  /\ BrokerReceives(Head(toBroker)) \/ BrokerIsAnswered(Head(toBroker))
  /\ toBroker' = Tail(toBroker)
  /\ UNCHANGED <<status, outgoing, incoming, store, owed, linkUp, faults, told, late>>

---------------------------------------------------------------------------
Receive == HandlePublish \/ HandlePublishAck

Next ==
  \/ PublishNew \/ PublishAgain \/ Connect \/ Disconnect
  \/ \E id \in PacketIds : Cancel(id)
  \/ HandlePublish \/ HandlePublishAck \/ HandleDisconnect \/ NoticeDrop
  \/ Drop \/ BrokerStep
  \/ \E id \in PacketIds, qos \in InQoS : BrokerPublish(id, qos)

Spec == Init /\ [][Next]_vars

\* The application runs the loop, closes what has failed, connects again and
\* repeats what it owes; the broker reads what reaches it.  Nothing obliges
\* anyone to publish, nor the connection to fail.
Fairness ==
  /\ WF_vars(Receive) /\ WF_vars(NoticeDrop) /\ WF_vars(BrokerStep)
  /\ WF_vars((status = "DisconnectPending" \/ Refused) /\ Disconnect)
  /\ WF_vars(Connect) /\ WF_vars(PublishAgain)

FairSpec == Spec /\ Fairness
---------------------------------------------------------------------------
(* Invariants. *)

Packets == [type : AckTypes \cup {"Publish"}, id : PacketIds, qos : QoS]

\* Type invariant.
TypeOK ==
  /\ status \in {"NotConnected", "Connected", "DisconnectPending"}
  /\ IsArray(outgoing, OutSlots) /\ IsArray(incoming, InSlots)
  /\ keptPublish \subseteq PacketIds
  /\ keptAck \in [PacketIds -> {"None", "PubRec", "PubRel"}]
  /\ owed \subseteq PacketIds
  /\ linkUp \in BOOLEAN /\ toBroker \in Seq(Packets) /\ toClient \in Seq(Packets)
  /\ brokerIn \subseteq PacketIds
  /\ brokerOut \in Seq([id : PacketIds, qos : {1, 2}, phase : {"Publish", "PubRel"}])
  /\ faults \in 0..MaxFaults
  /\ onward \in [PacketIds -> 0..2] /\ told \in [PacketIds -> 0..2]
  /\ late \subseteq PacketIds

InFlightIds(wanted) == {outgoing[i].packet_id : i \in InState(outgoing, wanted)}

\* A QoS 2 publish is forwarded at most once for as long as its record lives,
\* however often the connection drops and the session resends it, and by the
\* time a PUBREL is owed it has been forwarded (state.rs 532-575,
\* session.rs 455-546).
ExactlyOnceOut ==
  \A i \in Occupied(outgoing) : outgoing[i].qos = 2 =>
    /\ onward[outgoing[i].packet_id] < 2
    /\ outgoing[i].state \in PubRelToResendStates => onward[outgoing[i].packet_id] = 1

\* The application is handed a QoS 2 message at most once, even one it
\* refused, and any message at least once before the client acknowledges it:
\* the broker is never released from a message the application has not had
\* (loop_.rs 310-413).
AckedMeansTold ==
  \A k \in DOMAIN brokerOut :
    LET e == brokerOut[k]
    IN  /\ e.qos = 2 => told[e.id] < 2
        /\ \/ e.phase = "PubRel"
           \/ \E n \in DOMAIN toBroker : /\ toBroker[n].id = e.id
                                         /\ toBroker[n].type \in {"PubAck", "PubRec"}
           => told[e.id] > 0

\* Everything a resumed session will ask the store for is there, and is the
\* packet that is owed (client.rs 1700-1717, loop_.rs 780-784,
\* session.rs 477-546).
ResumeCanResend ==
  HasStore =>
    /\ InFlightIds(PublishToResendStates) \subseteq keptPublish
    /\ \A id \in InFlightIds(PubRelToResendStates) : keptAck[id] = "PubRel"

\* And the store holds nothing that is no longer in flight: what a handshake
\* keeps, its end clears (loop_.rs 450-458).
StoreIsReleased ==
  /\ keptPublish \subseteq InFlightIds(PublishToResendStates)
  /\ \A id \in PacketIds :
       /\ keptAck[id] = "PubRel" => id \in InFlightIds(PubRelToResendStates)
       /\ keptAck[id] = "PubRec" => id \in IdsIn(incoming)

\* Publishes of one QoS reach the broker's subscribers in the order they were
\* made: none has been forwarded while an earlier one, still in flight, has
\* not, unless the earlier one's own publish answered an error on a connection
\* it left up (state.rs 15-26, 316-361, client.rs 759-764, 854-859).
ForwardedInOrder ==
  \A i, j \in InState(outgoing, PublishToResendStates) :
    /\ i < j /\ outgoing[i].qos = outgoing[j].qos
    /\ onward[outgoing[j].packet_id] > 0 /\ outgoing[i].packet_id \notin late
    => onward[outgoing[i].packet_id] > 0

\* The acknowledgement the client is about to handle is one its records are
\* waiting for.  One they are not is never consumed, and nothing behind it in
\* the stream is ever reached (loop_.rs 183-198, 439-443).
AckAccepted == Receiving(AckTypes) => AckAnswer(Head(toClient)) = "Ok"

\* A broker that keeps to the client's Receive Maximum always finds a record
\* for the PUBLISH at the front of the buffer: one refused with NoMemory would
\* stay there, with the PUBREL that frees a slot behind it (loop_.rs 341-361).
RoomForIncoming ==
  Receiving({"Publish"}) =>
    UpdatePublishReceive(incoming, Head(toClient).id, Head(toClient).qos).status # "NoMemory"

---------------------------------------------------------------------------
(* Action and liveness properties. *)

\* A record that leaves while connected leaves because the broker has had the
\* message: the application is never told of a completion that did not happen
\* (loop_.rs 439-458, state.rs 532-575).
CompletedMeansForwarded ==
  [][ status # "NotConnected" =>
        \A id \in IdsIn(outgoing) \ IdsIn(outgoing') : onward[id] > 0 ]_vars

\* Once connections stop failing, every QoS 1 and 2 publish completes: the
\* resumed session, the broker's answers and the receive loop never wait for
\* each other for ever.
EveryPublishCompletes ==
  \A id \in PacketIds : id \in IdsIn(outgoing) ~> id \notin IdsIn(outgoing)

\* And everything the broker publishes is acknowledged through to the end.
EveryDeliveryCompletes ==
  \A id \in PacketIds : id \in BrokerIds ~> id \notin BrokerIds
=============================================================================
