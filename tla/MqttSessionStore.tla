-------------------------- MODULE MqttSessionStore --------------------------
(***************************************************************************)
(* What MqttSession keeps in the retransmit store, and what the handshakes *)
(* of an undisturbed connection wait for, proved for every array size,     *)
(* every set of packet ids and any number of packets on the wire: a        *)
(* resumed session finds in the store all that it asks for, and every      *)
(* answer that reaches the client is one a record is waiting for.          *)
(*                                                                         *)
(* The store's key of an acknowledgement says nothing of its direction, so *)
(* the theorem asks that QoS 2 goes one way only; the run                  *)
(* store_key_clash shows what happens otherwise.                           *)
(***************************************************************************)
EXTENDS MqttSessionHandshakes

---------------------------------------------------------------------------
(* What the theorems ask of the surroundings.                              *)

\* The store keeps what it is given, the application takes what it is handed
\* and closes a connection that failed without reading on.
Served == ~ May("StoreRefuses") /\ ~ May("HandlerRefuses") /\ ~ May("LoopsWhilePending")

\* QoS 2 is used in one direction only.
OneWayQoS2 == InQoS \subseteq {1} \/ OutQoS \subseteq {1}

---------------------------------------------------------------------------
(* One direction without QoS 2. *)

\* A packet that may be on each wire when the broker publishes nothing with
\* QoS 2, and what the broker may remember of its publishes.
ClientBound == {p \in Packets : p.type # "PubRel" /\ (p.type = "Publish" => p.qos = 1)}
BrokerBound == {p \in Packets : p.type # "PubRec"}
Remembered  == [id : PacketIds, qos : {1}, phase : {"Publish"}]

\* None is received: the client has no PUBREC to send, and none to keep.
NoneReceived ==
  /\ keptAck \in [PacketIds -> {"None", "PubRel"}] /\ brokerOut \in Seq(Remembered)
  /\ toClient \in Seq(ClientBound) /\ toBroker \in Seq(BrokerBound)

\* None is sent.
NoneSent == \A id \in IdsIn(outgoing) : RecordOf(outgoing, id).qos = 1

\* Without QoS 2 publishes from the broker, none is on its way, or asked for.
LEMMA InitReceived == Init => NoneReceived
<1>1. \A S : <<>> \in Seq(S) BY EmptySeq
<1> QED BY <1>1 DEF Init, NoneReceived

\* A handler that sends a PUBACK or a PUBREL leaves it so.
LEMMA AnsweredReceived ==
  ASSUME Inv, NoneReceived, toClient # <<>>, NEW records, NEW i \in PacketIds,
         NEW acks \in [PacketIds -> {"None", "PubRel"}], NEW ack \in {"PubAck", "PubRel"},
         NEW o \in AckOutcomes(records, acks, i, ack), Answered(o), UNCHANGED brokerOut
  PROVE  NoneReceived'
<1> DEFINE p == Packet(ack, i, 0)
<1>1. p \in BrokerBound BY DEF BrokerBound, Packet, Packets, AckTypes, QoS
<1>2. toBroker \in Seq(Packets) /\ p \in Packets BY <1>1 DEF Inv, Links, BrokerBound
<1> HIDE DEF p
<1>3. OnWire(<<p>>) \in {toBroker, Append(toBroker, p)} /\ OnWire(<<>>) = toBroker
  BY <1>2, OnWireOf
<1>4. Append(toBroker, p) \in Seq(BrokerBound) BY <1>1, AppendOf DEF NoneReceived
<1>5. Tail(toClient) \in Seq(ClientBound) BY TailOf DEF NoneReceived
<1>6. o.acks \in {acks, KeptAs(acks, i, ack)} /\ o.sent \in {<<p>>, <<>>}
  <2>1. AckDone(o, records, acks, i, ack) \/ AckNotDone(o, records, acks, i, ack)
    BY AckOutcomeCases
  <2> QED BY <2>1 DEF AckDone, AckNotDone, p
<1>7. KeptAs(acks, i, ack) \in [PacketIds -> {"None", "PubRel"}] BY DEF KeptAs
<1>8. keptAck' \in [PacketIds -> {"None", "PubRel"}] BY <1>6, <1>7 DEF Answered
<1>9. toBroker' \in Seq(BrokerBound) /\ toClient' \in Seq(ClientBound)
  BY <1>3, <1>4, <1>5, <1>6 DEF Answered, NoneReceived
<1> QED BY <1>8, <1>9 DEF NoneReceived

\* Every action leaves it so.
LEMMA NextReceived ==
  ASSUME Inv, NoneReceived, InQoS \subseteq {1}, [Next]_vars
  PROVE  NoneReceived'
<1>0. \A S : <<>> \in Seq(S) BY EmptySeq
<1>1. ASSUME NEW id \in PacketIds, NEW q \in {1, 2}, NEW dup \in BOOLEAN, Publish(id, q, dup)
      PROVE  NoneReceived'
  <2> DEFINE p == Packet("Publish", id, q)
  <2>1. UNCHANGED <<keptAck, brokerOut, toClient>> /\ toBroker' \in {toBroker, OnWire(<<p>>)}
    BY <1>1 DEF Publish, store, broker
  <2>2. p \in BrokerBound BY DEF BrokerBound, Packet, Packets, AckTypes, QoS
  <2>3. toBroker \in Seq(Packets) /\ p \in Packets BY <2>2 DEF Inv, Links, BrokerBound
  <2> HIDE DEF p
  <2>4. OnWire(<<p>>) \in {toBroker, Append(toBroker, p)} BY <2>3, OnWireOf
  <2>5. Append(toBroker, p) \in Seq(BrokerBound) BY <2>2, AppendOf DEF NoneReceived
  <2> QED BY <2>1, <2>4, <2>5 DEF NoneReceived
<1>2. CASE PublishNew
  <2>1. PICK id \in PacketIds, q \in OutQoS : Publish(id, q, FALSE) BY <1>2 DEF PublishNew
  <2> QED BY <1>1, <2>1, SessionAssumption
<1>3. CASE PublishAgain BY <1>1, <1>3, PublishAgainIs
<1>4. CASE Connect
  <2>1. PICK m \in ReceiveMaxes :
          \/ CleanSession(CapTo(outgoing, m))
          \/ Resumption(CapTo(outgoing, m))
    BY <1>4 DEF Connect
  <2>2. PICK a : a = CapTo(outgoing, m) OBVIOUS
  <2>3. GoodOut(a) BY <2>2, SessionAssumption, CapGood DEF Inv, GoodOut
  <2>4. CASE CleanSession(a)
    BY <1>0, <2>4 DEF CleanSession, NoneReceived
  <2>5. CASE Resumption(a)
    <3>0. Kept BY DEF Inv
    <3>1. PICK n \in 0..Len(Rels(a)) + Len(Pubs(a)) : Resent(a, n)
      BY <2>3, <2>5, <3>0, ResumptionIs
    <3>2. /\ UNCHANGED <<keptAck, brokerOut>>
          /\ toClient' = [k \in DOMAIN brokerOut |->
               Packet(brokerOut[k].phase, brokerOut[k].id,
                      IF brokerOut[k].phase = "PubRel" THEN 0 ELSE brokerOut[k].qos)]
      BY <2>5 DEF Resumption, store, broker
    <3>3. toClient' \in Seq(ClientBound)
      <4>1. /\ Len(brokerOut) \in Nat /\ DOMAIN brokerOut = 1..Len(brokerOut)
            /\ \A k \in 1..Len(brokerOut) : brokerOut[k] \in Remembered
        BY Elements DEF NoneReceived
      <4>2. \A e \in Remembered :
              Packet(e.phase, e.id, IF e.phase = "PubRel" THEN 0 ELSE e.qos) \in ClientBound
        BY DEF Remembered, ClientBound, Packet, Packets, AckTypes, QoS
      <4>3. toClient' \in [1..Len(brokerOut) -> ClientBound] BY <3>2, <4>1, <4>2
      <4> QED BY <4>1, <4>3, SequenceOf
    <3>4. toBroker' \in Seq(BrokerBound)
      <4>1. /\ toBroker' \in Seq(Packets) /\ Len(toBroker') = n
            /\ Len(Rels(a)) \in Nat /\ n \in Nat
            /\ \A k \in 1..Len(Rels(a)) : Rels(a)[k] \in PacketIds
        <5>1. Rels(a) \in Seq(PacketIds)
          BY <2>3, OwedIs, StateSets, SessionAssumption DEF GoodOut, Rels
        <5>2. Len(Rels(a)) \in Nat /\ Len(Pubs(a)) \in Nat
          <6>1. Pubs(a) \in Seq(PacketIds)
            BY <2>3, OwedIs, StateSets, SessionAssumption DEF GoodOut, Pubs
          <6> QED BY <5>1, <6>1
        <5> QED BY <3>1, <5>1, <5>2, Elements DEF Resent
      <4>2. ASSUME NEW k \in 1..n PROVE toBroker'[k] \in BrokerBound
        <5>1. toBroker'[k] \in Packets BY <4>1, Elements
        <5>2. CASE k <= Len(Rels(a))
          <6>1. Rels(a)[k] \in PacketIds BY <4>1, <5>2
          <6>2. keptAck[Rels(a)[k]] # "PubRec" BY <6>1 DEF NoneReceived
          <6>3. toBroker'[k].type # "PubRec"
            BY <3>1, <5>2, <6>2 DEF Resent, RelPacket, Packet
          <6> QED BY <5>1, <6>3 DEF BrokerBound
        <5>3. CASE k > Len(Rels(a))
          BY <3>1, <5>1, <5>3 DEF Resent, PubPacket, Packet, BrokerBound
        <5> QED BY <4>1, <5>2, <5>3
      <4>3. toBroker' \in [1..n -> BrokerBound]
        <5>1. DOMAIN toBroker' = 1..n BY <4>1, Elements
        <5>2. toBroker' = [k \in 1..n |-> toBroker'[k]] BY <4>1, <5>1
        <5> QED BY <4>2, <5>2
      <4> QED BY <4>1, <4>3, SequenceOf
    <3> QED BY <3>2, <3>3, <3>4 DEF NoneReceived
  <2> QED BY <2>1, <2>2, <2>4, <2>5
<1>5. CASE HandlePublish
  <2> DEFINE p        == Head(toClient)
             received == UpdatePublishReceive(incoming, p.id, p.qos)
  <2>1. toClient # <<>> /\ p.id \in PacketIds /\ p.type = "Publish"
    BY <1>5, HeadIs DEF Inv, HandlePublish
  <2>2. p.qos = 1
    <3>1. p \in ClientBound BY <2>1, TailOf DEF NoneReceived
    <3> QED BY <2>1, <3>1 DEF ClientBound
  <2>3. /\ UNCHANGED brokerOut
        /\ \/ UNCHANGED <<keptAck, toBroker, toClient>>
           \/ \E o \in AckOutcomes(received.records, keptAck, p.id, "PubAck") : Answered(o)
    BY <1>5, <2>2 DEF HandlePublish, store, broker
  <2> HIDE DEF p, received
  <2>4. CASE UNCHANGED <<keptAck, toBroker, toClient>> BY <2>3, <2>4 DEF NoneReceived
  <2>5. ASSUME NEW o \in AckOutcomes(received.records, keptAck, p.id, "PubAck"), Answered(o)
        PROVE  NoneReceived'
    <3>1. keptAck \in [PacketIds -> {"None", "PubRel"}] BY DEF NoneReceived
    <3> QED BY <2>1, <2>3, <2>5, <3>1, AnsweredReceived
  <2> QED BY <2>3, <2>4, <2>5
<1>6. CASE HandlePublishAck
  <2> DEFINE p        == Head(toClient)
             received == UpdateAckIn(outgoing, p.id, p.type, "Receive")
             acks     == StillKeptAck(p.id, p.type)
  <2>1. toClient # <<>> /\ p.id \in PacketIds /\ p.type \in AckTypes
    BY <1>6, HeadIs DEF Inv, HandlePublishAck
  <2>2. p.type # "PubRel"
    <3>1. p \in ClientBound BY <2>1, TailOf DEF NoneReceived
    <3> QED BY <3>1 DEF ClientBound
  <2>3. IsPublishOutgoing(p.type, "Receive") BY <2>2 DEF IsPublishOutgoing
  <2>4. /\ UNCHANGED brokerOut
        /\ \/ UNCHANGED <<keptAck, toBroker>> /\ toClient' = toClient
           \/ keptAck' = acks /\ toClient' \in {toClient, Tail(toClient)} /\ UNCHANGED toBroker
           \/ \E o \in AckOutcomes(received.records, acks, p.id, "PubRel") : Answered(o)
    BY <1>6, <2>2, <2>3 DEF HandlePublishAck, store, broker
  <2>5. acks \in [PacketIds -> {"None", "PubRel"}] BY DEF NoneReceived, StillKeptAck
  <2>6. Tail(toClient) \in Seq(ClientBound) BY <2>1, TailOf DEF NoneReceived
  <2> HIDE DEF p, received, acks
  <2>7. CASE /\ keptAck' \in {keptAck, acks} /\ toClient' \in {toClient, Tail(toClient)}
             /\ UNCHANGED toBroker
    BY <2>4, <2>5, <2>6, <2>7 DEF NoneReceived
  <2>8. ASSUME NEW o \in AckOutcomes(received.records, acks, p.id, "PubRel"), Answered(o)
        PROVE  NoneReceived'
    BY <2>1, <2>4, <2>5, <2>8, AnsweredReceived
  <2> QED BY <2>4, <2>7, <2>8
<1>7. CASE \/ \E id \in PacketIds : Cancel(id)
           \/ Disconnect \/ HandleDisconnect \/ NoticeDrop \/ Drop \/ UNCHANGED vars
  <2>1. /\ UNCHANGED <<keptAck, brokerOut>>
        /\ toBroker' \in {toBroker, <<>>} /\ toClient' \in {toClient, <<>>}
    BY <1>7 DEF Cancel, Disconnect, HandleDisconnect, NoticeDrop, Drop, Unplugged, vars,
                store, broker
  <2> QED BY <1>0, <2>1 DEF NoneReceived
<1>8. ASSUME NEW id \in PacketIds, NEW q \in InQoS, BrokerPublish(id, q)
      PROVE  NoneReceived'
  <2> DEFINE e == [id |-> id, qos |-> q, phase |-> "Publish"]
             p == Packet("Publish", id, q)
  <2>1. /\ UNCHANGED <<keptAck, toBroker>>
        /\ brokerOut' = Append(brokerOut, e) /\ toClient' = Append(toClient, p)
    BY <1>8 DEF BrokerPublish, store
  <2>2. e \in Remembered /\ p \in ClientBound
    BY DEF Remembered, ClientBound, Packet, Packets, QoS
  <2> HIDE DEF e, p
  <2>3. brokerOut' \in Seq(Remembered) /\ toClient' \in Seq(ClientBound)
    BY <2>1, <2>2, AppendOf DEF NoneReceived
  <2> QED BY <2>1, <2>3 DEF NoneReceived
<1>9. CASE BrokerStep
  <2> DEFINE p == Head(toBroker)
  <2>1. /\ toBroker # <<>> /\ toBroker' = Tail(toBroker) /\ UNCHANGED keptAck
        /\ BrokerReceives(p) \/ BrokerIsAnswered(p)
    BY <1>9 DEF BrokerStep, store
  <2>2. p \in BrokerBound /\ Tail(toBroker) \in Seq(BrokerBound) BY <2>1, TailOf DEF NoneReceived
  <2>3. p.id \in PacketIds /\ p.type # "PubRec" BY <2>2 DEF BrokerBound, Packets
  <2> HIDE DEF p
  <2>4. \A type \in {"PubAck", "PubRec", "PubComp"} :
          Append(toClient, Packet(type, p.id, 0)) \in Seq(ClientBound)
    <3>1. \A type \in {"PubAck", "PubRec", "PubComp"} : Packet(type, p.id, 0) \in ClientBound
      BY <2>3 DEF ClientBound, Packet, Packets, AckTypes, QoS
    <3> QED BY <3>1, AppendOf DEF NoneReceived
  <2>5. toClient' \in Seq(ClientBound)
    BY <2>1, <2>3, <2>4 DEF BrokerReceives, BrokerIsAnswered, NoneReceived
  <2>6. brokerOut' \in Seq(Remembered)
    <3>1. \/ UNCHANGED brokerOut
          \/ \E k \in DOMAIN brokerOut : brokerOut' = RemoveAt(brokerOut, k)
      BY <2>1, <2>3 DEF BrokerReceives, BrokerIsAnswered
    <3>2. ASSUME NEW k \in DOMAIN brokerOut PROVE RemoveAt(brokerOut, k) \in Seq(Remembered)
      <4>1. brokerOut \in Seq(Remembered) BY DEF NoneReceived
      <4>2. k \in 1..Len(brokerOut) BY <4>1, Elements
      <4> QED BY <4>1, <4>2, RemoveOf
    <3> QED BY <3>1, <3>2 DEF NoneReceived
  <2> QED BY <2>1, <2>2, <2>5, <2>6 DEF NoneReceived
<1> QED BY <1>2, <1>3, <1>4, <1>5, <1>6, <1>7, <1>8, <1>9 DEF Next

---------------------------------------------------------------------------
(* What a step does to the outgoing records and to the store together. *)

\* One record may change, or come, or go; the others stay as they are.
AllBut(i) ==
  \A y \in PacketIds : y # i =>
    /\ y \in IdsIn(outgoing') <=> y \in IdsIn(outgoing)
    /\ y \in IdsIn(outgoing) => RecordOf(outgoing', y) = RecordOf(outgoing, y)

\* A PUBREC that ends the wait for it leaves a PUBREL owed, or sent; kept
\* first, unless something stopped the handler before that.
PubRecTaken(i) ==
  /\ i \in IdsIn(outgoing) /\ RecordOf(outgoing, i).qos = 2
  /\ i \in IdsIn(outgoing') /\ AllBut(i)
  /\ keptPublish' = StillKeptPublish(i, "PubRec")
  /\ \/ /\ RecordOf(outgoing', i) = Record(i, 2, "PubRelSend")
        /\ \/ /\ keptAck' = keptAck
              /\ \/ May("HandlerRefuses") \/ May("StoreRefuses")
                 \/ status # "Connected"
           \/ /\ keptAck' = KeptAs(keptAck, i, "PubRel")
              /\ (May("SendFails") /\ status' = "DisconnectPending") \/ May("SendTimesOut")
     \/ /\ RecordOf(outgoing', i) = Record(i, 2, "PubCompPending")
        /\ keptAck' = KeptAs(keptAck, i, "PubRel")

\* What handling an acknowledgement of an outgoing publish comes to.
AnswerStored(i, type) ==
  \/ UNCHANGED <<outgoing, keptPublish, keptAck>>
  \/ /\ type \in {"PubAck", "PubComp"} /\ i \in IdsIn(outgoing)
     /\ RecordOf(outgoing, i).state \in
          IF type = "PubAck" THEN PublishToResendStates ELSE PubRelToResendStates
     /\ i \notin IdsIn(outgoing') /\ AllBut(i)
     /\ keptPublish' = StillKeptPublish(i, type) /\ keptAck' = StillKeptAck(i, type)
  \/ type = "PubRec" /\ PubRecTaken(i)

\* It comes to one of these, whatever stops it half way.
LEMMA AnswerStoredIs ==
  ASSUME Inv, HandlePublishAck, Head(toClient).type # "PubRel"
  PROVE  AnswerStored(Head(toClient).id, Head(toClient).type)
<1> DEFINE p        == Head(toClient)
           i        == p.id
           received == UpdateAckIn(outgoing, i, p.type, "Receive")
           acks     == StillKeptAck(i, p.type)
           b        == received.records
<1>1. toClient # <<>> /\ i \in PacketIds /\ p.type \in {"PubAck", "PubRec", "PubComp"}
  BY HeadIs DEF Inv, HandlePublishAck, AckTypes
<1>2. IsPublishOutgoing(p.type, "Receive") BY DEF IsPublishOutgoing
<1>3. \/ received.status # "Ok" /\ outgoing' = b /\ UNCHANGED <<keptPublish, keptAck>>
      \/ /\ received.status = "Ok" /\ keptPublish' = StillKeptPublish(i, p.type)
         /\ \/ outgoing' = b /\ keptAck' = acks /\ (p.type = "PubRec" => May("HandlerRefuses"))
            \/ /\ p.type = "PubRec"
               /\ \E o \in AckOutcomes(b, acks, i, "PubRel") :
                    outgoing' = o.records /\ keptAck' = o.acks /\ status' = o.status
  BY <1>1, <1>2 DEF HandlePublishAck, Install, Answered, store
<1> HIDE DEF p, i
<1>4. /\ Good(b, OutSlots, OutgoingStates)
      /\ OutgoingReceived(outgoing, received, i, p.type)
  BY <1>1, OutgoingReceives, SessionAssumption DEF Inv, GoodOut
<1> HIDE DEF received, b
<1>5. CASE received.status # "Ok"
  <2>1. outgoing' = outgoing /\ UNCHANGED <<keptPublish, keptAck>>
    BY <1>3, <1>4, <1>5 DEF OutgoingReceived, b
  <2> QED BY <2>1 DEF AnswerStored, i, p
<1>6. CASE received.status = "Ok" /\ p.type \in {"PubAck", "PubComp"}
  <2>1. /\ i \in IdsIn(outgoing) /\ Forgotten(outgoing, b, i)
        /\ outgoing' = b /\ keptAck' = acks /\ keptPublish' = StillKeptPublish(i, p.type)
    BY <1>3, <1>4, <1>6 DEF OutgoingReceived, b
  <2>2. i \notin IdsIn(outgoing') /\ AllBut(i) BY <2>1 DEF Forgotten, AllBut
  <2>3. RecordOf(outgoing, i).state \in
          IF p.type = "PubAck" THEN PublishToResendStates ELSE PubRelToResendStates
    BY <1>4, <1>6 DEF OutgoingReceived, PublishToResendStates, PubRelToResendStates
  <2> QED BY <1>6, <2>1, <2>2, <2>3 DEF AnswerStored, i, p
<1>7. CASE received.status = "Ok" /\ p.type = "PubRec"
  <2> DEFINE waits == Record(i, 2, "PubRelSend")
             sent  == Record(i, 2, "PubCompPending")
             c     == UpdateAckIn(b, i, "PubRel", "Send").records
  <2>1. /\ i \in IdsIn(outgoing) /\ RecordOf(outgoing, i).qos = 2
        /\ Recorded(outgoing, b, waits)
    BY <1>4, <1>7 DEF OutgoingReceived, b
  <2>2. /\ waits.packet_id = i /\ waits.qos = 2 /\ waits.state = "PubRelSend"
        /\ sent.packet_id = i
        /\ [waits EXCEPT !.state = "PubCompPending"] = sent
    BY DEF Record
  <2>3. i \in IdsIn(b) /\ RecordOf(b, i) = waits BY <2>1, <2>2 DEF Recorded
  <2> HIDE DEF waits, sent
  <2>4. Recorded(b, c, sent)
    <3>1. RecordOf(b, i).state \in PubRelToResendStates
      BY <2>2, <2>3 DEF PubRelToResendStates
    <3>2. LET r == UpdateAckIn(b, i, "PubRel", "Send")
          IN  /\ Good(r.records, OutSlots, OutgoingStates) /\ DOMAIN r.records = DOMAIN b
              /\ r.status = "Ok"
              /\ \/ RecordOf(b, i).state = "PubCompPending" /\ r.records = b
                 \/ /\ Recorded(b, r.records, [RecordOf(b, i) EXCEPT !.state = "PubCompPending"])
                    /\ Before(r.records) = Before(b)
      BY <1>4, <2>3, <3>1, OutgoingSends, SessionAssumption
    <3> QED BY <2>2, <2>3, <3>2
  <2> HIDE DEF c
  <2>5. Recorded(outgoing, c, sent) BY <2>1, <2>2, <2>4, RecordedTwice
  <2>6. ASSUME NEW r \in {waits, sent}, Recorded(outgoing, outgoing', r)
        PROVE  /\ i \in IdsIn(outgoing') /\ RecordOf(outgoing', i) = r /\ AllBut(i)
    BY <2>2, <2>6 DEF Recorded, AllBut
  <2>7. keptPublish' = StillKeptPublish(i, "PubRec") /\ acks = keptAck
    BY <1>3, <1>7 DEF StillKeptAck
  <2>8. CASE outgoing' = b /\ keptAck' = acks /\ May("HandlerRefuses")
    BY <1>7, <2>1, <2>6, <2>7, <2>8 DEF AnswerStored, PubRecTaken, i, p, waits
  <2>9. ASSUME NEW o \in AckOutcomes(b, acks, i, "PubRel"),
               outgoing' = o.records, keptAck' = o.acks, status' = o.status
        PROVE  AnswerStored(i, p.type)
    <3>1. CASE AckDone(o, b, acks, i, "PubRel")
      <4>1. outgoing' = c /\ keptAck' = KeptAs(keptAck, i, "PubRel")
        BY <2>7, <2>9, <3>1 DEF AckDone, c
      <4>2. i \in IdsIn(outgoing') /\ RecordOf(outgoing', i) = sent /\ AllBut(i)
        BY <2>5, <2>6, <4>1
      <4> QED BY <1>7, <2>1, <2>7, <4>1, <4>2 DEF AnswerStored, PubRecTaken, sent
    <3>2. CASE AckNotDone(o, b, acks, i, "PubRel")
      <4>1. /\ outgoing' = b
            /\ \/ keptAck' = keptAck /\ (May("StoreRefuses") \/ status # "Connected")
               \/ /\ keptAck' = KeptAs(keptAck, i, "PubRel")
                  /\ (May("SendFails") /\ status' = "DisconnectPending") \/ May("SendTimesOut")
        BY <2>7, <2>9, <3>2 DEF AckNotDone
      <4>2. i \in IdsIn(outgoing') /\ RecordOf(outgoing', i) = waits /\ AllBut(i)
        BY <2>1, <2>6, <4>1
      <4> QED BY <1>7, <2>1, <2>7, <4>1, <4>2 DEF AnswerStored, PubRecTaken, waits
    <3> QED BY <3>1, <3>2, AckOutcomeCases
  <2> QED BY <1>3, <1>7, <2>8, <2>9 DEF i, p
<1> QED BY <1>1, <1>5, <1>6, <1>7

\* A PUBREL from the broker is not about an outgoing publish.
LEMMA PubRelStored ==
  ASSUME Inv, HandlePublishAck, Head(toClient).type = "PubRel"
  PROVE  UNCHANGED <<outgoing, keptPublish>>
<1>1. ~ IsPublishOutgoing(Head(toClient).type, "Receive") BY DEF IsPublishOutgoing
<1>2. StillKeptPublish(Head(toClient).id, Head(toClient).type) = keptPublish
  BY DEF StillKeptPublish
<1> QED BY <1>1, <1>2 DEF HandlePublishAck, Install, store

\* Handling a publish is neither, and without QoS 2 from the broker the store
\* hears nothing of it.
LEMMA PublishStored ==
  ASSUME Inv, HandlePublish
  PROVE  UNCHANGED <<outgoing, keptPublish>> /\ (NoneReceived => UNCHANGED keptAck)
<1> DEFINE p        == Head(toClient)
           received == UpdatePublishReceive(incoming, p.id, p.qos)
           ack      == IF p.qos = 1 THEN "PubAck" ELSE "PubRec"
<1>1. toClient # <<>> /\ p.type = "Publish" BY HeadIs DEF Inv, HandlePublish
<1>2. /\ UNCHANGED <<outgoing, keptPublish>>
      /\ \/ UNCHANGED keptAck
         \/ \E o \in AckOutcomes(received.records, keptAck, p.id, ack) : keptAck' = o.acks
  BY DEF HandlePublish, Answered, store
<1>3. ASSUME NoneReceived PROVE UNCHANGED keptAck
  <2>1. p.qos = 1
    <3>1. p \in ClientBound BY <1>1, <1>3, TailOf DEF NoneReceived
    <3> QED BY <1>1, <3>1 DEF ClientBound
  <2>2. ack = "PubAck" BY <2>1
  <2> HIDE DEF ack, received, p
  <2>3. ASSUME NEW o \in AckOutcomes(received.records, keptAck, p.id, ack)
        PROVE  o.acks = keptAck
    <3>1. KeptAs(keptAck, p.id, ack) = keptAck BY <2>2 DEF KeptAs
    <3>2. AckDone(o, received.records, keptAck, p.id, ack)
          \/ AckNotDone(o, received.records, keptAck, p.id, ack)
      BY AckOutcomeCases
    <3> QED BY <3>1, <3>2 DEF AckDone, AckNotDone
  <2> QED BY <1>2, <2>3
<1> QED BY <1>2, <1>3

\* A publish that did not reach the wire.
Unsent == \/ May("StoreRefuses") \/ May("SendTimesOut")
          \/ May("SendFails") /\ status' = "DisconnectPending"

\* What publish comes to for the record of its id: nothing, or there is one, to
\* be repeated, its PUBLISH kept, and noted as sent unless that went wrong.
PublishKept(i, q) ==
  /\ AllBut(i) /\ UNCHANGED keptAck /\ DOMAIN outgoing' = DOMAIN outgoing
  /\ keptPublish \subseteq keptPublish' /\ keptPublish' \subseteq keptPublish \cup {i}
  /\ owed \ {i} \subseteq owed' /\ status = "Connected"
  /\ \/ /\ UNCHANGED <<owed, keptPublish>>
        /\ i \in IdsIn(outgoing') <=> i \in IdsIn(outgoing)
        /\ i \in IdsIn(outgoing) => RecordOf(outgoing', i) = RecordOf(outgoing, i)
     \/ /\ i \in IdsIn(outgoing') /\ RecordOf(outgoing', i).qos = q
        /\ RecordOf(outgoing', i).state \in PublishToResendStates
        /\ i \in IdsIn(outgoing) => RecordOf(outgoing, i).state \in PublishToResendStates
        /\ HasStore => May("StoreRefuses") \/ i \in keptPublish'
        /\ RecordOf(outgoing', i).state = "PublishSend" => Unsent

\* A repeat is of a publish that is not yet answered.
LEMMA PublishKeptIs ==
  ASSUME Inv, NEW i \in PacketIds, NEW q \in {1, 2}, NEW dup \in BOOLEAN, Publish(i, q, dup),
         dup => /\ i \in IdsIn(outgoing) /\ RecordOf(outgoing, i).qos = q
                /\ RecordOf(outgoing, i).state \in PublishToResendStates
  PROVE  PublishKept(i, q)
<1> DEFINE reserved == ReserveState(outgoing, i, q)
           b        == reserved.records
           new      == Record(i, q, "PublishSend")
           c        == UpdatePublishSend(b, i, q).records
<1>1. /\ GoodOut(b) /\ DOMAIN b = DOMAIN outgoing
      /\ \/ reserved.status = "Ok" /\ i \notin IdsIn(outgoing) /\ Recorded(outgoing, b, new)
         \/ /\ reserved.status = "StateCollision" /\ i \in IdsIn(outgoing)
            /\ SameRecords(outgoing, b)
         \/ /\ reserved.status = "NoMemory" /\ i \notin IdsIn(outgoing)
            /\ SameRecords(outgoing, b)
  <2>1. LET r == ReserveState(outgoing, i, q)
            n == Record(i, q, "PublishSend")
        IN  /\ Good(r.records, OutSlots, OutgoingStates)
            /\ DOMAIN r.records = DOMAIN outgoing
            /\ \/ /\ r.status = "Ok" /\ i \notin IdsIn(outgoing)
                  /\ Recorded(outgoing, r.records, n) /\ Appended(outgoing, r.records, n)
               \/ /\ r.status = "StateCollision" /\ i \in IdsIn(outgoing)
                  /\ SameRecords(outgoing, r.records) /\ SameFlight(outgoing, r.records)
               \/ /\ r.status = "NoMemory" /\ i \notin IdsIn(outgoing)
                  /\ SameRecords(outgoing, r.records) /\ SameFlight(outgoing, r.records)
    BY SessionAssumption, ReserveCases DEF Inv, GoodOut
  <2> QED BY <2>1 DEF GoodOut
<1>2. /\ UNCHANGED keptAck
      /\ keptPublish \subseteq keptPublish' /\ keptPublish' \subseteq keptPublish \cup {i}
      /\ owed \ {i} \subseteq owed' /\ status = "Connected"
      /\ \/ /\ ~ Tolerated(reserved.status, dup) /\ outgoing' = b /\ UNCHANGED keptPublish
            /\ owed' = IF dup THEN owed \ {i} ELSE owed
         \/ /\ Tolerated(reserved.status, dup)
            /\ HasStore => May("StoreRefuses") \/ i \in keptPublish'
            /\ \/ outgoing' = b /\ Unsent
               \/ outgoing' = c
  BY DEF Publish, store, Unsent
<1> HIDE DEF reserved, b, c
<1>3. CASE ~ Tolerated(reserved.status, dup)
  <2>1. SameRecords(outgoing, b) /\ outgoing' = b /\ ~ dup BY <1>1, <1>2, <1>3 DEF Tolerated
  <2> QED BY <1>1, <1>2, <1>3, <2>1 DEF PublishKept, AllBut, SameRecords
<1>4. CASE Tolerated(reserved.status, dup)
  <2>1. /\ i \in IdsIn(b) /\ RecordOf(b, i).qos = q
        /\ RecordOf(b, i).state \in PublishToResendStates
        /\ \A y \in PacketIds : y # i =>
             /\ y \in IdsIn(b) <=> y \in IdsIn(outgoing)
             /\ y \in IdsIn(outgoing) => RecordOf(b, y) = RecordOf(outgoing, y)
        /\ i \in IdsIn(outgoing) => RecordOf(outgoing, i).state \in PublishToResendStates
    <3>1. CASE Recorded(outgoing, b, new)
      BY <1>1, <3>1 DEF Recorded, Record, PublishToResendStates, SameRecords
    <3>2. CASE SameRecords(outgoing, b) /\ dup BY <3>2 DEF SameRecords
    <3> QED BY <1>1, <1>4, <3>1, <3>2 DEF Tolerated
  <2>2. /\ i \in IdsIn(c) /\ RecordOf(c, i).qos = q /\ DOMAIN c = DOMAIN b
        /\ RecordOf(c, i).state \in PublishToResendStates \ {"PublishSend"}
        /\ \A y \in PacketIds : y # i =>
             /\ y \in IdsIn(c) <=> y \in IdsIn(b)
             /\ y \in IdsIn(b) => RecordOf(c, y) = RecordOf(b, y)
    <3> DEFINE x == [RecordOf(b, i) EXCEPT !.state = CalculateStatePublish("Send", q)]
    <3>1. /\ Good(c, OutSlots, OutgoingStates) /\ DOMAIN c = DOMAIN b
          /\ Recorded(b, c, x) /\ Before(c) = Before(b)
      <4>1. /\ OutSlots \in Nat /\ Good(b, OutSlots, OutgoingStates) /\ i \in IdsIn(b)
            /\ RecordOf(b, i).qos = q /\ RecordOf(b, i).state \in PublishToResendStates
        BY <1>1, <2>1, SessionAssumption DEF GoodOut
      <4> QED BY <4>1, PublishSendCases DEF c
    <3>2. RecordOf(b, i) \in Slots /\ RecordOf(b, i).packet_id = i BY <1>1, <2>1, OutRecord
    <3>3. x.packet_id = i /\ x.qos = q /\ x.state \in PublishToResendStates \ {"PublishSend"}
      BY <2>1, <3>2 DEF Slots, CalculateStatePublish, PublishToResendStates
    <3> HIDE DEF x
    <3> QED BY <2>1, <3>1, <3>3 DEF Recorded
  <2>3. CASE outgoing' = b /\ Unsent
    BY <1>1, <1>2, <1>4, <2>1, <2>3 DEF PublishKept, AllBut
  <2>4. CASE outgoing' = c BY <1>1, <1>2, <1>4, <2>1, <2>2, <2>4 DEF PublishKept, AllBut
  <2> QED BY <1>2, <1>4, <2>3, <2>4
<1> QED BY <1>3, <1>4

\* A new connection leaves what it does not clear, and the store as it is.
LEMMA ConnectStored ==
  ASSUME Inv, Connect
  PROVE  \/ IdsIn(outgoing') = {}
         \/ /\ UNCHANGED <<keptPublish, keptAck>> /\ IdsIn(outgoing') \subseteq IdsIn(outgoing)
            /\ \A y \in IdsIn(outgoing') :
                 LET r == RecordOf(outgoing, y)
                     s == RecordOf(outgoing', y)
                 IN  /\ HasStore \/ r.state \in PublishToResendStates => s = r
                     /\ s.qos = r.qos /\ (s = r \/ s.state = "PubCompPending")
<1>1. PICK m \in ReceiveMaxes :
        \/ CleanSession(CapTo(outgoing, m))
        \/ Resumption(CapTo(outgoing, m))
  BY DEF Connect
<1>2. PICK a : a = CapTo(outgoing, m) OBVIOUS
<1>3. /\ GoodOut(a) /\ IdsIn(a) \subseteq IdsIn(outgoing)
      /\ \A y \in IdsIn(a) : RecordOf(a, y) = RecordOf(outgoing, y)
  <2>1. m \in Nat /\ OutSlots \in Nat BY SessionAssumption
  <2>2. GoodOut(a) /\ SomeOf(outgoing, a) BY <1>2, <2>1, CapById DEF Inv, GoodOut
  <2> QED BY <2>2 DEF SomeOf
<1>4. CASE CleanSession(a) BY <1>4, ClearIds DEF CleanSession
<1>5. CASE Resumption(a)
  <2>1. PICK n \in 0..Len(Rels(a)) + Len(Pubs(a)) : Resumed(a, n)
    BY <1>3, <1>5, ResumedIs
  <2>2. /\ UNCHANGED <<keptPublish, keptAck>> /\ IdsIn(outgoing') = IdsIn(a)
        /\ HasStore => outgoing' = a
        /\ \A x \in IdsIn(a) :
             /\ RecordOf(a, x).state \in PublishToResendStates =>
                  RecordOf(outgoing', x) = RecordOf(a, x)
             /\ RecordOf(a, x).state \in PubRelToResendStates =>
                  /\ RecordOf(outgoing', x).qos = RecordOf(a, x).qos
                  /\ \/ RecordOf(outgoing', x) = RecordOf(a, x)
                     \/ RecordOf(outgoing', x).state = "PubCompPending"
    BY <2>1 DEF Resumed
  <2>3. \A x \in IdsIn(a) : \/ RecordOf(a, x).state \in PublishToResendStates
                            \/ RecordOf(a, x).state \in PubRelToResendStates
    BY <1>3, OutRecord
  <2> QED BY <1>3, <2>2, <2>3
<1> QED BY <1>1, <1>2, <1>4, <1>5

---------------------------------------------------------------------------
(* Without QoS 2 from the application, no record is of QoS 2. *)

\* There is none to begin with.
LEMMA InitSent == Init => NoneSent
<1> SUFFICES ASSUME Init PROVE NoneSent
  OBVIOUS
<1>1. Occupied(outgoing) = {} BY DEF Init, Occupied, Empty, Record
<1> QED BY <1>1 DEF NoneSent, IdsIn

\* Such a record answers to no PUBREC, and every other action keeps its QoS.
LEMMA NextSent ==
  ASSUME Inv, NoneSent, OutQoS \subseteq {1}, [Next]_vars
  PROVE  NoneSent'
<1>0. \A y \in IdsIn(outgoing') : y \in PacketIds
  BY NextInv, OutRecord DEF Inv
<1>1. ASSUME NEW i \in PacketIds, PublishKept(i, 1) PROVE NoneSent'
  BY <1>0, <1>1 DEF PublishKept, AllBut, NoneSent
<1>2. CASE PublishNew
  <2>1. PICK i \in PacketIds, q \in OutQoS : Publish(i, q, FALSE) BY <1>2 DEF PublishNew
  <2>2. q = 1 OBVIOUS
  <2>3. PublishKept(i, 1) BY <2>1, <2>2, PublishKeptIs
  <2> QED BY <1>1, <2>3
<1>3. CASE Connect
  <2>1. \/ IdsIn(outgoing') = {}
        \/ /\ IdsIn(outgoing') \subseteq IdsIn(outgoing)
           /\ \A y \in IdsIn(outgoing') : RecordOf(outgoing', y).qos = RecordOf(outgoing, y).qos
    BY <1>3, ConnectStored
  <2> QED BY <2>1 DEF NoneSent
<1>4. CASE HandlePublish
  <2>1. outgoing' = outgoing BY <1>4, PublishStored
  <2> QED BY <2>1 DEF NoneSent
<1>5. CASE HandlePublishAck
  <2> DEFINE i == Head(toClient).id
  <2>1. CASE Head(toClient).type = "PubRel"
    <3>1. outgoing' = outgoing BY <1>5, <2>1, PubRelStored
    <3> QED BY <3>1 DEF NoneSent
  <2>2. CASE Head(toClient).type # "PubRel"
    <3>1. i \in PacketIds BY <1>5, HeadIs DEF Inv, HandlePublishAck
    <3>2. AnswerStored(i, Head(toClient).type) BY <1>5, <2>2, AnswerStoredIs
    <3> HIDE DEF i
    <3>3. ~ PubRecTaken(i) BY DEF PubRecTaken, NoneSent
    <3>4. \/ outgoing' = outgoing
          \/ i \notin IdsIn(outgoing') /\ AllBut(i)
      BY <3>2, <3>3 DEF AnswerStored
    <3> QED BY <1>0, <3>1, <3>4 DEF AllBut, NoneSent
  <2> QED BY <2>1, <2>2
<1>6. ASSUME NEW id \in PacketIds, Cancel(id) PROVE NoneSent'
  <2>1. Forgotten(outgoing, outgoing', id)
    BY <1>6, RemoveCases, SessionAssumption DEF Cancel, Inv, GoodOut
  <2> QED BY <2>1 DEF Forgotten, NoneSent
<1>7. ASSUME outgoing' = outgoing PROVE NoneSent'
  BY <1>7 DEF NoneSent
<1>8. CASE PublishAgain
  <2>1. PICK i \in PacketIds, q \in {1, 2} :
          /\ Publish(i, q, TRUE) /\ i \in IdsIn(outgoing) /\ RecordOf(outgoing, i).qos = q
    BY <1>8, PublishAgainIs
  <2>2. q = 1 BY <2>1 DEF NoneSent
  <2>3. RecordOf(outgoing, i).state \in PublishToResendStates
    BY <2>1, <2>2, OutRecord DEF Inv
  <2>4. PublishKept(i, 1) BY <2>1, <2>2, <2>3, PublishKeptIs
  <2> QED BY <1>1, <2>4
<1>9. CASE \/ Disconnect \/ HandleDisconnect \/ NoticeDrop \/ Drop \/ UNCHANGED vars \/ BrokerStep
           \/ \E id \in PacketIds, q \in InQoS : BrokerPublish(id, q)
  <2>1. outgoing' = outgoing
    BY <1>9 DEF Disconnect, HandleDisconnect, NoticeDrop, Drop, vars, BrokerStep, BrokerPublish
  <2> QED BY <1>7, <2>1
<1> QED BY <1>2, <1>3, <1>4, <1>5, <1>6, <1>8, <1>9 DEF Next

---------------------------------------------------------------------------
(* The store has what is owed. *)

\* What is kept for one publish is what its record may have to resend.
KeptFor(id) ==
  id \in IdsIn(outgoing) =>
    /\ RecordOf(outgoing, id).state \in PublishToResendStates => id \in keptPublish
    /\ RecordOf(outgoing, id).state \in PubRelToResendStates => keptAck[id] = "PubRel"

\* Nothing is left to the application.
KeptInv == owed = {} /\ \A id \in PacketIds : KeptFor(id)

\* Between one step and the next the store forgets nothing of a publish whose
\* record stays as it is.
LEMMA KeptStays ==
  ASSUME NEW id \in PacketIds, KeptFor(id),
         id \in IdsIn(outgoing') =>
           /\ id \in IdsIn(outgoing) /\ RecordOf(outgoing', id) = RecordOf(outgoing, id)
           /\ id \in keptPublish => id \in keptPublish'
           /\ keptAck'[id] = keptAck[id]
              \/ RecordOf(outgoing, id).state \notin PubRelToResendStates
  PROVE  KeptFor(id)'
BY DEF KeptFor

\* No step leaves a record without what it needs, if QoS 2 goes one way only.
LEMMA NextKept ==
  ASSUME Inv, KeptInv, HasStore, Served, NoneReceived \/ NoneSent, [Next]_vars
  PROVE  KeptInv'
<1>0. \A y \in PacketIds : y \in IdsIn(outgoing) =>
        /\ ~ (RecordOf(outgoing, y).state \in PublishToResendStates
              /\ RecordOf(outgoing, y).state \in PubRelToResendStates)
        /\ RecordOf(outgoing, y).qos = 1 =>
             RecordOf(outgoing, y).state \notin PubRelToResendStates
  BY OutRecord, StateSets DEF Inv
<1>1. keptAck \in [PacketIds -> {"None", "PubRec", "PubRel"}] BY DEF Inv, Kept
<1>2. CASE PublishNew
  <2>1. PICK i \in PacketIds, q \in {1, 2} : Publish(i, q, FALSE)
    BY <1>2, SessionAssumption DEF PublishNew
  <2>2. PublishKept(i, q) BY <2>1, PublishKeptIs
  <2>3. owed' = {} BY <2>1, Zenon DEF Publish, KeptInv
  <2>4. ASSUME NEW y \in PacketIds, y # i PROVE KeptFor(y)'
    <3>1. KeptFor(y) BY DEF KeptInv
    <3>2. /\ y \in IdsIn(outgoing') <=> y \in IdsIn(outgoing)
          /\ y \in IdsIn(outgoing) => RecordOf(outgoing', y) = RecordOf(outgoing, y)
          /\ keptAck' = keptAck /\ keptPublish \subseteq keptPublish'
      BY <2>2, <2>4 DEF PublishKept, AllBut
    <3> QED BY <3>1, <3>2, KeptStays
  <2>5. KeptFor(i)'
    <3>1. KeptFor(i) BY DEF KeptInv
    <3>2. CASE /\ i \in IdsIn(outgoing') <=> i \in IdsIn(outgoing)
               /\ i \in IdsIn(outgoing) => RecordOf(outgoing', i) = RecordOf(outgoing, i)
      <4>1. keptAck' = keptAck /\ keptPublish \subseteq keptPublish'
        BY <2>2 DEF PublishKept
      <4> QED BY <3>1, <3>2, <4>1, KeptStays
    <3>3. CASE /\ i \in IdsIn(outgoing') /\ i \in keptPublish'
               /\ RecordOf(outgoing', i).state \in PublishToResendStates
      BY <3>3, StateSets DEF KeptFor
    <3> QED BY <2>2, <3>2, <3>3 DEF PublishKept, Served
  <2> QED BY <2>3, <2>4, <2>5 DEF KeptInv
<1>3. CASE Connect
  <2>1. owed' = {}
    <3>1. ASSUME NEW a, CleanSession(a) PROVE owed' = {} BY <3>1 DEF CleanSession
    <3>2. ASSUME NEW a, Resumption(a) PROVE owed' = {} BY <3>2 DEF Resumption
    <3> QED BY <1>3, <3>1, <3>2 DEF Connect
  <2>2. ASSUME NEW y \in PacketIds PROVE KeptFor(y)'
    <3>1. y \in IdsIn(outgoing') =>
            /\ UNCHANGED <<keptPublish, keptAck>> /\ y \in IdsIn(outgoing)
            /\ RecordOf(outgoing', y) = RecordOf(outgoing, y)
      BY <1>3, ConnectStored
    <3>2. KeptFor(y) BY DEF KeptInv
    <3> QED BY <3>1, <3>2 DEF KeptFor
  <2> QED BY <2>1, <2>2 DEF KeptInv
<1>4. ASSUME outgoing' = outgoing, keptPublish' = keptPublish, owed' = owed,
             UNCHANGED keptAck \/ NoneSent
      PROVE  KeptInv'
  <2>1. ASSUME NEW y \in PacketIds PROVE KeptFor(y)'
    <3>1. KeptFor(y) BY DEF KeptInv
    <3>2. y \in IdsIn(outgoing) => keptAck'[y] = keptAck[y]
            \/ RecordOf(outgoing, y).state \notin PubRelToResendStates
      BY <1>0, <1>4 DEF NoneSent
    <3> QED BY <1>4, <3>1, <3>2 DEF KeptFor
  <2> QED BY <1>4, <2>1 DEF KeptInv
<1>5. CASE HandlePublish
  <2>1. outgoing' = outgoing /\ keptPublish' = keptPublish /\ (NoneReceived => UNCHANGED keptAck)
    BY <1>5, PublishStored
  <2>2. owed' = owed BY <1>5 DEF HandlePublish
  <2> QED BY <1>4, <2>1, <2>2
<1>6. CASE HandlePublishAck
  <2>0. PICK i, type : i = Head(toClient).id /\ type = Head(toClient).type OBVIOUS
  <2>1. /\ i \in PacketIds /\ toClient # <<>> /\ owed' = owed /\ status = "Connected"
    <3>1. Receiving(AckTypes) /\ owed' = owed BY <1>6 DEF HandlePublishAck
    <3>2. i \in PacketIds /\ toClient # <<>> BY <2>0, <3>1, HeadIs DEF Inv
    <3>3. status = "Connected" BY <3>1 DEF Receiving, Served
    <3> QED BY <3>1, <3>2, <3>3
  <2>2. CASE type = "PubRel"
    <3>1. outgoing' = outgoing /\ keptPublish' = keptPublish
      BY <1>6, <2>0, <2>2, PubRelStored
    <3>2. ~ NoneReceived
      <4>1. NoneReceived => Head(toClient) \in ClientBound BY <2>1, TailOf DEF NoneReceived
      <4> QED BY <2>0, <2>2, <4>1 DEF ClientBound
    <3> QED BY <1>4, <2>1, <3>1, <3>2
  <2>3. CASE type # "PubRel"
    <3>1. AnswerStored(i, type) BY <1>6, <2>0, <2>3, AnswerStoredIs
    <3>2. CASE UNCHANGED <<outgoing, keptPublish, keptAck>> BY <1>4, <2>1, <3>2
    <3>3. ASSUME AllBut(i), keptPublish' = StillKeptPublish(i, type),
                 \A y \in PacketIds : y # i => keptAck'[y] = keptAck[y],
                 KeptFor(i)'
          PROVE  KeptInv'
      <4>1. ASSUME NEW y \in PacketIds, y # i PROVE KeptFor(y)'
        <5>1. y \in keptPublish => y \in keptPublish' BY <3>3, <4>1 DEF StillKeptPublish
        <5>2. keptAck'[y] = keptAck[y] BY <3>3, <4>1
        <5>3. KeptFor(y) BY DEF KeptInv
        <5>4. /\ y \in IdsIn(outgoing') <=> y \in IdsIn(outgoing)
              /\ y \in IdsIn(outgoing) => RecordOf(outgoing', y) = RecordOf(outgoing, y)
          BY <3>3, <4>1 DEF AllBut
        <5> QED BY <5>1, <5>2, <5>3, <5>4, KeptStays
      <4> QED BY <2>1, <3>3, <4>1 DEF KeptInv
    <3>4. CASE /\ i \notin IdsIn(outgoing') /\ AllBut(i)
               /\ keptPublish' = StillKeptPublish(i, type) /\ keptAck' = StillKeptAck(i, type)
      <4>1. KeptFor(i)' BY <3>4 DEF KeptFor
      <4>2. \A y \in PacketIds : y # i => keptAck'[y] = keptAck[y]
        BY <1>1, <3>4 DEF StillKeptAck
      <4> QED BY <3>3, <3>4, <4>1, <4>2
    <3>5. CASE type = "PubRec" /\ PubRecTaken(i)
      <4>1. /\ RecordOf(outgoing', i).state \in {"PubRelSend", "PubCompPending"}
            /\ keptAck' = [keptAck EXCEPT ![i] = "PubRel"] /\ AllBut(i)
            /\ keptPublish' = StillKeptPublish(i, type)
        BY <2>1, <3>5 DEF PubRecTaken, Served, KeptAs, Record
      <4>2. KeptFor(i)'
        BY <1>1, <2>1, <4>1 DEF KeptFor, PublishToResendStates
      <4>3. \A y \in PacketIds : y # i => keptAck'[y] = keptAck[y] BY <1>1, <4>1
      <4> QED BY <3>3, <4>1, <4>2, <4>3
    <3> QED BY <3>1, <3>2, <3>4, <3>5 DEF AnswerStored
  <2> QED BY <2>2, <2>3
<1>7. ASSUME NEW id \in PacketIds, Cancel(id) PROVE KeptInv'
  <2>1. Forgotten(outgoing, outgoing', id)
    BY <1>7, RemoveCases, SessionAssumption DEF Cancel, Inv, GoodOut
  <2>2. owed' = {} /\ UNCHANGED <<keptPublish, keptAck>> BY <1>7 DEF Cancel, store, KeptInv
  <2>3. ASSUME NEW y \in PacketIds PROVE KeptFor(y)'
    <3>1. KeptFor(y) BY DEF KeptInv
    <3>2. y \in IdsIn(outgoing') =>
            y \in IdsIn(outgoing) /\ RecordOf(outgoing', y) = RecordOf(outgoing, y)
      BY <2>1 DEF Forgotten
    <3> QED BY <2>2, <3>1, <3>2, KeptStays
  <2> QED BY <2>2, <2>3 DEF KeptInv
<1>8. ~ PublishAgain BY PublishAgainIs DEF KeptInv
<1>9. CASE \/ Disconnect \/ HandleDisconnect \/ NoticeDrop \/ Drop \/ UNCHANGED vars \/ BrokerStep
           \/ \E id \in PacketIds, q \in InQoS : BrokerPublish(id, q)
  <2>1. UNCHANGED <<outgoing, keptPublish, keptAck, owed>>
    BY <1>9 DEF Disconnect, HandleDisconnect, NoticeDrop, Drop, vars, BrokerStep, BrokerPublish,
                store
  <2> QED BY <1>4, <2>1
<1> QED BY <1>2, <1>3, <1>5, <1>6, <1>7, <1>8, <1>9 DEF Next

\* So it stays, whichever way has no QoS 2.
LEMMA KeptHolds ==
  ASSUME Served, OneWayQoS2, HasStore
  PROVE  Spec => [](Inv /\ KeptInv)
<1>1. Init => Inv /\ KeptInv /\ NoneReceived /\ NoneSent
  <2> SUFFICES ASSUME Init PROVE KeptInv
    BY InitInv, InitReceived, InitSent
  <2>1. Occupied(outgoing) = {} BY DEF Init, Occupied, Empty, Record
  <2>2. IdsIn(outgoing) = {} BY <2>1 DEF IdsIn
  <2> QED BY <2>2 DEF KeptInv, KeptFor, Init
<1>2. CASE InQoS \subseteq {1}
  <2>1. Inv /\ KeptInv /\ NoneReceived /\ [Next]_vars => (Inv /\ KeptInv /\ NoneReceived)'
    BY <1>2, NextInv, NextKept, NextReceived
  <2> QED BY <1>1, <2>1, PTL DEF Spec
<1>3. CASE OutQoS \subseteq {1}
  <2>1. Inv /\ KeptInv /\ NoneSent /\ [Next]_vars => (Inv /\ KeptInv /\ NoneSent)'
    BY <1>3, NextInv, NextKept, NextSent
  <2> QED BY <1>1, <2>1, PTL DEF Spec
<1> QED BY <1>2, <1>3 DEF OneWayQoS2

\* A session that resumes finds in the store every packet it asks for, and it
\* is the one that is owed: after any losses, failed sends, cancelled publishes,
\* clean sessions and cut arrays.  It takes a store that accepts every copy, an
\* application that takes every message and reads nothing on a connection that
\* failed, and QoS 2 one way only: the key of a stored acknowledgement does not
\* tell a PUBREC from a PUBREL (client.rs 1700-1717, loop_.rs 780-784,
\* session.rs 477-546).
THEOREM ResumeFindsAll ==
  ASSUME Served, OneWayQoS2
  PROVE  Spec => []ResumeCanResend
<1>1. ASSUME Inv, HasStore => KeptInv PROVE ResumeCanResend
  <2>1. ASSUME NEW wanted, "Null" \notin wanted, NEW id \in InFlightIds(wanted)
        PROVE  /\ id \in PacketIds /\ id \in IdsIn(outgoing)
               /\ RecordOf(outgoing, id).state \in wanted
    <3>1. PICK k \in DOMAIN outgoing : outgoing[k].state \in wanted /\ id = outgoing[k].packet_id
      BY <2>1 DEF InFlightIds, InState
    <3>2. outgoing[k] # Empty BY <2>1, <3>1 DEF Empty, Record
    <3>3. id \in PacketIds BY <1>1, <3>1, <3>2 DEF Inv, GoodOut, Good, WellFormed
    <3>4. k \in Occupied(outgoing) BY <3>1, <3>3, InvalidAssumption DEF Occupied
    <3>5. id \in IdsIn(outgoing) /\ RecordOf(outgoing, id) = outgoing[k]
      BY <1>1, <3>1, <3>4, ById, SessionAssumption DEF Inv, GoodOut
    <3> QED BY <3>1, <3>3, <3>5
  <2>2. ASSUME HasStore, NEW id \in InFlightIds(PublishToResendStates)
        PROVE  id \in keptPublish
    BY <1>1, <2>1, <2>2, StateSets DEF KeptInv, KeptFor
  <2>3. ASSUME HasStore, NEW id \in InFlightIds(PubRelToResendStates)
        PROVE  keptAck[id] = "PubRel"
    BY <1>1, <2>1, <2>3, StateSets DEF KeptInv, KeptFor
  <2> QED BY <2>2, <2>3 DEF ResumeCanResend
<1>2. CASE HasStore BY <1>1, <1>2, KeptHolds, PTL
<1>3. CASE ~ HasStore
  <2>1. ResumeCanResend BY <1>3 DEF ResumeCanResend
  <2> QED BY <2>1, PTL
<1> QED BY <1>2, <1>3

---------------------------------------------------------------------------
(* What the answers find. *)

\* A record is noted as sent before its answer can come, except where a send
\* failed: there a repeat, by the application or by the resumption, notes it
\* before the connection is used again.  A store's resumption does not.
Noted(id) ==
  id \in IdsIn(outgoing) =>
    /\ RecordOf(outgoing, id).state = "PubRelSend" => ~ HasStore /\ status # "Connected"
    /\ RecordOf(outgoing, id).state = "PublishSend" =>
         ~ HasStore /\ (status = "Connected" => id \in owed)

AllNoted == \A id \in PacketIds : Noted(id)

\* A record that stays as it is stays noted, but for a new connection.
LEMMA NotedStays ==
  ASSUME NEW id \in PacketIds, Noted(id),
         id \in IdsIn(outgoing') =>
           id \in IdsIn(outgoing) /\ RecordOf(outgoing', id) = RecordOf(outgoing, id),
         status' = "Connected" => status = "Connected", id \in owed => id \in owed'
  PROVE  Noted(id)'
BY DEF Noted

\* Every action keeps it so, if no send fails on the way to a store.
LEMMA NextNoted ==
  ASSUME Inv, OutInv, AllNoted, Undisturbed, Served, ~ May("SendTimesOut"),
         ~ HasStore \/ ~ May("SendFails"), [Next]_vars
  PROVE  AllNoted'
<1>1. ASSUME NEW i \in PacketIds, NEW q \in {1, 2}, PublishKept(i, q) PROVE AllNoted'
  <2>1. ASSUME NEW y \in PacketIds, y # i PROVE Noted(y)'
    <3>1. /\ y \in IdsIn(outgoing') <=> y \in IdsIn(outgoing)
          /\ y \in IdsIn(outgoing) => RecordOf(outgoing', y) = RecordOf(outgoing, y)
          /\ status' = "Connected" => status = "Connected"
          /\ y \in owed => y \in owed'
      BY <1>1, <2>1 DEF PublishKept, AllBut
    <3>2. Noted(y) BY DEF AllNoted
    <3> QED BY <3>1, <3>2, NotedStays
  <2>2. Noted(i)'
    <3>1. CASE /\ UNCHANGED owed
               /\ i \in IdsIn(outgoing') <=> i \in IdsIn(outgoing)
               /\ i \in IdsIn(outgoing) => RecordOf(outgoing', i) = RecordOf(outgoing, i)
      <4>1. status' = "Connected" => status = "Connected" BY <1>1 DEF PublishKept
      <4>2. Noted(i) BY DEF AllNoted
      <4> QED BY <3>1, <4>1, <4>2, NotedStays
    <3>2. CASE /\ i \in IdsIn(outgoing')
               /\ RecordOf(outgoing', i).state \in PublishToResendStates
               /\ RecordOf(outgoing', i).state = "PublishSend" =>
                    May("SendFails") /\ status' = "DisconnectPending"
      BY <3>2 DEF Noted, PublishToResendStates
    <3> QED BY <1>1, <3>1, <3>2 DEF PublishKept, Served, Unsent
  <2> QED BY <2>1, <2>2 DEF AllNoted
<1>2. CASE PublishNew
  <2>1. PICK i \in PacketIds, q \in {1, 2} : Publish(i, q, FALSE)
    BY <1>2, SessionAssumption DEF PublishNew
  <2> QED BY <1>1, <2>1, PublishKeptIs
<1>3. CASE PublishAgain
  <2>1. PICK i \in PacketIds, q \in {1, 2} :
          /\ Publish(i, q, TRUE) /\ i \in IdsIn(outgoing) /\ RecordOf(outgoing, i).qos = q
          /\ i \in owed
    BY <1>3, PublishAgainIs
  <2>2. RecordOf(outgoing, i).state \in PublishToResendStates
    BY <2>1 DEF OutInv, AllFit, IdFits, Fits
  <2>3. PublishKept(i, q) BY <2>1, <2>2, PublishKeptIs
  <2> QED BY <1>1, <2>3
<1>4. CASE Connect
  <2>1. PICK m \in ReceiveMaxes :
          \/ CleanSession(CapTo(outgoing, m))
          \/ Resumption(CapTo(outgoing, m))
    BY <1>4 DEF Connect
  <2>2. PICK a : a = CapTo(outgoing, m) OBVIOUS
  <2>3. GoodOut(a) /\ SomeOf(outgoing, a)
    <3>1. m \in Nat /\ OutSlots \in Nat BY SessionAssumption
    <3> QED BY <2>2, <3>1, CapById DEF Inv, GoodOut
  <2>4. CASE CleanSession(a)
    <3>1. IdsIn(outgoing') = {} BY <2>4, ClearIds DEF CleanSession
    <3> QED BY <3>1 DEF AllNoted, Noted
  <2>5. CASE Resumption(a)
    <3>1. PICK n \in 0..Len(Rels(a)) + Len(Pubs(a)) : Resumed(a, n)
      BY <1>4, <2>3, <2>5, ResumedIs
    <3>2. IdsIn(outgoing') = IdsIn(a) /\ (HasStore => outgoing' = a) BY <3>1 DEF Resumed
    <3>3. ~ HasStore /\ status' = "Connected" => n = Len(Rels(a))
      <4>1. Rels(a) \in Seq(PacketIds)
        BY <2>3, OwedIs, StateSets, SessionAssumption DEF GoodOut, Rels
      <4>2. ~ HasStore => Len(Pubs(a)) = 0 BY DEF Pubs
      <4>3. status' = IF n = Len(Rels(a)) + Len(Pubs(a)) THEN "Connected"
                      ELSE "DisconnectPending"
        BY <3>1 DEF Resumed
      <4> QED BY <4>1, <4>2, <4>3
    <3>4. ASSUME NEW y \in IdsIn(a), HasStore PROVE Noted(y)'
      <4>1. /\ y \in IdsIn(outgoing) /\ RecordOf(outgoing', y) = RecordOf(outgoing, y)
            /\ y \in PacketIds
        BY <2>3, <3>2, <3>4, OutRecord DEF SomeOf
      <4>2. Noted(y) BY <4>1 DEF AllNoted
      <4> QED BY <3>4, <4>1, <4>2 DEF Noted
    <3>5. ASSUME NEW y \in IdsIn(a), ~ HasStore PROVE Noted(y)'
      <4>1. CASE RecordOf(a, y).state \in PublishToResendStates
        <5>1. RecordOf(outgoing', y) = RecordOf(a, y) BY <3>1, <4>1 DEF Resumed
        <5>2. owed' = Range(Owed(a, PublishToResendStates)) BY <3>1, <3>5 DEF Resumed
        <5>3. y \in owed'
          <6> DEFINE s == Owed(a, PublishToResendStates)
          <6>1. s \in Seq(PacketIds) /\ \E k \in 1..Len(s) : s[k] = y
            BY <2>3, <4>1, OwedIs, StateSets, SessionAssumption DEF GoodOut
          <6> HIDE DEF s
          <6>2. y \in Range(s) BY <6>1, Elements DEF Range
          <6> QED BY <5>2, <6>2 DEF s
        <5> QED BY <3>5, <4>1, <5>1, <5>3, StateSets DEF Noted, PublishToResendStates
      <4>2. CASE RecordOf(a, y).state \in PubRelToResendStates
        <5>1. /\ RecordOf(outgoing', y).state \in PubRelToResendStates
              /\ n = Len(Rels(a)) => RecordOf(outgoing', y).state = "PubCompPending"
          BY <3>1, <3>5, <4>2 DEF Resumed
        <5> QED BY <3>3, <3>5, <5>1, StateSets DEF Noted, PubRelToResendStates
      <4> QED BY <2>3, <4>1, <4>2, OutRecord
    <3>6. ASSUME NEW y \in PacketIds, y \notin IdsIn(a) PROVE Noted(y)'
      BY <3>2, <3>6 DEF Noted
    <3> QED BY <3>4, <3>5, <3>6 DEF AllNoted
  <2> QED BY <2>1, <2>2, <2>4, <2>5
<1>5. CASE HandlePublishAck
  <2>0. PICK i, type : i = Head(toClient).id /\ type = Head(toClient).type OBVIOUS
  <2>1. /\ i \in PacketIds /\ owed' = owed /\ status = "Connected"
        /\ status' = "Connected" => status = "Connected"
    BY <1>5, <2>0, HeadIs DEF Inv, HandlePublishAck, Receiving, Served
  <2>2. ASSUME NEW y \in PacketIds,
               /\ y \in IdsIn(outgoing') <=> y \in IdsIn(outgoing)
               /\ y \in IdsIn(outgoing) => RecordOf(outgoing', y) = RecordOf(outgoing, y)
        PROVE  Noted(y)'
    <3>1. Noted(y) BY DEF AllNoted
    <3> QED BY <2>1, <2>2, <3>1, NotedStays
  <2>3. CASE outgoing' = outgoing BY <2>2, <2>3 DEF AllNoted
  <2>4. CASE type = "PubRel" BY <1>5, <2>0, <2>3, <2>4, PubRelStored
  <2>5. ASSUME AllBut(i), Noted(i)' PROVE AllNoted'
    <3>1. ASSUME NEW y \in PacketIds, y # i PROVE Noted(y)'
      BY <2>2, <2>5, <3>1 DEF AllBut
    <3> QED BY <2>5, <3>1 DEF AllNoted
  <2>6. CASE type # "PubRel"
    <3>1. AnswerStored(i, type) BY <1>5, <2>0, <2>6, AnswerStoredIs
    <3>2. CASE i \notin IdsIn(outgoing') /\ AllBut(i) BY <2>5, <3>2 DEF Noted
    <3>3. CASE PubRecTaken(i)
      <4>1. \/ /\ RecordOf(outgoing', i) = Record(i, 2, "PubRelSend")
               /\ May("SendFails") /\ status' = "DisconnectPending"
            \/ RecordOf(outgoing', i) = Record(i, 2, "PubCompPending")
        BY <2>1, <3>3 DEF PubRecTaken, Served
      <4>2. AllBut(i) BY <3>3 DEF PubRecTaken
      <4> QED BY <2>5, <4>1, <4>2 DEF Noted, Record
    <3> QED BY <2>3, <3>1, <3>2, <3>3 DEF AnswerStored
  <2> QED BY <2>4, <2>6
<1>6. ASSUME outgoing' = outgoing, owed' = owed, status' = "Connected" => status = "Connected"
      PROVE  AllNoted'
  <2>1. ASSUME NEW y \in PacketIds PROVE Noted(y)'
    <3>1. Noted(y) BY DEF AllNoted
    <3> QED BY <1>6, <3>1, NotedStays
  <2> QED BY <2>1 DEF AllNoted
<1>7. CASE HandlePublish
  <2>1. outgoing' = outgoing /\ owed' = owed /\ status # "NotConnected"
    BY <1>7, HeadIs DEF Inv, HandlePublish
  <2>2. status = "Connected" BY <1>7 DEF HandlePublish, Receiving, Served
  <2> QED BY <1>6, <2>1, <2>2
<1>8. \A id \in PacketIds : ~ Cancel(id) BY DEF Cancel, Undisturbed
<1>9. CASE \/ Disconnect \/ HandleDisconnect \/ NoticeDrop \/ Drop \/ UNCHANGED vars \/ BrokerStep
           \/ \E id \in PacketIds, q \in InQoS : BrokerPublish(id, q)
  <2>1. /\ outgoing' = outgoing /\ owed' = owed
        /\ status' \in {status, "NotConnected", "DisconnectPending"}
    BY <1>9 DEF Disconnect, HandleDisconnect, NoticeDrop, Drop, vars, BrokerStep, BrokerPublish
  <2> QED BY <1>6, <2>1
<1> QED BY <1>2, <1>3, <1>4, <1>5, <1>7, <1>8, <1>9 DEF Next

\* Whatever is lost, cut short or repeated, an acknowledgement of a publish that
\* reaches the client is one its record waits for, so it is consumed and what
\* is behind it in the stream is reached.  It takes sends that do not time out:
\* a PUBREL that does leaves its PUBREC at the front of a connection still up,
\* refused on every pass.  With a store it takes sends that do not fail at all:
\* see the run resume_wedge (loop_.rs 183-198, 439-443, client.rs 759-764,
\* 854-859, state.rs 532-575).
THEOREM AnswersAwaited ==
  ASSUME Undisturbed, Served, ~ May("SendTimesOut"), ~ HasStore \/ ~ May("SendFails"),
         InQoS \subseteq {1}
  PROVE  Spec => []AckAccepted
<1>1. Init => Inv /\ OutInv /\ NoneReceived /\ AllNoted
  <2> SUFFICES ASSUME Init PROVE AllNoted
    BY InitInv, InitOut, InitReceived
  <2>1. Occupied(outgoing) = {} BY DEF Init, Occupied, Empty, Record
  <2>2. IdsIn(outgoing) = {} BY <2>1 DEF IdsIn
  <2> QED BY <2>2 DEF AllNoted, Noted
<1>2. Inv /\ OutInv /\ NoneReceived /\ AllNoted /\ [Next]_vars
        => (Inv /\ OutInv /\ NoneReceived /\ AllNoted)'
  BY NextInv, NextOut, NextReceived, NextNoted
<1>3. Inv /\ OutInv /\ NoneReceived /\ AllNoted => AckAccepted
  <2> SUFFICES ASSUME Inv, OutInv, NoneReceived, AllNoted, Receiving(AckTypes)
               PROVE  LET p == Head(toClient)
                      IN  UpdateAckIn(IF IsPublishOutgoing(p.type, "Receive")
                                      THEN outgoing ELSE incoming,
                                      p.id, p.type, "Receive").status = "Ok"
    BY DEF AckAccepted, AckAnswer
  <2> DEFINE p == Head(toClient)
             r == RecordOf(outgoing, p.id)
             a == UpdateAckIn(outgoing, p.id, p.type, "Receive")
  <2>1. toClient # <<>> /\ p.id \in PacketIds /\ p.type \in AckTypes /\ status = "Connected"
    BY HeadIs DEF Inv, Receiving, Served
  <2>2. p.type \in Answers
    <3>1. p \in ClientBound BY <2>1, TailOf DEF NoneReceived
    <3> QED BY <2>1, <3>1 DEF ClientBound, AckTypes, Answers
  <2>3. IsPublishOutgoing(p.type, "Receive") BY <2>2 DEF IsPublishOutgoing, Answers
  <2>4. OutgoingReceived(outgoing, a, p.id, p.type)
    BY <2>1, <2>2, OutgoingReceives, SessionAssumption DEF Inv, GoodOut, Answers
  <2>5. p \in About(toClient, Answers, p.id)
    BY <2>1, <2>2, AboutTail DEF Inv, Links, OutInv, Wires
  <2> HIDE DEF p, a, r
  <2>6. /\ AnswerFits(p, p.id \in IdsIn(outgoing), r, onward[p.id], p.id \in brokerIn)
        /\ p.id \notin owed
    BY <2>1, <2>5 DEF OutInv, AllFit, IdFits, Fits, r
  <2>7. p.id \in IdsIn(outgoing) /\ Noted(p.id) BY <2>1, <2>6 DEF AnswerFits, AllNoted
  <2>8. r.state \notin {"PublishSend", "PubRelSend"} BY <2>1, <2>6, <2>7 DEF Noted, r
  <2>9. <<p.type, r.state>> \in {<<"PubAck", "PubAckPending">>, <<"PubRec", "PubRecPending">>,
                                <<"PubComp", "PubCompPending">>}
    BY <2>2, <2>6, <2>8 DEF AnswerFits, Answers, PubRelToResendStates
  <2>10. a.status = "Ok" BY <2>4, <2>7, <2>9 DEF OutgoingReceived, r
  <2> QED BY <2>3, <2>10 DEF p, a
<1> QED BY <1>1, <1>2, <1>3, PTL DEF Spec

---------------------------------------------------------------------------
(* The store has nothing else. *)

\* Records leave only from handshakes that end: none is cancelled, or lost to
\* a clean session or a cut array.
Unbroken == SteadyMaximum /\ ~ May("CleanSession") /\ ~ May("Cancels")

\* A store that is not passed is told nothing.
NothingKept == keptPublish = {} /\ keptAck = [id \in PacketIds |-> "None"]

\* What is kept under one id is for a record that is there.
NeededFor(id) ==
  /\ id \in keptPublish =>
       id \in IdsIn(outgoing) /\ RecordOf(outgoing, id).state \in PublishToResendStates
  /\ keptAck[id] = "PubRel" =>
       id \in IdsIn(outgoing) /\ RecordOf(outgoing, id).state \in PubRelToResendStates

NeededInv ==
  /\ IF HasStore THEN owed = {} ELSE NothingKept
  /\ Settled /\ \A id \in PacketIds : NeededFor(id)

\* It stays so if the record does, and nothing is added.
LEMMA NeededStays ==
  ASSUME NEW id \in PacketIds, NeededFor(id),
         id \in IdsIn(outgoing') <=> id \in IdsIn(outgoing),
         id \in IdsIn(outgoing) => RecordOf(outgoing', id) = RecordOf(outgoing, id),
         id \in keptPublish' => id \in keptPublish,
         keptAck'[id] = "PubRel" => keptAck[id] = "PubRel"
  PROVE  NeededFor(id)'
BY DEF NeededFor

\* An incoming PUBLISH or PUBREL leaves no PUBREL in the store, though it may
\* put a PUBREC in its place.
LEMMA IncomingStored ==
  ASSUME Inv, HandlePublish \/ (HandlePublishAck /\ Head(toClient).type = "PubRel")
  PROVE  /\ UNCHANGED <<outgoing, keptPublish, owed>>
         /\ \A id \in PacketIds : keptAck'[id] = "PubRel" => keptAck[id] = "PubRel"
         /\ ~ HasStore => UNCHANGED keptAck
<1>0. keptAck \in [PacketIds -> {"None", "PubRec", "PubRel"}] BY DEF Inv, Kept
<1>1. ASSUME NEW records, NEW acks, NEW i, NEW ack, ack # "PubRel",
             acks \in [PacketIds -> {"None", "PubRec", "PubRel"}],
             \A id \in PacketIds : acks[id] = "PubRel" => keptAck[id] = "PubRel",
             ~ HasStore => acks = keptAck,
             NEW o \in AckOutcomes(records, acks, i, ack)
      PROVE  /\ \A id \in PacketIds : o.acks[id] = "PubRel" => keptAck[id] = "PubRel"
             /\ ~ HasStore => o.acks = keptAck
  <2>1. o.acks \in {acks, KeptAs(acks, i, ack)}
    <3>1. AckDone(o, records, acks, i, ack) \/ AckNotDone(o, records, acks, i, ack)
      BY AckOutcomeCases
    <3> QED BY <3>1 DEF AckDone, AckNotDone
  <2> QED BY <1>1, <2>1 DEF KeptAs
<1>2. CASE HandlePublish
  <2> DEFINE p        == Head(toClient)
             received == UpdatePublishReceive(incoming, p.id, p.qos)
             ack      == IF p.qos = 1 THEN "PubAck" ELSE "PubRec"
  <2>1. /\ UNCHANGED <<outgoing, keptPublish, owed>>
        /\ \/ UNCHANGED keptAck
           \/ \E o \in AckOutcomes(received.records, keptAck, p.id, ack) : keptAck' = o.acks
    BY <1>2 DEF HandlePublish, Answered, store
  <2>2. ack # "PubRel" OBVIOUS
  <2> HIDE DEF p, received, ack
  <2> QED BY <1>0, <1>1, <2>1, <2>2
<1>3. CASE HandlePublishAck /\ Head(toClient).type = "PubRel"
  <2> DEFINE i        == Head(toClient).id
             received == UpdateAckIn(incoming, i, "PubRel", "Receive")
             acks     == StillKeptAck(i, "PubRel")
  <2>1. owed' = owed BY <1>3 DEF HandlePublishAck
  <2>2. ~ IsPublishOutgoing("PubRel", "Receive") BY DEF IsPublishOutgoing
  <2>3. \/ UNCHANGED keptAck \/ keptAck' = acks
        \/ \E o \in AckOutcomes(received.records, acks, i, "PubComp") : keptAck' = o.acks
    BY <1>3, <2>2 DEF HandlePublishAck, Answered, store
  <2>4. /\ acks \in [PacketIds -> {"None", "PubRec", "PubRel"}]
        /\ \A id \in PacketIds : acks[id] = "PubRel" => keptAck[id] = "PubRel"
        /\ ~ HasStore => acks = keptAck
    BY <1>0 DEF StillKeptAck
  <2> HIDE DEF i, received, acks
  <2> QED BY <1>1, <1>3, <2>1, <2>3, <2>4, PubRelStored
<1> QED BY <1>2, <1>3

\* The array stays as short as a CONNACK may cut it.
LEMMA NextSettled ==
  ASSUME Inv, Settled, SteadyMaximum, [Next]_vars
  PROVE  Settled'
<1>1. ASSUME NEW i \in PacketIds, NEW q \in {1, 2}, NEW dup \in BOOLEAN, Publish(i, q, dup)
      PROVE  Settled'
  <2> DEFINE b == ReserveState(outgoing, i, q).records
             c == UpdatePublishSend(b, i, q).records
  <2>1. status = "Connected" /\ outgoing' \in {b, c} BY <1>1 DEF Publish
  <2>2. DOMAIN b = DOMAIN outgoing
    <3>1. LET r == ReserveState(outgoing, i, q)
              n == Record(i, q, "PublishSend")
          IN  /\ Good(r.records, OutSlots, OutgoingStates)
              /\ DOMAIN r.records = DOMAIN outgoing
              /\ \/ /\ r.status = "Ok" /\ i \notin IdsIn(outgoing)
                    /\ Recorded(outgoing, r.records, n) /\ Appended(outgoing, r.records, n)
                 \/ /\ r.status = "StateCollision" /\ i \in IdsIn(outgoing)
                    /\ SameRecords(outgoing, r.records) /\ SameFlight(outgoing, r.records)
                 \/ /\ r.status = "NoMemory" /\ i \notin IdsIn(outgoing)
                    /\ SameRecords(outgoing, r.records) /\ SameFlight(outgoing, r.records)
      BY SessionAssumption, ReserveCases DEF Inv, GoodOut
    <3> QED BY <3>1
  <2> HIDE DEF b
  <2>3. DOMAIN c = DOMAIN b BY DEF UpdatePublishSend, UpdateRecord, Result
  <2> HIDE DEF c
  <2>4. DOMAIN outgoing' = DOMAIN outgoing BY <2>1, <2>2, <2>3
  <2> QED BY <2>1, <2>4, SettledStays
<1>2. CASE PublishNew
  <2>1. PICK i \in PacketIds, q \in {1, 2} : Publish(i, q, FALSE)
    BY <1>2, SessionAssumption DEF PublishNew
  <2> QED BY <1>1, <2>1
<1>3. CASE PublishAgain BY <1>1, <1>3, PublishAgainIs
<1>4. CASE Connect
  <2>1. PICK m \in ReceiveMaxes :
          \/ CleanSession(CapTo(outgoing, m))
          \/ Resumption(CapTo(outgoing, m))
    BY <1>4 DEF Connect
  <2>2. PICK a : a = CapTo(outgoing, m) OBVIOUS
  <2>3. GoodOut(a) /\ \A x \in ReceiveMaxes : \A i \in DOMAIN a : i <= x
    BY <2>2, CapSteady
  <2>4. CASE CleanSession(a)
    <3>1. DOMAIN outgoing' = DOMAIN a BY <2>4, ClearIds DEF CleanSession
    <3> QED BY <2>3, <3>1 DEF Settled
  <2>5. CASE Resumption(a)
    <3>1. PICK n \in 0..Len(Rels(a)) + Len(Pubs(a)) : Resumed(a, n)
      BY <1>4, <2>3, <2>5, ResumedIs
    <3>2. DOMAIN outgoing' = DOMAIN a BY <3>1 DEF Resumed
    <3> QED BY <2>3, <3>2 DEF Settled
  <2> QED BY <2>1, <2>2, <2>4, <2>5
<1>5. CASE HandlePublishAck
  <2>1. status # "NotConnected" BY <1>5, HeadIs DEF Inv, HandlePublishAck
  <2>2. DOMAIN outgoing' = DOMAIN outgoing
    <3>1. CASE Head(toClient).type = "PubRel"
      BY <1>5, <3>1, PubRelStored
    <3>2. CASE Head(toClient).type # "PubRel"
      <4> DEFINE p == Head(toClient)
                 b == UpdateAckIn(outgoing, p.id, p.type, "Receive").records
                 c == UpdateAckIn(b, p.id, "PubRel", "Send").records
                 acks == StillKeptAck(p.id, p.type)
      <4>1. p.id \in PacketIds /\ p.type \in {"PubAck", "PubRec", "PubComp"}
        BY <1>5, <3>2, HeadIs DEF Inv, HandlePublishAck, AckTypes
      <4>2. IsPublishOutgoing(p.type, "Receive") BY <3>2 DEF IsPublishOutgoing
      <4>3. \/ outgoing' = b
            \/ \E o \in AckOutcomes(b, acks, p.id, "PubRel") : outgoing' = o.records
        BY <1>5, <3>2, <4>1, <4>2 DEF HandlePublishAck, Install
      <4>4. Good(b, OutSlots, OutgoingStates) /\ DOMAIN b = DOMAIN outgoing
        BY <4>1, OutgoingReceives, SessionAssumption DEF Inv, GoodOut
      <4> HIDE DEF p, b, acks
      <4>5. DOMAIN c = DOMAIN b
        <5>1. CalculateStateAck("PubRel", "Send", RecordOf(b, p.id).qos) # "PubRelSend"
          BY DEF CalculateStateAck
        <5> QED
          BY <5>1 DEF UpdateAckIn, UpdateRecord, DeleteRecord, Result
      <4>6. \A o \in AckOutcomes(b, acks, p.id, "PubRel") : o.records \in {b, c}
        BY AckOutcomeCases DEF AckDone, AckNotDone
      <4> HIDE DEF c
      <4> QED BY <4>3, <4>4, <4>5, <4>6
    <3> QED BY <3>1, <3>2
  <2> QED BY <2>1, <2>2, SettledStays
<1>6. ASSUME NEW id \in PacketIds, Cancel(id) PROVE Settled'
  <2>1. DOMAIN outgoing' = DOMAIN outgoing /\ IdsIn(outgoing') \subseteq IdsIn(outgoing)
    BY <1>6, RemoveCases, SessionAssumption DEF Cancel, Inv, GoodOut, Forgotten
  <2>2. status' = status BY <1>6 DEF Cancel
  <2> QED BY <2>1, <2>2, SettledStays
<1>7. CASE HandlePublish
  <2>1. status # "NotConnected" BY <1>7, HeadIs DEF Inv, HandlePublish
  <2>2. outgoing' = outgoing BY <1>7, PublishStored
  <2> QED BY <2>1, <2>2, SettledStays
<1>8. CASE \/ Disconnect \/ HandleDisconnect \/ NoticeDrop \/ Drop \/ UNCHANGED vars \/ BrokerStep
           \/ \E id \in PacketIds, q \in InQoS : BrokerPublish(id, q)
  <2>1. outgoing' = outgoing /\ (status' # "NotConnected" => status # "NotConnected")
    BY <1>8 DEF Disconnect, HandleDisconnect, NoticeDrop, Drop, vars, BrokerStep, BrokerPublish
  <2> QED BY <2>1, SettledStays
<1> QED BY <1>2, <1>3, <1>4, <1>5, <1>6, <1>7, <1>8 DEF Next

\* Without a store every call leaves it so.
LEMMA NothingStays ==
  ASSUME Inv, NothingKept, ~ HasStore, [Next]_vars
  PROVE  NothingKept'
<1>0. keptPublish = {} /\ keptAck \in [PacketIds -> {"None", "PubRec", "PubRel"}]
  BY DEF Inv, Kept, NothingKept
<1>1. ASSUME NEW i, NEW q, NEW dup, Publish(i, q, dup) PROVE UNCHANGED <<keptPublish, keptAck>>
  BY <1>1 DEF Publish, store
<1>2. CASE PublishNew \/ PublishAgain
  BY <1>1, <1>2 DEF PublishNew, PublishAgain, NothingKept
<1>3. CASE Connect
  <2>1. ASSUME NEW a, CleanSession(a) PROVE UNCHANGED <<keptPublish, keptAck>>
    BY <2>1 DEF CleanSession
  <2>2. ASSUME NEW a, Resumption(a) PROVE UNCHANGED <<keptPublish, keptAck>>
    BY <2>2 DEF Resumption, store
  <2> QED BY <1>3, <2>1, <2>2 DEF Connect, NothingKept
<1>4. CASE HandlePublish \/ (HandlePublishAck /\ Head(toClient).type = "PubRel")
  <2>1. UNCHANGED <<keptPublish, keptAck>> BY <1>4, IncomingStored
  <2> QED BY <2>1 DEF NothingKept
<1>5. CASE HandlePublishAck /\ Head(toClient).type # "PubRel"
  <2> DEFINE i == Head(toClient).id
  <2>1. AnswerStored(i, Head(toClient).type) BY <1>5, AnswerStoredIs
  <2> HIDE DEF i
  <2>2. UNCHANGED <<keptPublish, keptAck>>
    BY <2>1 DEF AnswerStored, PubRecTaken, StillKeptPublish, StillKeptAck, KeptAs
  <2> QED BY <2>2 DEF NothingKept
<1>6. CASE \/ Disconnect \/ HandleDisconnect \/ NoticeDrop \/ Drop \/ UNCHANGED vars \/ BrokerStep
           \/ \E id \in PacketIds : Cancel(id)
           \/ \E id \in PacketIds, q \in InQoS : BrokerPublish(id, q)
  <2>1. UNCHANGED <<keptPublish, keptAck>>
    BY <1>6 DEF Disconnect, HandleDisconnect, NoticeDrop, Drop, vars, BrokerStep, BrokerPublish,
                Cancel, store
  <2> QED BY <2>1 DEF NothingKept
<1> QED BY <1>2, <1>3, <1>4, <1>5, <1>6 DEF Next

\* No step leaves anything behind: not a failed send, a store or a handler that
\* refuses, a lost connection or a resumption cut short.
LEMMA NextNeeded ==
  ASSUME Inv, NeededInv, Unbroken, [Next]_vars
  PROVE  NeededInv'
<1>0. Settled' BY NextSettled DEF NeededInv, Unbroken
<1>1. keptAck \in [PacketIds -> {"None", "PubRec", "PubRel"}] BY DEF Inv, Kept
<1>2. CASE ~ HasStore
  <2>1. NothingKept' BY <1>2, NothingStays DEF NeededInv
  <2> QED BY <1>0, <1>2, <2>1 DEF NeededInv, NeededFor, NothingKept
<1>3. ASSUME HasStore, owed' = {}, \A y \in PacketIds : NeededFor(y)' PROVE NeededInv'
  BY <1>0, <1>3 DEF NeededInv
<1>4. ASSUME HasStore, UNCHANGED <<outgoing, keptPublish, owed>>,
             \A id \in PacketIds : keptAck'[id] = "PubRel" => keptAck[id] = "PubRel"
      PROVE  NeededInv'
  BY <1>3, <1>4, NeededStays DEF NeededInv
<1>5. CASE HasStore /\ PublishNew
  <2>1. PICK i \in PacketIds, q \in {1, 2} : Publish(i, q, FALSE)
    BY <1>5, SessionAssumption DEF PublishNew
  <2>2. PublishKept(i, q) BY <2>1, PublishKeptIs
  <2>3. owed' = {} BY <1>5, <2>1, Zenon DEF Publish, NeededInv
  <2>4. ASSUME NEW y \in PacketIds, y # i PROVE NeededFor(y)'
    <3>1. NeededFor(y) BY DEF NeededInv
    <3>2. /\ y \in IdsIn(outgoing') <=> y \in IdsIn(outgoing)
          /\ y \in IdsIn(outgoing) => RecordOf(outgoing', y) = RecordOf(outgoing, y)
          /\ keptAck' = keptAck /\ (y \in keptPublish' => y \in keptPublish)
      BY <2>2, <2>4 DEF PublishKept, AllBut
    <3> QED BY <3>1, <3>2, NeededStays
  <2>5. NeededFor(i)'
    <3>1. NeededFor(i) BY DEF NeededInv
    <3>2. CASE /\ UNCHANGED keptPublish
               /\ i \in IdsIn(outgoing') <=> i \in IdsIn(outgoing)
               /\ i \in IdsIn(outgoing) => RecordOf(outgoing', i) = RecordOf(outgoing, i)
      <4>1. keptAck' = keptAck BY <2>2 DEF PublishKept
      <4> QED BY <3>1, <3>2, <4>1, NeededStays
    <3>3. CASE /\ i \in IdsIn(outgoing')
               /\ RecordOf(outgoing', i).state \in PublishToResendStates
      <4>1. keptAck[i] # "PubRel"
        BY <2>2, <3>1, <3>2, <3>3, StateSets DEF PublishKept, NeededFor
      <4> QED BY <2>2, <3>3, <4>1 DEF NeededFor, PublishKept
    <3> QED BY <2>2, <3>2, <3>3 DEF PublishKept
  <2> QED BY <1>3, <1>5, <2>3, <2>4, <2>5
<1>6. CASE HasStore /\ Connect
  <2>1. PICK m \in ReceiveMaxes : Resumption(CapTo(outgoing, m))
    BY <1>6 DEF Connect, Unbroken
  <2>2. PICK a : a = CapTo(outgoing, m) OBVIOUS
  <2>3. GoodOut(a) /\ SameRecords(outgoing, a) BY <2>2, CapSteady DEF NeededInv, Unbroken
  <2>4. PICK n \in 0..Len(Rels(a)) + Len(Pubs(a)) : Resumed(a, n)
    BY <1>6, <2>1, <2>2, <2>3, ResumedIs
  <2>5. outgoing' = a /\ owed' = {} /\ UNCHANGED <<keptPublish, keptAck>>
    BY <1>6, <2>4 DEF Resumed
  <2>6. ASSUME NEW y \in PacketIds PROVE NeededFor(y)'
    <3>1. NeededFor(y) BY DEF NeededInv
    <3> QED BY <2>3, <2>5, <3>1, NeededStays DEF SameRecords
  <2> QED BY <1>3, <1>6, <2>5, <2>6
<1>7. CASE HasStore /\ (HandlePublish \/ (HandlePublishAck /\ Head(toClient).type = "PubRel"))
  BY <1>4, <1>7, IncomingStored
<1>8. CASE HasStore /\ HandlePublishAck /\ Head(toClient).type # "PubRel"
  <2>0. PICK i, type : i = Head(toClient).id /\ type = Head(toClient).type OBVIOUS
  <2>1. /\ i \in PacketIds /\ owed' = {}
    BY <1>8, <2>0, HeadIs DEF Inv, HandlePublishAck, NeededInv
  <2>2. AnswerStored(i, type) BY <1>8, <2>0, AnswerStoredIs
  <2>3. NeededFor(i) BY <2>1 DEF NeededInv
  <2>4. ASSUME AllBut(i), keptPublish' \subseteq keptPublish,
               \A y \in PacketIds : y # i => keptAck'[y] = keptAck[y],
               NeededFor(i)'
        PROVE  NeededInv'
    <3>1. ASSUME NEW y \in PacketIds, y # i PROVE NeededFor(y)'
      <4>1. NeededFor(y) BY DEF NeededInv
      <4>2. /\ y \in IdsIn(outgoing') <=> y \in IdsIn(outgoing)
            /\ y \in IdsIn(outgoing) => RecordOf(outgoing', y) = RecordOf(outgoing, y)
        BY <2>4, <3>1 DEF AllBut
      <4> QED BY <2>4, <3>1, <4>1, <4>2, NeededStays
    <3> QED BY <1>3, <1>8, <2>1, <2>4, <3>1
  <2>5. CASE UNCHANGED <<outgoing, keptPublish, keptAck>>
    <3>1. owed' = owed BY <1>8, <2>1 DEF NeededInv
    <3> QED BY <1>4, <1>8, <2>5, <3>1
  <2>6. CASE type \in {"PubAck", "PubComp"}
    <3>1. CASE UNCHANGED <<outgoing, keptPublish, keptAck>> BY <2>5, <3>1
    <3>2. CASE ~ UNCHANGED <<outgoing, keptPublish, keptAck>>
      <4>1. /\ i \in IdsIn(outgoing) /\ i \notin IdsIn(outgoing') /\ AllBut(i)
            /\ keptPublish' = StillKeptPublish(i, type) /\ keptAck' = StillKeptAck(i, type)
        BY <2>2, <2>6, <3>2 DEF AnswerStored
      <4>2. i \notin keptPublish' /\ keptAck'[i] # "PubRel"
        <5>1. RecordOf(outgoing, i).state \in
                IF type = "PubAck" THEN PublishToResendStates ELSE PubRelToResendStates
          BY <2>2, <2>6, <3>2 DEF AnswerStored
        <5> QED BY <1>1, <1>8, <2>1, <2>3, <2>6, <4>1, <5>1, StateSets
                DEF NeededFor, StillKeptPublish, StillKeptAck
      <4>3. /\ keptPublish' \subseteq keptPublish
            /\ \A y \in PacketIds : y # i => keptAck'[y] = keptAck[y]
        BY <1>1, <2>1, <4>1 DEF StillKeptPublish, StillKeptAck
      <4> QED BY <2>4, <4>1, <4>2, <4>3 DEF NeededFor
    <3> QED BY <3>1, <3>2
  <2>7. CASE type = "PubRec" /\ PubRecTaken(i)
    <3>1. /\ i \in IdsIn(outgoing') /\ AllBut(i)
          /\ RecordOf(outgoing', i).state \in PubRelToResendStates
          /\ keptPublish' = keptPublish \ {i}
          /\ keptAck' \in {keptAck, [keptAck EXCEPT ![i] = "PubRel"]}
      BY <1>8, <2>7 DEF PubRecTaken, StillKeptPublish, KeptAs, Record, PubRelToResendStates
    <3>2. NeededFor(i)' BY <3>1 DEF NeededFor
    <3>3. \A y \in PacketIds : y # i => keptAck'[y] = keptAck[y] BY <1>1, <3>1
    <3> QED BY <2>4, <3>1, <3>2, <3>3
  <2> QED BY <2>2, <2>5, <2>6, <2>7 DEF AnswerStored
<1>9. \A id \in PacketIds : ~ Cancel(id) BY DEF Cancel, Unbroken
<1>10. HasStore => ~ PublishAgain BY PublishAgainIs DEF NeededInv
<1>11. CASE /\ HasStore
            /\ \/ Disconnect \/ HandleDisconnect \/ NoticeDrop \/ Drop \/ UNCHANGED vars \/ BrokerStep
               \/ \E id \in PacketIds, q \in InQoS : BrokerPublish(id, q)
  <2>1. UNCHANGED <<outgoing, keptPublish, keptAck, owed>>
    BY <1>11 DEF Disconnect, HandleDisconnect, NoticeDrop, Drop, vars, BrokerStep, BrokerPublish,
                 store
  <2> QED BY <1>4, <1>11, <2>1
<1> QED BY <1>2, <1>5, <1>6, <1>7, <1>8, <1>9, <1>10, <1>11 DEF Next
=============================================================================
