----------------------- MODULE MqttSessionHandshakes -----------------------
(***************************************************************************)
(* The outgoing handshakes of MqttSession, proved for every array size,    *)
(* every set of packet ids and any number of packets on the wire: a QoS 2  *)
(* publish is forwarded at most once while its record lives, none is       *)
(* completed that was not forwarded, and none overtakes an earlier one.    *)
(*                                                                         *)
(* The invariant says, packet id by packet id, what may be under way: a    *)
(* request to the broker or its answer, never both, never two of either,   *)
(* and never one that the record, the broker's memory of the id and the    *)
(* count of times it was forwarded do not agree with.                      *)
(***************************************************************************)
EXTENDS MqttSessionProofs

---------------------------------------------------------------------------
(* Packets of some types about one publish. *)

About(s, types, id) ==
  {s[k] : k \in {n \in DOMAIN s : s[n].type \in types /\ s[n].id = id}}

\* No two of them on one way.
OneEach(s, types) ==
  \A k, l \in DOMAIN s :
    s[k].type \in types /\ s[l].type \in types /\ s[k].id = s[l].id => k = l

\* An empty wire carries none.
LEMMA AboutNone ==
  \A types, id : About(<<>>, types, id) = {} /\ OneEach(<<>>, types)
BY DEF About, OneEach

\* The first packet leaves, and no other like it was there.
LEMMA AboutTail ==
  ASSUME NEW s \in Seq(Packets), s # <<>>, NEW types, OneEach(s, types)
  PROVE  /\ OneEach(Tail(s), types)
         /\ \A id : About(Tail(s), types, id) =
                      IF Head(s).type \in types /\ Head(s).id = id THEN {}
                      ELSE About(s, types, id)
         /\ Head(s).type \in types => Head(s) \in About(s, types, Head(s).id)
<1> DEFINE t == Tail(s)
<1>1. /\ Head(s) = s[1] /\ Len(s) >= 1
      /\ t \in Seq(Packets) /\ Len(t) = Len(s) - 1
      /\ \A k \in 1..Len(t) : t[k] = s[k+1]
  BY TailOf
<1>2. DOMAIN s = 1..Len(s) /\ Len(s) \in Nat BY Elements
<1>3. DOMAIN t = 1..Len(s)-1 BY <1>1, Elements
<1> HIDE DEF t
<1>4. OneEach(t, types)
  <2> SUFFICES ASSUME NEW k \in DOMAIN t, NEW l \in DOMAIN t,
                      t[k].type \in types, t[l].type \in types, t[k].id = t[l].id
               PROVE  k = l
    BY DEF OneEach
  <2>1. k+1 \in DOMAIN s /\ l+1 \in DOMAIN s /\ t[k] = s[k+1] /\ t[l] = s[l+1]
    BY <1>1, <1>2, <1>3
  <2>2. k + 1 = l + 1 BY <2>1 DEF OneEach
  <2> QED BY <1>3, <2>2
<1>5. ASSUME NEW id
      PROVE  About(t, types, id) = IF s[1].type \in types /\ s[1].id = id THEN {}
                                   ELSE About(s, types, id)
  <2>1. \A k \in DOMAIN t : k + 1 \in DOMAIN s /\ t[k] = s[k+1] /\ k + 1 # 1
    BY <1>1, <1>2, <1>3
  <2>2. \A n \in DOMAIN s : n # 1 => n - 1 \in DOMAIN t /\ t[n-1] = s[n]
    BY <1>1, <1>2, <1>3
  <2>3. 1 \in DOMAIN s BY <1>1, <1>2
  <2>4. CASE s[1].type \in types /\ s[1].id = id
    <3>1. \A k \in DOMAIN t : ~ (t[k].type \in types /\ t[k].id = id)
      BY <2>1, <2>3, <2>4 DEF OneEach
    <3> QED BY <2>4, <3>1 DEF About
  <2>5. CASE ~ (s[1].type \in types /\ s[1].id = id)
    <3>1. About(t, types, id) \subseteq About(s, types, id) BY <2>1 DEF About
    <3>2. About(s, types, id) \subseteq About(t, types, id) BY <2>2, <2>5 DEF About
    <3> QED BY <2>5, <3>1, <3>2
  <2> QED BY <2>4, <2>5
<1>6. s[1].type \in types => s[1] \in About(s, types, s[1].id)
  BY <1>1, <1>2 DEF About
<1> QED BY <1>1, <1>4, <1>5, <1>6 DEF t

\* A packet joins them.
LEMMA AboutAppend ==
  ASSUME NEW s \in Seq(Packets), NEW p \in Packets, NEW types
  PROVE  /\ \A id : About(Append(s, p), types, id) =
                      About(s, types, id)
                      \cup (IF p.type \in types /\ p.id = id THEN {p} ELSE {})
         /\ OneEach(s, types) /\ (p.type \in types => About(s, types, p.id) = {})
              => OneEach(Append(s, p), types)
<1> DEFINE t == Append(s, p)
<1>1. /\ t \in Seq(Packets) /\ Len(t) = Len(s) + 1
      /\ \A k \in 1..Len(s) : t[k] = s[k]
      /\ t[Len(s) + 1] = p
  BY AppendOf
<1>2. DOMAIN s = 1..Len(s) /\ Len(s) \in Nat BY Elements
<1>3. DOMAIN t = 1..Len(s)+1 BY <1>1, Elements
<1> HIDE DEF t
<1>4. DOMAIN t = DOMAIN s \cup {Len(s)+1} BY <1>2, <1>3
<1>5. ASSUME NEW id
      PROVE  About(t, types, id) = About(s, types, id)
                                   \cup (IF p.type \in types /\ p.id = id THEN {p} ELSE {})
  <2>1. About(t, types, id) \subseteq About(s, types, id)
                                      \cup (IF p.type \in types /\ p.id = id THEN {p} ELSE {})
    BY <1>1, <1>2, <1>4 DEF About
  <2>2. About(s, types, id) \subseteq About(t, types, id) BY <1>1, <1>2, <1>4 DEF About
  <2>3. (IF p.type \in types /\ p.id = id THEN {p} ELSE {}) \subseteq About(t, types, id)
    BY <1>1, <1>4 DEF About
  <2> QED BY <2>1, <2>2, <2>3
<1>6. ASSUME OneEach(s, types), p.type \in types => About(s, types, p.id) = {}
      PROVE  OneEach(t, types)
  <2>1. \A k \in DOMAIN s : ~ (s[k].type \in types /\ p.type \in types /\ s[k].id = p.id)
    BY <1>6 DEF About
  <2> QED BY <1>1, <1>2, <1>4, <1>6, <2>1 DEF OneEach
<1> QED BY <1>5, <1>6 DEF t

---------------------------------------------------------------------------
(* The invariant. *)

Requests == {"Publish", "PubRel"}
Answers  == {"PubAck", "PubRec", "PubComp"}

\* A request is about a record that still waits for its answer.
RequestFits(p, live, r) ==
  /\ live
  /\ p.type = "Publish" => r.qos = p.qos /\ r.state \in PublishToResendStates
  /\ p.type = "PubRel"  => r.state \in PubRelToResendStates

\* So is an answer, and the broker has had the message; after a PUBCOMP it
\* remembers nothing of it.
AnswerFits(p, live, r, count, held) ==
  /\ live
  /\ p.type = "PubAck"  => /\ r.qos = 1 /\ r.state \in {"PublishSend", "PubAckPending"}
                           /\ count > 0
  /\ p.type = "PubRec"  => /\ r.qos = 2 /\ count = 1
                           /\ r.state \in {"PublishSend", "PubRecPending", "PubRelSend"}
  /\ p.type = "PubComp" => r.state \in PubRelToResendStates /\ ~ held

\* A record agrees with what the broker did with its message.
RecordFits(r, count, held) ==
  /\ r.qos = 1 => ~ held
  /\ r.qos = 2 /\ r.state \in PublishToResendStates => count < 2 /\ (count = 1 <=> held)
  /\ r.state \in PubRelToResendStates => count = 1

\* What may be true of one publish: live is that there is a record, r; asked
\* and replied what is on the wires; count how often it was forwarded; held
\* that the broker remembers the id; owes that the application must repeat it.
Fits(live, r, asked, replied, count, held, owes) ==
  /\ asked = {} \/ replied = {}
  /\ \A p \in asked : RequestFits(p, live, r)
  /\ \A p \in replied : AnswerFits(p, live, r, count, held)
  /\ live => RecordFits(r, count, held)
  /\ held => live
  /\ owes => live /\ r.state \in PublishToResendStates /\ asked = {} /\ replied = {}

IdFits(id) ==
  Fits(id \in IdsIn(outgoing), RecordOf(outgoing, id), About(toBroker, Requests, id),
       About(toClient, Answers, id), onward[id], id \in brokerIn, id \in owed)

\* Once there are records, or a connection, the array is as short as any
\* CONNACK may cut it.
Settled ==
  status # "NotConnected" \/ IdsIn(outgoing) # {} =>
    \A m \in ReceiveMaxes : \A i \in DOMAIN outgoing : i <= m

Wires == OneEach(toBroker, Requests) /\ OneEach(toClient, Answers)

AllFit == \A id \in PacketIds : IdFits(id)

OutInv == Wires /\ AllFit /\ (HasStore => owed = {}) /\ Settled

---------------------------------------------------------------------------
(* What the theorems ask of the surroundings.                              *)

\* Every connection announces the same Receive Maximum, or one the array is
\* no longer than: a cut that leaves records out is another matter (README).
SteadyMaximum ==
  \A m, n \in ReceiveMaxes : m = n \/ (m >= OutSlots /\ n >= OutSlots)

\* The application takes every message, and cancels none.
Undisturbed == ~ May("HandlerRefuses") /\ ~ May("Cancels") /\ SteadyMaximum

---------------------------------------------------------------------------
(* A publish that a step does not touch. *)

\* An id stays in order if its record, its count and the broker's memory of
\* it stay, and nothing is added to the wires.
LEMMA Untouched ==
  ASSUME NEW id \in PacketIds, IdFits(id),
         id \in IdsIn(outgoing') <=> id \in IdsIn(outgoing),
         id \in IdsIn(outgoing) => RecordOf(outgoing', id) = RecordOf(outgoing, id),
         About(toBroker', Requests, id) \subseteq About(toBroker, Requests, id),
         About(toClient', Answers, id) \subseteq About(toClient, Answers, id),
         onward'[id] = onward[id], id \in brokerIn' <=> id \in brokerIn,
         id \in owed' => id \in owed
  PROVE  IdFits(id)'
<1> DEFINE r        == RecordOf(outgoing, id)
           r2       == RecordOf(outgoing', id)
           asked    == About(toBroker, Requests, id)
           asked2   == About(toBroker', Requests, id)
           replied  == About(toClient, Answers, id)
           replied2 == About(toClient', Answers, id)
<1>1. Fits(id \in IdsIn(outgoing), r, asked, replied, onward[id], id \in brokerIn, id \in owed)
  BY DEF IdFits
<1>2. asked2 \subseteq asked /\ replied2 \subseteq replied OBVIOUS
<1>3. id \in IdsIn(outgoing) => r2 = r OBVIOUS
<1> HIDE DEF asked, asked2, replied, replied2, r, r2
<1>4. Fits(id \in IdsIn(outgoing'), r2, asked2, replied2, onward'[id],
           id \in brokerIn', id \in owed')
  BY <1>1, <1>2, <1>3 DEF Fits, RequestFits, AnswerFits
<1> QED BY <1>4 DEF IdFits, asked2, replied2, r2

\* Only a connection changes how long the array is.
LEMMA SettledStays ==
  ASSUME Settled, DOMAIN outgoing' = DOMAIN outgoing,
         status' # "NotConnected" => status # "NotConnected",
         IdsIn(outgoing') # {} => status # "NotConnected" \/ IdsIn(outgoing) # {}
  PROVE  Settled'
BY DEF Settled

---------------------------------------------------------------------------
(* Steps that touch no outgoing publish. *)

\* A connection that ends takes its packets with it and leaves the rest.
LEMMA QuietOut ==
  ASSUME Inv, OutInv, Disconnect \/ HandleDisconnect \/ NoticeDrop \/ Drop
  PROVE  OutInv'
<1>1. /\ UNCHANGED <<outgoing, owed, brokerIn, onward>>
      /\ status' # "NotConnected" => status # "NotConnected"
      /\ \/ UNCHANGED <<toBroker, toClient>>
         \/ toBroker' = <<>> /\ toClient' = <<>>
  BY DEF Disconnect, HandleDisconnect, NoticeDrop, Drop, Unplugged, broker
<1>2. ASSUME NEW id \in PacketIds
      PROVE  /\ About(toBroker', Requests, id) \subseteq About(toBroker, Requests, id)
             /\ About(toClient', Answers, id) \subseteq About(toClient, Answers, id)
  BY <1>1, AboutNone
<1>3. AllFit' BY <1>1, <1>2, Untouched DEF OutInv, AllFit
<1>4. Wires' BY <1>1, AboutNone DEF OutInv, Wires
<1>5. Settled'
  <2>1. IdsIn(outgoing') = IdsIn(outgoing) BY <1>1
  <2> QED BY <1>1, <2>1, SettledStays DEF OutInv
<1> QED BY <1>1, <1>3, <1>4, <1>5 DEF OutInv

\* A packet from the broker that answers nothing.
LEMMA BrokerPublishOut ==
  ASSUME Inv, OutInv, NEW i \in PacketIds, NEW q \in InQoS, BrokerPublish(i, q)
  PROVE  OutInv'
<1> DEFINE p == Packet("Publish", i, q)
<1>1. /\ UNCHANGED <<status, outgoing, owed, brokerIn, onward, toBroker>>
      /\ toClient' = Append(toClient, p)
  BY DEF BrokerPublish
<1>2. q \in QoS BY SessionAssumption DEF QoS
<1>3. p \in Packets /\ p.type \notin Answers BY <1>2, PacketIs DEF Packet, Answers
<1> HIDE DEF p
<1>4. /\ \A id : About(toClient', Answers, id) =
           About(toClient, Answers, id)
           \cup (IF p.type \in Answers /\ p.id = id THEN {p} ELSE {})
      /\ OneEach(toClient, Answers) /\ (p.type \in Answers => About(toClient, Answers, p.id) = {})
           => OneEach(toClient', Answers)
  BY <1>1, <1>3, AboutAppend DEF Inv, Links
<1>5. AllFit' BY <1>1, <1>3, <1>4, Untouched DEF OutInv, AllFit
<1>6. Wires' BY <1>1, <1>3, <1>4 DEF OutInv, Wires
<1>7. Settled' BY <1>1, SettledStays DEF OutInv
<1> QED BY <1>1, <1>5, <1>6, <1>7 DEF OutInv

\* What a handler that sends an acknowledgement does to the wires: nothing, or
\* the acknowledgement is on its way and, if its record took note of it, the
\* packet it answers is gone.
AfterAck(o, records, acks, i, ack) ==
  LET p == Packet(ack, i, 0)
      h == Head(toClient)
  IN  /\ Wires' /\ status' \in {status, "DisconnectPending"}
      /\ \/ /\ AckNotDone(o, records, acks, i, ack)
            /\ UNCHANGED <<toBroker, toClient>>
         \/ /\ AckDone(o, records, acks, i, ack) /\ toBroker' = Append(toBroker, p)
            /\ \A id : About(toBroker', Requests, id) =
                 About(toBroker, Requests, id)
                 \cup (IF ack \in Requests /\ i = id THEN {p} ELSE {})
            /\ \/ UpdateAckIn(records, i, ack, "Send").status # "Ok" /\ UNCHANGED toClient
               \/ \A id : About(toClient', Answers, id) =
                    IF h.type \in Answers /\ h.id = id THEN {}
                    ELSE About(toClient, Answers, id)

\* It does one or the other.
LEMMA AnsweredWires ==
  ASSUME Links, Wires, linkUp, toClient # <<>>, NEW records, NEW acks, NEW i \in PacketIds,
         NEW ack \in AckTypes, NEW o \in AckOutcomes(records, acks, i, ack), Answered(o),
         ack \notin Requests \/ About(toBroker, Requests, i) = {}
  PROVE  AfterAck(o, records, acks, i, ack)
<1> DEFINE p == Packet(ack, i, 0)
           h == Head(toClient)
<1>1. p \in Packets /\ p.type = ack /\ p.id = i
  <2>1. p \in Packets BY PacketIs DEF QoS
  <2> QED BY <2>1 DEF Packet
<1> HIDE DEF p
<1>2. /\ \A id : About(Append(toBroker, p), Requests, id) =
           About(toBroker, Requests, id) \cup (IF p.type \in Requests /\ p.id = id THEN {p} ELSE {})
      /\ OneEach(toBroker, Requests) /\ (p.type \in Requests => About(toBroker, Requests, p.id) = {})
           => OneEach(Append(toBroker, p), Requests)
  BY <1>1, AboutAppend DEF Links
<1>3. /\ OneEach(Tail(toClient), Answers)
      /\ \A id : About(Tail(toClient), Answers, id) =
           IF Head(toClient).type \in Answers /\ Head(toClient).id = id THEN {}
           ELSE About(toClient, Answers, id)
      /\ Head(toClient).type \in Answers =>
           Head(toClient) \in About(toClient, Answers, Head(toClient).id)
  BY AboutTail DEF Links, Wires
<1>4. OnWire(<<p>>) = Append(toBroker, p) /\ OnWire(<<>>) = toBroker
  BY <1>1, OnWireOf DEF Links
<1>5. CASE AckNotDone(o, records, acks, i, ack)
  <2>1. UNCHANGED <<toBroker, toClient>> BY <1>4, <1>5 DEF AckNotDone, Answered
  <2>2. Wires' BY <2>1 DEF Wires
  <2>3. status' \in {status, "DisconnectPending"} BY <1>5 DEF AckNotDone, Answered
  <2> QED BY <1>5, <2>1, <2>2, <2>3 DEF AfterAck
<1>6. CASE AckDone(o, records, acks, i, ack)
  <2>1. /\ toBroker' = Append(toBroker, p) /\ status' = status
        /\ toClient' = IF UpdateAckIn(records, i, ack, "Send").status = "Ok"
                       THEN Tail(toClient) ELSE toClient
    BY <1>4, <1>6 DEF AckDone, Answered, p
  <2>2. Wires' BY <1>1, <1>2, <1>3, <2>1 DEF Wires
  <2> QED BY <1>1, <1>2, <1>3, <1>6, <2>1, <2>2 DEF AfterAck, p
<1>7. AckDone(o, records, acks, i, ack) \/ AckNotDone(o, records, acks, i, ack)
  BY AckOutcomeCases
<1> QED BY <1>5, <1>6, <1>7

\* A PUBLISH from the broker, and its acknowledgement, are no outgoing publish's.
LEMMA HandlePublishOut ==
  ASSUME Inv, OutInv, HandlePublish
  PROVE  OutInv'
<1> DEFINE p        == Head(toClient)
           received == UpdatePublishReceive(incoming, p.id, p.qos)
           ack      == IF p.qos = 1 THEN "PubAck" ELSE "PubRec"
<1>1. linkUp /\ toClient # <<>> /\ p.id \in PacketIds /\ p.type = "Publish" /\ status # "NotConnected"
  BY HeadIs DEF Inv, HandlePublish
<1> HIDE DEF p
<1>2. /\ UNCHANGED <<outgoing, owed, brokerIn, onward>>
      /\ \/ UNCHANGED <<status, toBroker, toClient>>
         \/ \E o \in AckOutcomes(received.records, keptAck, p.id, ack) : Answered(o)
  BY DEF HandlePublish, p, broker, store
<1>3. ack \in AckTypes /\ ack \notin Requests BY DEF AckTypes, Requests
<1> HIDE DEF received, ack
<1>4. /\ Wires' /\ (status' = "NotConnected" => status = "NotConnected")
      /\ \A id : /\ About(toBroker', Requests, id) = About(toBroker, Requests, id)
                 /\ About(toClient', Answers, id) = About(toClient, Answers, id)
  <2>1. CASE UNCHANGED <<status, toBroker, toClient>> BY <2>1 DEF OutInv, Wires
  <2>2. ASSUME NEW o \in AckOutcomes(received.records, keptAck, p.id, ack), Answered(o)
        PROVE  /\ Wires' /\ (status' = "NotConnected" => status = "NotConnected")
               /\ \A id : /\ About(toBroker', Requests, id) = About(toBroker, Requests, id)
                          /\ About(toClient', Answers, id) = About(toClient, Answers, id)
    <3>1. Links /\ Wires BY DEF Inv, OutInv
    <3>2. AfterAck(o, received.records, keptAck, p.id, ack)
      BY <1>1, <1>3, <2>2, <3>1, AnsweredWires
    <3>3. Head(toClient).type \notin Answers BY <1>1 DEF p, Answers
    <3> QED BY <1>3, <3>2, <3>3 DEF AfterAck
  <2> QED BY <1>2, <2>1, <2>2
<1>5. AllFit' BY <1>2, <1>4, Untouched DEF OutInv, AllFit
<1>6. Settled' BY <1>1, <1>2, SettledStays DEF OutInv
<1> QED BY <1>2, <1>4, <1>5, <1>6 DEF OutInv

---------------------------------------------------------------------------
(* Steps of one outgoing publish.                                          *)

\* A publish that is new has nothing under way, and one that is repeated is
\* one the session resumed without; either way the others are untouched.
LEMMA PublishOut ==
  ASSUME Inv, OutInv, NEW i \in PacketIds, NEW q \in {1, 2}, NEW dup \in BOOLEAN,
         Publish(i, q, dup),
         dup => i \in owed /\ RecordOf(outgoing, i).qos = q
  PROVE  OutInv' /\ IdsIn(outgoing) \subseteq IdsIn(outgoing')
<1> DEFINE reserved == ReserveState(outgoing, i, q)
           b        == reserved.records
           new      == Record(i, q, "PublishSend")
           c        == UpdatePublishSend(b, i, q).records
           p        == Packet("Publish", i, q)
<1>1. /\ GoodOut(b) /\ DOMAIN b = DOMAIN outgoing
      /\ \/ reserved.status = "Ok" /\ i \notin IdsIn(outgoing) /\ Recorded(outgoing, b, new)
         \/ /\ reserved.status = "StateCollision" /\ i \in IdsIn(outgoing)
            /\ SameRecords(outgoing, b)
         \/ /\ reserved.status = "NoMemory" /\ i \notin IdsIn(outgoing)
            /\ SameRecords(outgoing, b)
  <2>1. LET r == ReserveState(outgoing, i, q)
            n == Record(i, q, "PublishSend")
        IN  /\ Good(r.records, OutSlots, OutgoingStates)
            /\ DOMAIN r.records = DOMAIN outgoing
            /\ \/ /\ r.status = "Ok" /\ i \notin IdsIn(outgoing)
                  /\ Recorded(outgoing, r.records, n) /\ Appended(outgoing, r.records, n)
               \/ /\ r.status = "StateCollision" /\ i \in IdsIn(outgoing)
                  /\ SameRecords(outgoing, r.records) /\ SameFlight(outgoing, r.records)
               \/ /\ r.status = "NoMemory" /\ i \notin IdsIn(outgoing)
                  /\ SameRecords(outgoing, r.records) /\ SameFlight(outgoing, r.records)
    BY SessionAssumption, ReserveCases DEF Inv, GoodOut
  <2> QED BY <2>1 DEF GoodOut
<1>2. /\ status = "Connected" /\ UNCHANGED <<toClient, brokerIn>>
      /\ owed' \subseteq owed \cup {i} /\ owed \ {i} \subseteq owed'
      /\ (HasStore => owed' \subseteq owed)
      /\ \/ owed' = IF dup THEN owed \ {i} ELSE owed
         \/ Tolerated(reserved.status, dup) /\ UNCHANGED toBroker
      /\ status' # "NotConnected"
      /\ \/ /\ ~ Tolerated(reserved.status, dup)
            /\ outgoing' = b /\ UNCHANGED <<toBroker, onward>>
         \/ /\ Tolerated(reserved.status, dup)
            /\ onward' = IF dup THEN onward ELSE [onward EXCEPT ![i] = 0]
            /\ \/ outgoing' = b /\ UNCHANGED toBroker
               \/ outgoing' = c /\ toBroker' = OnWire(<<p>>)
  <2>1. /\ status = "Connected" /\ UNCHANGED <<toClient, brokerIn>>
        /\ status' # "NotConnected"
    BY DEF Publish, broker
  <2>3. \/ owed' = IF dup THEN owed \ {i} ELSE owed
        \/ /\ Tolerated(reserved.status, dup) /\ UNCHANGED toBroker
           /\ owed' = IF HasStore THEN owed ELSE owed \cup {i}
    BY DEF Publish
  <2>4. /\ owed' \subseteq owed \cup {i} /\ owed \ {i} \subseteq owed'
        /\ (HasStore => owed' \subseteq owed)
    BY <2>3
  <2>2. \/ /\ ~ Tolerated(reserved.status, dup)
           /\ outgoing' = b /\ UNCHANGED <<toBroker, onward>>
        \/ /\ Tolerated(reserved.status, dup)
           /\ onward' = IF dup THEN onward ELSE [onward EXCEPT ![i] = 0]
           /\ \/ outgoing' = b /\ UNCHANGED toBroker
              \/ outgoing' = c /\ toBroker' = OnWire(<<p>>)
    BY DEF Publish
  <2> QED BY <2>1, <2>2, <2>3, <2>4
<1> HIDE DEF reserved, b, c
<1>3. p \in Packets /\ p.type = "Publish" /\ p.id = i /\ p.qos = q
  BY DEF Packet, Packets, QoS
<1>4. IdFits(i) BY DEF OutInv, AllFit
<1> DEFINE live    == i \in IdsIn(outgoing)
           r       == RecordOf(outgoing, i)
           asked   == About(toBroker, Requests, i)
           replied == About(toClient, Answers, i)
<1>5. Fits(live, r, asked, replied, onward[i], i \in brokerIn, i \in owed) BY <1>4 DEF IdFits
<1>6. live => r.packet_id = i /\ r.qos \in {1, 2} /\ r.state \in OutgoingStates[r.qos]
  BY OutRecord DEF Inv
<1> HIDE DEF asked, replied, p
<1>7. CASE ~ Tolerated(reserved.status, dup)
  <2>1. SameRecords(outgoing, b) BY <1>1, <1>7 DEF Tolerated
  <2>2. outgoing' = b /\ UNCHANGED <<toBroker, onward>> BY <1>2, <1>7
  <2>7. owed' \subseteq owed BY <1>2, <1>7
  <2>3. AllFit'
    <3>1. UNCHANGED <<toClient, brokerIn>> BY <1>2
    <3> QED BY <2>1, <2>2, <2>7, <3>1, Untouched DEF OutInv, AllFit, SameRecords
  <2>4. Wires' BY <1>2, <2>2 DEF OutInv, Wires
  <2>5. Settled' BY <1>1, <1>2, <2>2, SettledStays DEF OutInv
  <2>6. IdsIn(outgoing') = IdsIn(outgoing) BY <2>1, <2>2 DEF SameRecords
  <2> QED BY <1>2, <2>3, <2>4, <2>5, <2>6 DEF OutInv
<1>8. CASE Tolerated(reserved.status, dup)
  <2>0. asked = {} /\ replied = {}
        /\ (dup => live /\ r.state \in PublishToResendStates /\ r.qos = q)
        /\ (~ dup => ~ live /\ i \notin brokerIn /\ i \notin owed)
    <3>1. CASE dup BY <1>5, <3>1 DEF Fits
    <3>2. CASE ~ dup
      <4>1. ~ live BY <1>1, <1>8, <3>2 DEF Tolerated
      <4>2. i \notin brokerIn /\ i \notin owed BY <1>5, <4>1 DEF Fits
      <4>3. asked = {} /\ replied = {} BY <1>5, <4>1 DEF Fits, RequestFits, AnswerFits
      <4> QED BY <3>2, <4>1, <4>2, <4>3
    <3> QED BY <3>1, <3>2
  \* The array after the reservation: a record of i that may be repeated.
  <2>1. /\ i \in IdsIn(b) /\ RecordOf(b, i).qos = q
        /\ RecordOf(b, i).state \in PublishToResendStates
        /\ \A y \in PacketIds : y # i =>
             /\ y \in IdsIn(b) <=> y \in IdsIn(outgoing)
             /\ y \in IdsIn(outgoing) => RecordOf(b, y) = RecordOf(outgoing, y)
    <3>1. CASE Recorded(outgoing, b, new)
      BY <3>1 DEF Recorded, Record, PublishToResendStates
    <3>2. CASE SameRecords(outgoing, b) /\ i \in IdsIn(outgoing)
      <4>1. dup BY <2>0, <3>2
      <4> QED BY <2>0, <3>2, <4>1 DEF SameRecords
    <3> QED BY <1>1, <1>8, <3>1, <3>2 DEF Tolerated
  <2>2. /\ GoodOut(c) /\ DOMAIN c = DOMAIN b
        /\ i \in IdsIn(c) /\ RecordOf(c, i).qos = q
        /\ RecordOf(c, i).state \in PublishToResendStates
        /\ \A y \in PacketIds : y # i =>
             /\ y \in IdsIn(c) <=> y \in IdsIn(b)
             /\ y \in IdsIn(b) => RecordOf(c, y) = RecordOf(b, y)
    <3> DEFINE x == [RecordOf(b, i) EXCEPT !.state = CalculateStatePublish("Send", q)]
    <3>1. /\ Good(c, OutSlots, OutgoingStates) /\ DOMAIN c = DOMAIN b
          /\ Recorded(b, c, x) /\ Before(c) = Before(b)
      BY <1>1, <2>1, PublishSendCases, SessionAssumption DEF GoodOut, c
    <3>2. RecordOf(b, i) \in Slots /\ RecordOf(b, i).packet_id = i BY <1>1, <2>1, OutRecord
    <3>3. x.packet_id = i /\ x.qos = q /\ x.state \in PublishToResendStates
      BY <2>1, <3>2 DEF Slots, CalculateStatePublish, PublishToResendStates
    <3> HIDE DEF x
    <3> QED BY <2>1, <3>1, <3>3 DEF GoodOut, Recorded
  <2>3. /\ DOMAIN outgoing' = DOMAIN outgoing
        /\ i \in IdsIn(outgoing') /\ RecordOf(outgoing', i).qos = q
        /\ RecordOf(outgoing', i).state \in PublishToResendStates
        /\ \A y \in PacketIds : y # i =>
             /\ y \in IdsIn(outgoing') <=> y \in IdsIn(outgoing)
             /\ y \in IdsIn(outgoing) => RecordOf(outgoing', y) = RecordOf(outgoing, y)
    <3>1. CASE outgoing' = b BY <1>1, <2>1, <3>1
    <3>2. CASE outgoing' = c BY <1>1, <2>1, <2>2, <3>2
    <3> QED BY <1>2, <1>8, <3>1, <3>2
  <2>4. /\ Wires'
        /\ \A id : About(toBroker', Requests, id) \subseteq
             About(toBroker, Requests, id) \cup (IF id = i THEN {p} ELSE {})
    <3>1. CASE UNCHANGED toBroker BY <1>2, <3>1 DEF OutInv, Wires
    <3>2. CASE linkUp /\ toBroker' = Append(toBroker, p)
      <4>1. /\ \A id : About(toBroker', Requests, id) =
                 About(toBroker, Requests, id)
                 \cup (IF p.type \in Requests /\ p.id = id THEN {p} ELSE {})
            /\ OneEach(toBroker, Requests) /\ (p.type \in Requests => About(toBroker, Requests, p.id) = {})
                 => OneEach(toBroker', Requests)
        BY <1>3, <3>2, AboutAppend DEF Inv, Links
      <4>2. About(toBroker, Requests, p.id) = {} BY <1>3, <2>0 DEF asked
      <4> QED BY <1>2, <1>3, <4>1, <4>2 DEF OutInv, Wires
    <3>3. OnWire(<<p>>) = IF linkUp THEN Append(toBroker, p) ELSE toBroker
      BY <1>3, OnWireOf DEF Inv, Links
    <3> QED BY <1>2, <1>8, <3>1, <3>2, <3>3
  <2>5. ASSUME NEW y \in PacketIds, y # i PROVE IdFits(y)'
    <3>1. onward'[y] = onward[y] BY <1>2, <1>8, <2>5 DEF Inv, Peers
    <3>2. IdFits(y) BY DEF OutInv, AllFit
    <3> QED BY <1>2, <2>3, <2>4, <2>5, <3>1, <3>2, Untouched
  <2>6. IdFits(i)'
    <3> DEFINE asked2 == About(toBroker', Requests, i)
               replied2 == About(toClient', Answers, i)
               r2 == RecordOf(outgoing', i)
    <3>1. asked2 \subseteq {p} /\ replied2 = {} BY <1>2, <2>0, <2>4 DEF asked, replied
    <3>2. i \in IdsIn(outgoing') /\ r2.qos = q /\ r2.state \in PublishToResendStates BY <2>3
    <3>3. i \in owed' => asked2 = {}
      <4> SUFFICES ASSUME i \in owed' PROVE asked2 = {}
        OBVIOUS
      <4>1. owed' # IF dup THEN owed \ {i} ELSE owed BY <2>0
      <4> QED BY <1>2, <2>0, <4>1 DEF asked
    <3>4. RecordFits(r2, onward'[i], i \in brokerIn')
      <4>1. CASE dup
        <5>1. live /\ r.state \in PublishToResendStates /\ r.qos = q BY <2>0, <4>1
        <5>2. RecordFits(r, onward[i], i \in brokerIn) BY <1>5, <5>1 DEF Fits
        <5>3. onward' = onward /\ brokerIn' = brokerIn BY <1>2, <1>8, <4>1
        <5> QED BY <3>2, <5>1, <5>2, <5>3 DEF RecordFits, PublishToResendStates, PubRelToResendStates
      <4>2. CASE ~ dup
        <5>1. onward'[i] = 0 BY <1>2, <1>8, <4>2 DEF Inv, Peers
        <5>2. i \notin brokerIn' BY <1>2, <2>0, <4>2
        <5> QED BY <3>2, <5>1, <5>2 DEF RecordFits, PublishToResendStates, PubRelToResendStates
      <4> QED BY <4>1, <4>2
    <3> HIDE DEF asked2, replied2, r2
    <3>5. Fits(i \in IdsIn(outgoing'), r2, asked2, replied2, onward'[i], i \in brokerIn', i \in owed')
      BY <1>3, <3>1, <3>2, <3>3, <3>4 DEF Fits, RequestFits
    <3> QED BY <3>5 DEF IdFits, asked2, replied2, r2
  <2>7. AllFit' BY <2>5, <2>6 DEF AllFit
  <2>8. Settled' BY <1>2, <2>3, SettledStays DEF OutInv
  <2>9. IdsIn(outgoing) \subseteq IdsIn(outgoing')
    <3>1. IdsIn(outgoing) \subseteq PacketIds BY OutRecord DEF Inv
    <3> QED BY <2>3, <3>1
  <2> QED BY <1>2, <2>4, <2>7, <2>8, <2>9 DEF OutInv
<1> QED BY <1>7, <1>8

\* The broker's own half: what it is told of its publishes changes nothing
\* here, though it may take a packet off the wire or send one that answers none.
LEMMA BrokerAnsweredOut ==
  ASSUME Inv, OutInv, BrokerStep, BrokerIsAnswered(Head(toBroker))
  PROVE  OutInv'
<1> DEFINE p == Head(toBroker)
           x == Packet("PubRel", p.id, 0)
<1>1. /\ toBroker # <<>> /\ toBroker' = Tail(toBroker)
      /\ UNCHANGED <<status, outgoing, owed, brokerIn, onward>>
      /\ p.type \notin Requests
      /\ toClient' \in {toClient, Append(toClient, x)}
  BY DEF BrokerStep, BrokerIsAnswered, Requests
<1>2. /\ OneEach(Tail(toBroker), Requests)
      /\ \A id : About(Tail(toBroker), Requests, id) =
           IF Head(toBroker).type \in Requests /\ Head(toBroker).id = id THEN {}
           ELSE About(toBroker, Requests, id)
      /\ Head(toBroker).type \in Requests =>
           Head(toBroker) \in About(toBroker, Requests, Head(toBroker).id)
  BY <1>1, AboutTail DEF Inv, Links, OutInv, Wires
<1>3. p.id \in PacketIds
  <2>1. p \in Packets BY <1>1, TailOf DEF Inv, Links
  <2> QED BY <2>1, PacketIs
<1> HIDE DEF p
<1>4. x \in Packets /\ x.type \notin Answers
  BY <1>3 DEF Packet, Packets, QoS, AckTypes, Answers
<1> HIDE DEF x
<1>5. /\ \A id : About(Append(toClient, x), Answers, id) =
           About(toClient, Answers, id)
           \cup (IF x.type \in Answers /\ x.id = id THEN {x} ELSE {})
      /\ OneEach(toClient, Answers) /\ (x.type \in Answers => About(toClient, Answers, x.id) = {})
           => OneEach(Append(toClient, x), Answers)
  BY <1>4, AboutAppend DEF Inv, Links
<1>6. \A id : /\ About(toBroker', Requests, id) \subseteq About(toBroker, Requests, id)
              /\ About(toClient', Answers, id) \subseteq About(toClient, Answers, id)
  BY <1>1, <1>2, <1>4, <1>5
<1>7. AllFit' BY <1>1, <1>6, Untouched DEF OutInv, AllFit
<1>8. Wires' BY <1>1, <1>2, <1>4, <1>5 DEF OutInv, Wires
<1>9. Settled' BY <1>1, SettledStays DEF OutInv
<1> QED BY <1>1, <1>7, <1>8, <1>9 DEF OutInv

\* A request becomes its answer: nothing else about the publish is under way,
\* and the broker has had the message, once if it is QoS 2.
LEMMA BrokerReceivesOut ==
  ASSUME Inv, OutInv, BrokerStep, BrokerReceives(Head(toBroker)),
         NEW i, i = Head(toBroker).id
  PROVE  OutInv'
<1> DEFINE p == Head(toBroker)
           type == IF p.type = "PubRel" THEN "PubComp"
                   ELSE IF p.qos = 1 THEN "PubAck" ELSE "PubRec"
           x == Packet(type, i, 0)
<1>1. /\ toBroker # <<>> /\ toBroker' = Tail(toBroker)
      /\ UNCHANGED <<status, outgoing, owed>>
      /\ toClient' = Append(toClient, x)
      /\ p.type \in Requests
      /\ p.type = "Publish" =>
           /\ brokerIn' = IF p.qos = 2 THEN brokerIn \cup {i} ELSE brokerIn
           /\ onward' = IF p.qos = 2 /\ i \in brokerIn THEN onward ELSE Once(onward, i)
      /\ p.type = "PubRel" => brokerIn' = brokerIn \ {i} /\ onward' = onward
  BY DEF BrokerStep, BrokerReceives, Requests
<1>2. /\ OneEach(Tail(toBroker), Requests)
      /\ \A id : About(Tail(toBroker), Requests, id) =
           IF Head(toBroker).type \in Requests /\ Head(toBroker).id = id THEN {}
           ELSE About(toBroker, Requests, id)
      /\ Head(toBroker).type \in Requests =>
           Head(toBroker) \in About(toBroker, Requests, Head(toBroker).id)
  BY <1>1, AboutTail DEF Inv, Links, OutInv, Wires
<1>3. i \in PacketIds /\ p.qos \in QoS /\ p.id = i
  <2>1. p \in Packets BY <1>1, TailOf DEF Inv, Links
  <2> QED BY <2>1, PacketIs
<1> HIDE DEF p
<1>4. x \in Packets /\ x.type = type /\ x.id = i /\ x.type \in Answers
  BY <1>3 DEF Packet, Packets, QoS, AckTypes, Answers
<1> HIDE DEF x
<1>5. /\ \A id : About(Append(toClient, x), Answers, id) =
           About(toClient, Answers, id)
           \cup (IF x.type \in Answers /\ x.id = id THEN {x} ELSE {})
      /\ OneEach(toClient, Answers) /\ (x.type \in Answers => About(toClient, Answers, x.id) = {})
           => OneEach(Append(toClient, x), Answers)
  BY <1>4, AboutAppend DEF Inv, Links
<1> DEFINE live    == i \in IdsIn(outgoing)
           r       == RecordOf(outgoing, i)
           asked   == About(toBroker, Requests, i)
           replied == About(toClient, Answers, i)
           asked2   == About(toBroker', Requests, i)
           replied2 == About(toClient', Answers, i)
<1>6. Fits(live, r, asked, replied, onward[i], i \in brokerIn, i \in owed)
  BY <1>3 DEF OutInv, AllFit, IdFits
<1>7. p \in asked BY <1>1, <1>2 DEF p
<1>8. replied = {} /\ i \notin owed /\ RequestFits(p, live, r) /\ live
      /\ RecordFits(r, onward[i], i \in brokerIn)
  BY <1>6, <1>7 DEF Fits, RequestFits
<1>9. asked2 = {} /\ replied2 = {x}
  <2>1. asked2 = {} BY <1>1, <1>2 DEF p
  <2>2. replied2 = replied \cup {x} BY <1>1, <1>4, <1>5
  <2> HIDE DEF asked2, replied2, replied
  <2> QED BY <1>8, <2>1, <2>2
<1>10. r.qos \in {1, 2} /\ r.state \in OutgoingStates[r.qos] /\ onward[i] \in 0..2
  <2>1. r.qos \in {1, 2} /\ r.state \in OutgoingStates[r.qos] BY <1>8, OutRecord DEF Inv
  <2>2. onward \in [PacketIds -> 0..2] BY DEF Inv, Peers
  <2> QED BY <1>3, <2>1, <2>2
<1> HIDE DEF asked, replied, asked2, replied2
<1>11. Wires' BY <1>1, <1>2, <1>4, <1>5, <1>8 DEF OutInv, Wires, replied
<1>12. ASSUME NEW y \in PacketIds, y # i PROVE IdFits(y)'
  <2>a. onward \in [PacketIds -> 0..2] BY DEF Inv, Peers
  <2>b. Once(onward, i)[y] = onward[y] BY <1>3, <1>12, <2>a, OnceIs
  <2>1. onward'[y] = onward[y] /\ (y \in brokerIn' <=> y \in brokerIn)
    <3>1. CASE p.type = "Publish" BY <1>1, <1>12, <2>b, <3>1
    <3>2. CASE p.type = "PubRel" BY <1>1, <1>12, <3>2
    <3> QED BY <1>1, <3>1, <3>2 DEF Requests
  <2>2. /\ About(toBroker', Requests, y) \subseteq About(toBroker, Requests, y)
        /\ About(toClient', Answers, y) \subseteq About(toClient, Answers, y)
    BY <1>1, <1>2, <1>4, <1>5, <1>12
  <2>3. IdFits(y) BY DEF OutInv, AllFit
  <2> QED BY <1>1, <1>12, <2>1, <2>2, <2>3, Untouched
<1>13. IdFits(i)'
  <2>1. RecordOf(outgoing', i) = r /\ IdsIn(outgoing') = IdsIn(outgoing) /\ i \notin owed'
    BY <1>1, <1>8
  <2>2. /\ RecordFits(r, onward'[i], i \in brokerIn')
        /\ AnswerFits(x, live, r, onward'[i], i \in brokerIn')
    <3>1. CASE p.type = "PubRel"
      <4>1. r.state \in PubRelToResendStates BY <1>8, <3>1 DEF RequestFits
      <4>2. r.qos = 2 /\ r.state \notin PublishToResendStates
        BY <1>10, <4>1 DEF OutgoingStates, PubRelToResendStates, PublishToResendStates, QoS
      <4>3. onward'[i] = onward[i] /\ i \notin brokerIn' BY <1>1, <3>1
      <4>4. x.type = "PubComp" BY <1>4, <3>1
      <4> QED BY <1>8, <4>1, <4>2, <4>3, <4>4 DEF RecordFits, AnswerFits
    <3>2. CASE p.type = "Publish" /\ p.qos = 1
      <4>1. r.qos = 1 /\ r.state \in PublishToResendStates BY <1>8, <3>2 DEF RequestFits
      <4>2. r.state \in {"PublishSend", "PubAckPending"} /\ r.state \notin PubRelToResendStates
        BY <1>10, <4>1 DEF OutgoingStates, PubRelToResendStates, PublishToResendStates, QoS
      <4>3. onward'[i] > 0 /\ brokerIn' = brokerIn
        <5>1. onward \in [PacketIds -> 0..2] BY DEF Inv, Peers
        <5>2. Once(onward, i)[i] > 0 BY <1>3, <5>1, OnceIs
        <5> QED BY <1>1, <3>2, <5>2
      <4>4. x.type = "PubAck" BY <1>4, <3>2
      <4> QED BY <1>8, <4>1, <4>2, <4>3, <4>4 DEF RecordFits, AnswerFits
    <3>3. CASE p.type = "Publish" /\ p.qos # 1
      <4>1. r.qos = 2 /\ p.qos = 2 /\ r.state \in PublishToResendStates
        BY <1>8, <1>10, <3>3 DEF RequestFits
      <4>2. r.state \in {"PublishSend", "PubRecPending"} /\ r.state \notin PubRelToResendStates
        BY <1>10, <4>1 DEF OutgoingStates, PubRelToResendStates, PublishToResendStates, QoS
      <4>3. onward[i] < 2 /\ (onward[i] = 1 <=> i \in brokerIn) BY <1>8, <4>1 DEF RecordFits
      <4>4. onward'[i] = 1 /\ i \in brokerIn'
        <5>1. CASE i \in brokerIn BY <1>1, <3>3, <4>1, <4>3, <5>1
        <5>2. CASE i \notin brokerIn
          <6>1. onward[i] = 0 BY <1>10, <4>3, <5>2
          <6>2. onward' = Once(onward, i) BY <1>1, <3>3, <4>1, <5>2
          <6>3. onward \in [PacketIds -> 0..2] BY DEF Inv, Peers
          <6>4. Once(onward, i)[i] = 1 BY <1>3, <6>1, <6>3, OnceIs
          <6> QED BY <1>1, <3>3, <4>1, <6>2, <6>4
        <5> QED BY <5>1, <5>2
      <4>5. x.type = "PubRec" BY <1>4, <3>3
      <4> QED BY <1>8, <4>1, <4>2, <4>4, <4>5 DEF RecordFits, AnswerFits
    <3> QED BY <1>1, <3>1, <3>2, <3>3 DEF Requests
  <2>3. Fits(i \in IdsIn(outgoing'), r, asked2, replied2, onward'[i], i \in brokerIn', i \in owed')
    BY <1>8, <1>9, <2>1, <2>2 DEF Fits
  <2> QED BY <2>1, <2>3 DEF IdFits, asked2, replied2
<1>14. AllFit' BY <1>12, <1>13 DEF AllFit
<1>15. Settled' BY <1>1, SettledStays DEF OutInv
<1> QED BY <1>1, <1>11, <1>14, <1>15 DEF OutInv

\* The other direction: a PUBREL from the broker.
LEMMA HandlePubRelOut ==
  ASSUME Inv, OutInv, Undisturbed, HandlePublishAck, Head(toClient).type = "PubRel"
  PROVE  OutInv'
<1> DEFINE p        == Head(toClient)
           received == UpdateAckIn(incoming, p.id, p.type, "Receive")
           acks     == StillKeptAck(p.id, p.type)
<1>1. linkUp /\ toClient # <<>> /\ p.id \in PacketIds /\ status # "NotConnected"
  BY HeadIs DEF Inv, HandlePublishAck
<1>2. ~ IsPublishOutgoing(p.type, "Receive") BY DEF IsPublishOutgoing
<1>3. /\ UNCHANGED <<outgoing, owed, brokerIn, onward>>
      /\ \/ UNCHANGED <<status, toBroker, toClient>>
         \/ \E o \in AckOutcomes(received.records, acks, p.id, "PubComp") : Answered(o)
  <2>1. UNCHANGED <<owed, brokerIn, onward>> BY DEF HandlePublishAck, broker
  <2>2. /\ UNCHANGED outgoing
        /\ \/ UNCHANGED <<status, toBroker, toClient>>
           \/ \E o \in AckOutcomes(received.records, acks, p.id, "PubComp") : Answered(o)
    BY <1>2 DEF HandlePublishAck, Undisturbed, Install
  <2> QED BY <2>1, <2>2
<1>4. "PubComp" \in AckTypes /\ "PubComp" \notin Requests BY DEF AckTypes, Requests
<1>5. Head(toClient).type \notin Answers BY DEF Answers
<1> HIDE DEF p, received, acks
<1>6. /\ Wires' /\ (status' = "NotConnected" => status = "NotConnected")
      /\ \A id : /\ About(toBroker', Requests, id) = About(toBroker, Requests, id)
                 /\ About(toClient', Answers, id) = About(toClient, Answers, id)
  <2>1. CASE UNCHANGED <<status, toBroker, toClient>> BY <2>1 DEF OutInv, Wires
  <2>2. ASSUME NEW o \in AckOutcomes(received.records, acks, p.id, "PubComp"), Answered(o)
        PROVE  /\ Wires' /\ (status' = "NotConnected" => status = "NotConnected")
               /\ \A id : /\ About(toBroker', Requests, id) = About(toBroker, Requests, id)
                          /\ About(toClient', Answers, id) = About(toClient, Answers, id)
    <3>1. Links /\ Wires BY DEF Inv, OutInv
    <3>2. AfterAck(o, received.records, acks, p.id, "PubComp")
      BY <1>1, <1>4, <2>2, <3>1, AnsweredWires
    <3> QED BY <1>4, <1>5, <3>2 DEF AfterAck
  <2> QED BY <1>3, <2>1, <2>2
<1>7. AllFit' BY <1>3, <1>6, Untouched DEF OutInv, AllFit
<1>8. Settled' BY <1>1, <1>3, SettledStays DEF OutInv
<1> QED BY <1>3, <1>6, <1>7, <1>8 DEF OutInv

\* What handling the answer to a request may come to, for its record: it is
\* not the one waited for, and nothing happens; it ends the handshake; or it
\* is a PUBREC, whose PUBREL is sent or is now owed.
AnswerHandled(i) ==
  LET p == Head(toClient)
      r == RecordOf(outgoing, i)
  IN  /\ UNCHANGED <<owed, linkUp, brokerIn, onward, late>>
      /\ GoodOut(outgoing') /\ DOMAIN outgoing' = DOMAIN outgoing
      /\ Wires' /\ status' # "NotConnected" /\ status' \in {status, "DisconnectPending"}
      /\ \/ UNCHANGED <<outgoing, toBroker, toClient>>
         \/ /\ p.type \in {"PubAck", "PubComp"} /\ i \in IdsIn(outgoing)
            /\ Forgotten(outgoing, outgoing', i) /\ Dropped(outgoing, outgoing', {r})
            /\ UNCHANGED toBroker
            /\ \A id : About(toClient', Answers, id) =
                 IF id = i THEN {} ELSE About(toClient, Answers, id)
         \/ /\ p.type = "PubRec" /\ i \in IdsIn(outgoing) /\ r.state = "PubRecPending"
            /\ Before(outgoing') =
                 {e \in Before(outgoing) : e[1] \in IdsIn(outgoing) \ {i}
                                           /\ e[2] \in IdsIn(outgoing) \ {i}}
                 \cup ((IdsIn(outgoing) \ {i}) \X {i})
            /\ \/ /\ Recorded(outgoing, outgoing', Record(i, 2, "PubRelSend"))
                  /\ UNCHANGED <<toBroker, toClient>>
               \/ /\ Recorded(outgoing, outgoing', Record(i, 2, "PubCompPending"))
                  /\ toBroker' = Append(toBroker, Packet("PubRel", i, 0))
                  /\ \A id : About(toBroker', Requests, id) =
                       About(toBroker, Requests, id)
                       \cup (IF id = i THEN {Packet("PubRel", i, 0)} ELSE {})
                  /\ \A id : About(toClient', Answers, id) =
                       IF id = i THEN {} ELSE About(toClient, Answers, id)

\* One record, changed twice.
LEMMA RecordedTwice ==
  ASSUME NEW a, NEW b, NEW c, NEW r, NEW s, s.packet_id = r.packet_id,
         Recorded(a, b, r), Recorded(b, c, s)
  PROVE  Recorded(a, c, s)
BY DEF Recorded

\* One of these is what handling an answer comes to.
LEMMA AnswerHandledIs ==
  ASSUME Inv, OutInv, Undisturbed, HandlePublishAck, Head(toClient).type \in Answers,
         NEW i, i = Head(toClient).id
  PROVE  AnswerHandled(i)
<1> DEFINE p        == Head(toClient)
           received == UpdateAckIn(outgoing, i, p.type, "Receive")
           acks     == StillKeptAck(i, p.type)
           r        == RecordOf(outgoing, i)
           x        == Packet("PubRel", i, 0)
<1>1. linkUp /\ toClient # <<>> /\ i \in PacketIds /\ status # "NotConnected"
  BY HeadIs DEF Inv, HandlePublishAck
<1>2. IsPublishOutgoing(p.type, "Receive") BY DEF IsPublishOutgoing, Answers
<1>3. /\ UNCHANGED <<owed, linkUp, brokerIn, onward, late>>
      /\ \/ /\ received.status # "Ok" /\ outgoing' = received.records
            /\ UNCHANGED <<status, toBroker, toClient>>
         \/ /\ received.status = "Ok" /\ p.type \in {"PubAck", "PubComp"}
            /\ outgoing' = received.records /\ toClient' = Tail(toClient)
            /\ UNCHANGED <<status, toBroker>>
         \/ /\ received.status = "Ok" /\ p.type = "PubRec"
            /\ \E o \in AckOutcomes(received.records, acks, i, "PubRel") :
                 outgoing' = o.records /\ Answered(o)
  <2>1. UNCHANGED <<owed, linkUp, brokerIn, onward, late>> BY DEF HandlePublishAck, broker
  <2>2. \/ /\ received.status # "Ok" /\ outgoing' = received.records
           /\ UNCHANGED <<status, toBroker, toClient>>
        \/ /\ received.status = "Ok" /\ p.type \in {"PubAck", "PubComp"}
           /\ outgoing' = received.records /\ toClient' = Tail(toClient)
           /\ UNCHANGED <<status, toBroker>>
        \/ /\ received.status = "Ok" /\ p.type = "PubRec"
           /\ \E o \in AckOutcomes(received.records, acks, i, "PubRel") :
                outgoing' = o.records /\ Answered(o)
    BY <1>2 DEF HandlePublishAck, Undisturbed, Install, Answers
  <2> QED BY <2>1, <2>2
<1>4. p.type \in {"PubAck", "PubRec", "PubComp"} BY DEF Answers
<1> HIDE DEF p, r
<1>5. /\ Good(received.records, OutSlots, OutgoingStates)
      /\ DOMAIN received.records = DOMAIN outgoing
      /\ OutgoingReceived(outgoing, received, i, p.type)
  BY <1>1, <1>4, OutgoingReceives, SessionAssumption DEF Inv, GoodOut
<1>6. GoodOut(received.records) /\ DOMAIN received.records = DOMAIN outgoing
  BY <1>5 DEF GoodOut
<1>7. Links /\ Wires BY DEF Inv, OutInv
<1>8. p.type \in Answers /\ p.id = i BY <1>4 DEF Answers, p
<1>9. /\ OneEach(Tail(toClient), Answers)
      /\ \A id : About(Tail(toClient), Answers, id) =
           IF Head(toClient).type \in Answers /\ Head(toClient).id = id THEN {}
           ELSE About(toClient, Answers, id)
      /\ Head(toClient).type \in Answers =>
           Head(toClient) \in About(toClient, Answers, Head(toClient).id)
  BY <1>1, <1>7, AboutTail DEF Links, Wires
<1>10. p \in About(toClient, Answers, i) BY <1>8, <1>9 DEF p
<1>11. CASE /\ received.status # "Ok" /\ outgoing' = received.records
            /\ UNCHANGED <<status, toBroker, toClient>>
  <2>1. received.records = outgoing BY <1>5, <1>11 DEF OutgoingReceived
  <2>2. Wires' BY <1>7, <1>11 DEF Wires
  <2>3. GoodOut(outgoing') BY <1>6, <1>11
  <2> HIDE DEF received
  <2> QED BY <1>1, <1>3, <1>11, <2>1, <2>2, <2>3 DEF AnswerHandled
<1>12. CASE /\ received.status = "Ok" /\ p.type \in {"PubAck", "PubComp"}
            /\ outgoing' = received.records /\ toClient' = Tail(toClient)
            /\ UNCHANGED <<status, toBroker>>
  <2>1. /\ i \in IdsIn(outgoing)
        /\ Forgotten(outgoing, outgoing', i) /\ Dropped(outgoing, outgoing', {r})
    BY <1>5, <1>12 DEF OutgoingReceived, r
  <2>2. Wires' BY <1>7, <1>9, <1>12 DEF Wires
  <2>3. \A id : About(toClient', Answers, id) = IF id = i THEN {} ELSE About(toClient, Answers, id)
    BY <1>8, <1>9, <1>12 DEF p
  <2>4. GoodOut(outgoing') /\ DOMAIN outgoing' = DOMAIN outgoing BY <1>6, <1>12
  <2>5. status' # "NotConnected" /\ status' = status BY <1>1, <1>12
  <2> HIDE DEF received
  <2> QED BY <1>3, <1>12, <2>1, <2>2, <2>3, <2>4, <2>5 DEF AnswerHandled, p, r
<1>13. ASSUME received.status = "Ok", p.type = "PubRec",
              NEW o \in AckOutcomes(received.records, acks, i, "PubRel"),
              outgoing' = o.records, Answered(o)
       PROVE  AnswerHandled(i)
  <2> DEFINE b     == received.records
             moved == Record(i, 2, "PubRelSend")
             order == {e \in Before(outgoing) :
                         e[1] \in IdsIn(outgoing) \ {i} /\ e[2] \in IdsIn(outgoing) \ {i}}
                      \cup ((IdsIn(outgoing) \ {i}) \X {i})
  <2>1. /\ i \in IdsIn(outgoing) /\ r.state = "PubRecPending"
        /\ Recorded(outgoing, b, moved) /\ Before(b) = order
    BY <1>5, <1>13 DEF OutgoingReceived, r
  <2> HIDE DEF received, b, order
  <2>2. i \in IdsIn(b) /\ RecordOf(b, i) = moved BY <2>1 DEF Recorded, Record
  <2>3. moved.packet_id = i /\ moved.qos = 2 /\ moved.state = "PubRelSend"
        /\ [moved EXCEPT !.state = "PubCompPending"] = Record(i, 2, "PubCompPending")
    BY DEF Record
  <2> HIDE DEF moved
  <2>4. LET rr == UpdateAckIn(b, i, "PubRel", "Send")
        IN  /\ Good(rr.records, OutSlots, OutgoingStates) /\ DOMAIN rr.records = DOMAIN b
            /\ rr.status = "Ok"
            /\ \/ RecordOf(b, i).state = "PubCompPending" /\ rr.records = b
               \/ /\ Recorded(b, rr.records, [RecordOf(b, i) EXCEPT !.state = "PubCompPending"])
                  /\ Before(rr.records) = Before(b)
    <3>1. Good(b, OutSlots, OutgoingStates) /\ RecordOf(b, i).state \in PubRelToResendStates
      BY <1>6, <2>2, <2>3 DEF GoodOut, b, PubRelToResendStates
    <3> QED BY <2>2, <3>1, OutgoingSends, SessionAssumption
  <2> DEFINE c == UpdateAckIn(b, i, "PubRel", "Send").records
  <2>5. /\ GoodOut(c) /\ DOMAIN c = DOMAIN outgoing /\ Before(c) = order
        /\ Recorded(outgoing, c, Record(i, 2, "PubCompPending"))
        /\ UpdateAckIn(b, i, "PubRel", "Send").status = "Ok"
    <3>1. /\ Recorded(b, c, Record(i, 2, "PubCompPending")) /\ Before(c) = Before(b)
          /\ GoodOut(c) /\ DOMAIN c = DOMAIN b
          /\ UpdateAckIn(b, i, "PubRel", "Send").status = "Ok"
      BY <2>2, <2>3, <2>4 DEF GoodOut
    <3>2. Record(i, 2, "PubCompPending").packet_id = i BY DEF Record
    <3>3. Recorded(outgoing, c, Record(i, 2, "PubCompPending"))
      BY <2>1, <2>3, <3>1, <3>2, RecordedTwice
    <3> QED BY <1>6, <2>1, <3>1, <3>3 DEF b
  <2> HIDE DEF c
  <2>6. About(toBroker, Requests, i) = {}
    <3>1. IdFits(i) BY <1>1 DEF OutInv, AllFit
    <3> QED BY <1>10, <3>1 DEF IdFits, Fits
  <2>7. AfterAck(o, b, acks, i, "PubRel")
    BY <1>1, <1>7, <1>13, <2>6, AnsweredWires DEF AckTypes, b
  <2>9. Wires' /\ status' # "NotConnected" /\ status' \in {status, "DisconnectPending"}
    BY <1>1, <2>7 DEF AfterAck
  <2>10. CASE AckNotDone(o, b, acks, i, "PubRel") /\ UNCHANGED <<toBroker, toClient>>
    <3>1. outgoing' = b BY <1>13, <2>10 DEF AckNotDone
    <3>2. GoodOut(outgoing') /\ DOMAIN outgoing' = DOMAIN outgoing BY <1>6, <3>1 DEF b
    <3>3. Recorded(outgoing, outgoing', Record(i, 2, "PubRelSend"))
      BY <2>1, <3>1 DEF moved
    <3>4. Before(outgoing') = order BY <2>1, <3>1
    <3> QED BY <1>3, <1>13, <2>1, <2>9, <2>10, <3>2, <3>3, <3>4 DEF AnswerHandled, order, p, r
  <2>11. CASE AckDone(o, b, acks, i, "PubRel")
    <3>1. outgoing' = c /\ toBroker' = OnWire(<<x>>) /\ toClient' = Tail(toClient)
      BY <1>13, <2>5, <2>11 DEF AckDone, Answered, c
    <3>2. x \in Packets /\ x.type = "PubRel" /\ x.id = i BY <1>1 DEF Packet, Packets, AckTypes, QoS
    <3>3. toBroker' = Append(toBroker, x) BY <1>1, <1>7, <3>1, <3>2, OnWireOf DEF Links
    <3>4. /\ \A id : About(toBroker', Requests, id) =
               About(toBroker, Requests, id)
               \cup (IF x.type \in Requests /\ x.id = id THEN {x} ELSE {})
          /\ OneEach(toBroker, Requests) /\ (x.type \in Requests => About(toBroker, Requests, x.id) = {})
               => OneEach(toBroker', Requests)
      BY <1>7, <3>2, <3>3, AboutAppend DEF Links
    <3>5. \A id : About(toBroker', Requests, id) =
               About(toBroker, Requests, id) \cup (IF id = i THEN {x} ELSE {})
      BY <3>2, <3>4 DEF Requests
    <3>6. \A id : About(toClient', Answers, id) = IF id = i THEN {} ELSE About(toClient, Answers, id)
      BY <1>8, <1>9, <3>1 DEF p
    <3>7. Recorded(outgoing, outgoing', Record(i, 2, "PubCompPending"))
      BY <2>5, <3>1
    <3>8. GoodOut(outgoing') /\ DOMAIN outgoing' = DOMAIN outgoing /\ Before(outgoing') = order
      BY <2>5, <3>1
    <3> QED BY <1>3, <1>13, <2>1, <2>9, <3>3, <3>5, <3>6, <3>7, <3>8 DEF AnswerHandled, order, p, r
  <2> QED BY <2>7, <2>10, <2>11 DEF AfterAck
<1> QED BY <1>3, <1>11, <1>12, <1>13

\* However an answer is handled, its publish is left in order.
LEMMA AnswerOut ==
  ASSUME Inv, OutInv, NEW i \in PacketIds, AnswerHandled(i),
         Head(toClient) \in About(toClient, Answers, i)
  PROVE  OutInv'
<1> DEFINE p       == Head(toClient)
           r       == RecordOf(outgoing, i)
           asked   == About(toBroker, Requests, i)
           replied == About(toClient, Answers, i)
           asked2   == About(toBroker', Requests, i)
           replied2 == About(toClient', Answers, i)
           r2       == RecordOf(outgoing', i)
           x        == Packet("PubRel", i, 0)
           waits    == Record(i, 2, "PubRelSend")
           sent     == Record(i, 2, "PubCompPending")
<1>1. /\ UNCHANGED <<owed, brokerIn, onward>> /\ DOMAIN outgoing' = DOMAIN outgoing
      /\ Wires' /\ status' # "NotConnected"
  BY DEF AnswerHandled
<1>2. Fits(i \in IdsIn(outgoing), r, asked, replied, onward[i], i \in brokerIn, i \in owed)
  BY DEF OutInv, AllFit, IdFits
<1>3. p \in replied OBVIOUS
<1>4. \/ UNCHANGED <<outgoing, toBroker, toClient>>
      \/ /\ p.type \in {"PubAck", "PubComp"}
         /\ Forgotten(outgoing, outgoing', i) /\ UNCHANGED toBroker
         /\ \A id : About(toClient', Answers, id) =
              IF id = i THEN {} ELSE About(toClient, Answers, id)
      \/ /\ p.type = "PubRec" /\ r.state = "PubRecPending"
         /\ \/ /\ Recorded(outgoing, outgoing', waits)
               /\ UNCHANGED <<toBroker, toClient>>
            \/ /\ Recorded(outgoing, outgoing', sent)
               /\ \A id : About(toBroker', Requests, id) =
                    About(toBroker, Requests, id) \cup (IF id = i THEN {x} ELSE {})
               /\ \A id : About(toClient', Answers, id) =
                    IF id = i THEN {} ELSE About(toClient, Answers, id)
  BY DEF AnswerHandled
<1>5. /\ waits.packet_id = i /\ waits.qos = 2 /\ waits.state = "PubRelSend"
      /\ sent.packet_id = i /\ sent.qos = 2 /\ sent.state = "PubCompPending"
      /\ x.type = "PubRel" /\ x.id = i
  BY DEF Record, Packet
<1> HIDE DEF asked, asked2, replied, replied2, r2, p, r, x, waits, sent
<1>6. /\ asked = {} /\ i \notin owed /\ i \in IdsIn(outgoing)
      /\ AnswerFits(p, i \in IdsIn(outgoing), r, onward[i], i \in brokerIn)
      /\ RecordFits(r, onward[i], i \in brokerIn)
      /\ \A q \in replied : AnswerFits(q, i \in IdsIn(outgoing), r, onward[i], i \in brokerIn)
  BY <1>2, <1>3 DEF Fits, AnswerFits
<1>7. Settled' BY <1>1, <1>6 DEF OutInv, Settled
<1>8. CASE UNCHANGED <<outgoing, toBroker, toClient>>
  <2>1. AllFit' BY <1>1, <1>8, Untouched DEF OutInv, AllFit
  <2> QED BY <1>1, <1>7, <2>1 DEF OutInv
<1>9. CASE /\ p.type \in {"PubAck", "PubComp"}
           /\ Forgotten(outgoing, outgoing', i) /\ UNCHANGED toBroker
           /\ \A id : About(toClient', Answers, id) =
                IF id = i THEN {} ELSE About(toClient, Answers, id)
  <2>1. ASSUME NEW y \in PacketIds, y # i PROVE IdFits(y)'
    <3>1. IdFits(y) BY DEF OutInv, AllFit
    <3>2. About(toClient', Answers, y) = About(toClient, Answers, y) BY <1>9, <2>1
    <3>3. /\ y \in IdsIn(outgoing') <=> y \in IdsIn(outgoing)
          /\ y \in IdsIn(outgoing) => RecordOf(outgoing', y) = RecordOf(outgoing, y)
      BY <1>9, <2>1 DEF Forgotten
    <3> QED BY <1>1, <1>9, <3>1, <3>2, <3>3, Untouched
  <2>2. IdFits(i)'
    <3>1. i \notin brokerIn BY <1>6, <1>9 DEF AnswerFits, RecordFits
    <3>2. asked2 = {} /\ replied2 = {} BY <1>6, <1>9 DEF asked2, asked, replied2
    <3>3. i \notin IdsIn(outgoing') BY <1>9 DEF Forgotten
    <3>4. Fits(i \in IdsIn(outgoing'), r2, asked2, replied2, onward'[i], i \in brokerIn', i \in owed')
      BY <1>1, <1>6, <3>1, <3>2, <3>3 DEF Fits
    <3> QED BY <3>4 DEF IdFits, asked2, replied2, r2
  <2>3. AllFit' BY <2>1, <2>2 DEF AllFit
  <2> QED BY <1>1, <1>7, <2>3 DEF OutInv
<1>10. ASSUME p.type = "PubRec", NEW new \in {waits, sent}, Recorded(outgoing, outgoing', new),
              \/ new = waits /\ UNCHANGED <<toBroker, toClient>>
              \/ /\ new = sent
                 /\ \A id : About(toBroker', Requests, id) =
                      About(toBroker, Requests, id) \cup (IF id = i THEN {x} ELSE {})
                 /\ \A id : About(toClient', Answers, id) =
                      IF id = i THEN {} ELSE About(toClient, Answers, id)
       PROVE  OutInv'
  <2>1. /\ i \in IdsIn(outgoing') /\ r2 = new
        /\ \A y \in PacketIds : y # i =>
             /\ y \in IdsIn(outgoing') <=> y \in IdsIn(outgoing)
             /\ y \in IdsIn(outgoing) => RecordOf(outgoing', y) = RecordOf(outgoing, y)
    BY <1>5, <1>10 DEF Recorded, r2
  <2>2. ASSUME NEW y \in PacketIds, y # i PROVE IdFits(y)'
    <3>1. IdFits(y) BY DEF OutInv, AllFit
    <3>2. /\ About(toClient', Answers, y) = About(toClient, Answers, y)
          /\ About(toBroker', Requests, y) = About(toBroker, Requests, y)
      BY <1>10, <2>2
    <3> QED BY <1>1, <2>1, <2>2, <3>1, <3>2, Untouched
  <2>3. IdFits(i)'
    <3>1. onward[i] = 1 BY <1>6, <1>10 DEF AnswerFits
    <3>2. new.state \notin PublishToResendStates /\ new.state \in PubRelToResendStates
          /\ new.qos = 2
      BY <1>5 DEF PublishToResendStates, PubRelToResendStates
    <3>3. RecordFits(new, onward'[i], i \in brokerIn') BY <1>1, <3>1, <3>2 DEF RecordFits
    <3>4. CASE new = waits /\ UNCHANGED <<toBroker, toClient>>
      <4>1. asked2 = {} /\ replied2 = replied
        BY <1>6, <3>4 DEF asked2, asked, replied2, replied
      <4>2. \A q \in replied : q.type = "PubRec"
        <5>1. \A q \in replied : q = p
          <6>1. OneEach(toClient, Answers) BY DEF OutInv, Wires
          <6> QED BY <1>3, <6>1 DEF OneEach, About, replied
        <5> QED BY <1>10, <5>1
      <4>3. Fits(i \in IdsIn(outgoing'), r2, asked2, replied2, onward'[i], i \in brokerIn', i \in owed')
        BY <1>1, <1>5, <1>6, <2>1, <3>1, <3>3, <3>4, <4>1, <4>2 DEF Fits, AnswerFits
      <4> QED BY <4>3 DEF IdFits, asked2, replied2, r2
    <3>5. CASE ~ (new = waits /\ UNCHANGED <<toBroker, toClient>>)
      <4>1. asked2 = {x} /\ replied2 = {}
        BY <1>6, <1>10, <3>5 DEF asked2, asked, replied2
      <4>2. Fits(i \in IdsIn(outgoing'), r2, asked2, replied2, onward'[i], i \in brokerIn', i \in owed')
        BY <1>1, <1>5, <1>6, <2>1, <3>2, <3>3, <4>1 DEF Fits, RequestFits
      <4> QED BY <4>2 DEF IdFits, asked2, replied2, r2
    <3> QED BY <3>4, <3>5
  <2>4. AllFit' BY <2>2, <2>3 DEF AllFit
  <2> QED BY <1>1, <1>7, <2>4 DEF OutInv
<1> QED BY <1>4, <1>8, <1>9, <1>10

\* An acknowledgement that arrives is an answer, or the PUBREL of an incoming
\* publish.
LEMMA HandlePublishAckOut ==
  ASSUME Inv, OutInv, Undisturbed, HandlePublishAck
  PROVE  OutInv'
<1>1. CASE Head(toClient).type = "PubRel" BY <1>1, HandlePubRelOut
<1>2. CASE Head(toClient).type \in Answers
  <2>1. PICK i : i = Head(toClient).id OBVIOUS
  <2>2. AnswerHandled(i) BY <1>2, <2>1, AnswerHandledIs
  <2>3. toClient # <<>> /\ i \in PacketIds BY <2>1, HeadIs DEF Inv, HandlePublishAck
  <2>4. /\ OneEach(Tail(toClient), Answers)
        /\ \A id : About(Tail(toClient), Answers, id) =
             IF Head(toClient).type \in Answers /\ Head(toClient).id = id THEN {}
             ELSE About(toClient, Answers, id)
        /\ Head(toClient).type \in Answers =>
             Head(toClient) \in About(toClient, Answers, Head(toClient).id)
    BY <2>3, AboutTail DEF Inv, Links, OutInv, Wires
  <2> QED BY <1>2, <2>1, <2>2, <2>3, <2>4, AnswerOut
<1>3. Head(toClient).type \in AckTypes BY HeadIs DEF Inv, HandlePublishAck
<1> QED BY <1>1, <1>2, <1>3 DEF AckTypes, Answers

---------------------------------------------------------------------------
(* A new connection. *)

\* What a resumed session sends: PUBRELs for the records that wait for a
\* PUBCOMP, then the PUBLISHes that wait for their answer, each once.
LEMMA ResentWires ==
  ASSUME NEW a, GoodOut(a), Kept, NEW n \in 0..Len(Rels(a)) + Len(Pubs(a)), Resent(a, n)
  PROVE  /\ DOMAIN toBroker' = 1..n /\ OneEach(toBroker', Requests)
         /\ \A k \in 1..n :
              /\ toBroker'[k].id \in IdsIn(a)
              /\ k <= Len(Rels(a)) =>
                   /\ toBroker'[k].id = Rels(a)[k] /\ toBroker'[k].type # "Publish"
                   /\ RecordOf(a, toBroker'[k].id).state \in PubRelToResendStates
              /\ k > Len(Rels(a)) =>
                   /\ HasStore /\ k - Len(Rels(a)) \in 1..Len(Pubs(a))
                   /\ toBroker'[k].id = Pubs(a)[k - Len(Rels(a))]
                   /\ toBroker'[k].type = "Publish"
                   /\ toBroker'[k].qos = RecordOf(a, toBroker'[k].id).qos
                   /\ RecordOf(a, toBroker'[k].id).state \in PublishToResendStates
<1> DEFINE s == toBroker'
           rels == Rels(a)
           pubs == Pubs(a)
<1>1. /\ rels \in Seq(PacketIds) /\ Len(rels) \in Nat
      /\ \A k \in 1..Len(rels) :
           rels[k] \in IdsIn(a) /\ RecordOf(a, rels[k]).state \in PubRelToResendStates
      /\ \A k, l \in 1..Len(rels) : rels[k] = rels[l] => k = l
  <2>1. rels \in Seq(PacketIds)
        /\ (\A k \in 1..Len(rels) :
             rels[k] \in IdsIn(a) /\ RecordOf(a, rels[k]).state \in PubRelToResendStates)
        /\ (\A k, l \in 1..Len(rels) : rels[k] = rels[l] => k = l)
    BY OwedIs, StateSets, SessionAssumption DEF GoodOut, Rels
  <2> QED BY <2>1
<1>2. /\ pubs \in Seq(PacketIds) /\ Len(pubs) \in Nat /\ (~ HasStore => Len(pubs) = 0)
      /\ \A k \in 1..Len(pubs) :
           pubs[k] \in IdsIn(a) /\ RecordOf(a, pubs[k]).state \in PublishToResendStates
      /\ \A k, l \in 1..Len(pubs) : pubs[k] = pubs[l] => k = l
  <2>1. CASE HasStore
    <3>1. pubs \in Seq(PacketIds)
          /\ (\A k \in 1..Len(pubs) :
               pubs[k] \in IdsIn(a) /\ RecordOf(a, pubs[k]).state \in PublishToResendStates)
          /\ (\A k, l \in 1..Len(pubs) : pubs[k] = pubs[l] => k = l)
      BY <2>1, OwedIs, StateSets, SessionAssumption DEF GoodOut, Pubs
    <3> QED BY <2>1, <3>1
  <2>2. CASE ~ HasStore BY <2>2 DEF Pubs
  <2> QED BY <2>1, <2>2
<1>3. /\ s \in Seq(Packets) /\ Len(s) = n
      /\ \A k \in 1..n : k <= Len(rels) => s[k] = RelPacket(rels[k])
      /\ \A k \in 1..n : k > Len(rels) => s[k] = PubPacket(a, pubs[k - Len(rels)])
  BY DEF Resent
<1>4. n \in Nat /\ n <= Len(rels) + Len(pubs) BY <1>1, <1>2
<1>5. DOMAIN s = 1..n BY <1>3, Elements
<1> HIDE DEF s, rels, pubs
<1>6. ASSUME NEW k \in 1..n, k <= Len(rels)
      PROVE  /\ s[k].id = rels[k] /\ s[k].type # "Publish" /\ rels[k] \in IdsIn(a)
             /\ RecordOf(a, rels[k]).state \in PubRelToResendStates
  <2>1. k \in 1..Len(rels) BY <1>1, <1>6
  <2>2. rels[k] \in PacketIds BY <1>1, <2>1, Elements
  <2>3. (IF HasStore THEN keptAck[rels[k]] ELSE "PubRel") # "Publish" BY <2>2 DEF Kept
  <2>4. s[k] = RelPacket(rels[k]) BY <1>3, <1>6
  <2> QED BY <1>1, <2>1, <2>3, <2>4 DEF RelPacket, Packet
<1>7. ASSUME NEW k \in 1..n, k > Len(rels)
      PROVE  /\ HasStore /\ k - Len(rels) \in 1..Len(pubs)
             /\ s[k].id = pubs[k - Len(rels)] /\ s[k].type = "Publish"
             /\ s[k].qos = RecordOf(a, s[k].id).qos
             /\ s[k].id \in IdsIn(a)
             /\ RecordOf(a, s[k].id).state \in PublishToResendStates
  <2>1. k - Len(rels) \in 1..Len(pubs) BY <1>1, <1>2, <1>4, <1>7
  <2>2. HasStore BY <1>2, <2>1
  <2>3. s[k] = PubPacket(a, pubs[k - Len(rels)]) BY <1>3, <1>7
  <2> QED BY <1>2, <2>1, <2>2, <2>3 DEF PubPacket, Packet
<1>8. ASSUME NEW k \in 1..n, NEW l \in 1..n, s[k].id = s[l].id
      PROVE  k = l
  <2>1. CASE k <= Len(rels) /\ l <= Len(rels)
    <3>1. k \in 1..Len(rels) /\ l \in 1..Len(rels) BY <1>1, <2>1
    <3> QED BY <1>1, <1>6, <1>8, <2>1, <3>1
  <2>2. CASE k > Len(rels) /\ l > Len(rels)
    <3>1. k - Len(rels) = l - Len(rels) BY <1>2, <1>7, <1>8, <2>2
    <3> QED BY <1>1, <1>4, <3>1
  <2>3. CASE (k <= Len(rels) /\ l > Len(rels)) \/ (k > Len(rels) /\ l <= Len(rels))
    BY <1>6, <1>7, <1>8, <2>3, StateSets
  <2> QED BY <1>1, <1>4, <2>1, <2>2, <2>3
<1>9. OneEach(s, Requests) BY <1>5, <1>8 DEF OneEach
<1> QED BY <1>5, <1>6, <1>7, <1>9 DEF s, rels, pubs

\* Nothing has been published, sent or forwarded.
LEMMA InitOut == Init => OutInv
<1> SUFFICES ASSUME Init PROVE OutInv
  OBVIOUS
<1>1. Occupied(outgoing) = {} BY DEF Init, Occupied, Empty, Record
<1>2. IdsIn(outgoing) = {} BY <1>1 DEF IdsIn
<1>3. AllFit BY <1>2, AboutNone DEF Init, AllFit, IdFits, Fits
<1>4. Wires BY AboutNone DEF Init, Wires
<1>5. Settled BY <1>2 DEF Init, Settled
<1> QED BY <1>3, <1>4, <1>5 DEF Init, OutInv

\* A CONNACK whose Receive Maximum is the steady one leaves every record.
LEMMA CapSteady ==
  ASSUME Inv, Settled, SteadyMaximum, NEW m \in ReceiveMaxes
  PROVE  LET a == CapTo(outgoing, m)
         IN  /\ GoodOut(a) /\ SameRecords(outgoing, a) /\ Before(a) = Before(outgoing)
             /\ \A x \in ReceiveMaxes : \A i \in DOMAIN a : i <= x
<1> DEFINE a == CapTo(outgoing, m)
<1>1. m \in Nat /\ ReceiveMaxes \subseteq Nat /\ OutSlots \in Nat BY SessionAssumption
<1>2. /\ GoodOut(a) /\ IdsIn(a) \subseteq IdsIn(outgoing)
      /\ DOMAIN a = {i \in DOMAIN outgoing : i <= m}
  BY <1>1, CapById DEF Inv, GoodOut, SomeOf
<1>3. SameRecords(outgoing, a) /\ Before(a) = Before(outgoing)
  <2>1. CASE IdsIn(outgoing) = {}
    <3>1. IdsIn(a) = {} BY <1>2, <2>1
    <3> HIDE DEF a
    <3>2. Before(a) = {} /\ Before(outgoing) = {} BY <2>1, <3>1, BeforeIs
    <3> QED BY <2>1, <3>1, <3>2 DEF SameRecords
  <2>2. CASE IdsIn(outgoing) # {}
    <3>1. \A i \in DOMAIN outgoing : i <= m BY <2>2 DEF Settled
    <3>2. a = outgoing BY <1>1, <3>1, CapKeeps DEF Inv, GoodOut
    <3> HIDE DEF a
    <3> QED BY <3>2 DEF SameRecords
  <2> QED BY <2>1, <2>2
<1>4. DOMAIN outgoing \subseteq 1..OutSlots
  <2>1. PICK n \in 0..OutSlots : outgoing \in [1..n -> Slots]
    BY DEF Inv, GoodOut, Good, IsArray
  <2> QED BY <1>1, <2>1
<1>5. ASSUME NEW x \in ReceiveMaxes, NEW i \in DOMAIN a PROVE i <= x
  <2>1. i <= m /\ i \in 1..OutSlots BY <1>2, <1>4
  <2>2. m = x \/ x >= OutSlots BY DEF SteadyMaximum
  <2> QED BY <1>1, <2>1, <2>2
<1> QED BY <1>2, <1>3, <1>5 DEF a

\* What a connection does to the handshakes: everything on the wires is gone,
\* and either the session is new, or its records are there and what it resends
\* is on the wire; without a store the PUBRELs resent are noted, and the
\* PUBLISHes left to the application.
Resumed(a, n) ==
  LET b == IF HasStore THEN a ELSE Released(a, SubSeq(Rels(a), 1, n))
  IN  /\ Resent(a, n) /\ outgoing' = b /\ GoodOut(b) /\ DOMAIN b = DOMAIN a
      /\ IdsIn(b) = IdsIn(a) /\ Before(b) = Before(a)
      /\ \A x \in IdsIn(a) :
           /\ RecordOf(a, x).state \in PublishToResendStates => RecordOf(b, x) = RecordOf(a, x)
           /\ RecordOf(a, x).state \in PubRelToResendStates =>
                /\ RecordOf(b, x).qos = RecordOf(a, x).qos
                /\ RecordOf(b, x).state \in PubRelToResendStates
                /\ RecordOf(b, x) = RecordOf(a, x) \/ RecordOf(b, x).state = "PubCompPending"
                /\ ~ HasStore /\ n = Len(Rels(a)) => RecordOf(b, x).state = "PubCompPending"
      /\ owed' = IF HasStore THEN {} ELSE Range(Owed(a, PublishToResendStates))
      /\ status' = IF n = Len(Rels(a)) + Len(Pubs(a)) THEN "Connected" ELSE "DisconnectPending"
      /\ UNCHANGED <<keptPublish, keptAck, brokerIn, brokerOut, onward, late>>
      /\ linkUp' = TRUE
      /\ toClient' = [k \in DOMAIN brokerOut |->
           Packet(brokerOut[k].phase, brokerOut[k].id,
                  IF brokerOut[k].phase = "PubRel" THEN 0 ELSE brokerOut[k].qos)]

\* Every resumption is of this form.
LEMMA ResumedIs ==
  ASSUME Inv, Connect, NEW a, GoodOut(a), Resumption(a)
  PROVE  \E n \in 0..Len(Rels(a)) + Len(Pubs(a)) : Resumed(a, n)
<1>1. PICK n \in 0..Len(Rels(a)) + Len(Pubs(a)) :
        /\ Resent(a, n)
        /\ outgoing' = IF HasStore THEN a ELSE Released(a, SubSeq(Rels(a), 1, n))
        /\ status' = IF n = Len(Rels(a)) + Len(Pubs(a)) THEN "Connected"
                     ELSE "DisconnectPending"
  <2>1. Kept BY DEF Inv
  <2>2. \E n \in 0..Len(Rels(a)) + Len(Pubs(a)) :
           /\ Resent(a, n)
           /\ outgoing' = IF HasStore THEN a ELSE Released(a, SubSeq(Rels(a), 1, n))
           /\ status' = IF n = Len(Rels(a)) + Len(Pubs(a)) THEN "Connected"
                        ELSE "DisconnectPending"
           /\ \E failed \in BOOLEAN : Fail(failed) /\ (failed => CanFail)
    BY <2>1, ResumptionIs
  <2> QED BY <2>2
<1>2. /\ owed' = IF HasStore THEN {} ELSE Range(Owed(a, PublishToResendStates))
      /\ UNCHANGED <<keptPublish, keptAck, brokerIn, brokerOut>>
      /\ toClient' = [k \in DOMAIN brokerOut |->
           Packet(brokerOut[k].phase, brokerOut[k].id,
                  IF brokerOut[k].phase = "PubRel" THEN 0 ELSE brokerOut[k].qos)]
  BY DEF Resumption, store, broker
<1>3. UNCHANGED <<onward, late>> /\ linkUp' = TRUE BY DEF Connect
<1> DEFINE b == IF HasStore THEN a ELSE Released(a, SubSeq(Rels(a), 1, n))
<1>4. /\ GoodOut(b) /\ DOMAIN b = DOMAIN a /\ IdsIn(b) = IdsIn(a) /\ Before(b) = Before(a)
      /\ \A x \in IdsIn(a) :
           /\ RecordOf(a, x).state \in PublishToResendStates => RecordOf(b, x) = RecordOf(a, x)
           /\ RecordOf(a, x).state \in PubRelToResendStates =>
                /\ RecordOf(b, x).qos = RecordOf(a, x).qos
                /\ RecordOf(b, x).state \in PubRelToResendStates
                /\ RecordOf(b, x) = RecordOf(a, x) \/ RecordOf(b, x).state = "PubCompPending"
                /\ ~ HasStore /\ n = Len(Rels(a)) => RecordOf(b, x).state = "PubCompPending"
  <2>1. CASE HasStore BY <2>1
  <2>2. CASE ~ HasStore
    <3> DEFINE ids == SubSeq(Rels(a), 1, n)
               c   == Released(a, ids)
    <3>1. /\ Rels(a) \in Seq(PacketIds)
          /\ \A k \in 1..Len(Rels(a)) :
               Rels(a)[k] \in IdsIn(a) /\ RecordOf(a, Rels(a)[k]).state \in PubRelToResendStates
      BY OwedIs, StateSets, SessionAssumption DEF GoodOut, Rels
    <3>2. n \in 0..Len(Rels(a)) /\ n \in Nat
      <4>1. Len(Pubs(a)) = 0 BY <2>2 DEF Pubs
      <4>2. Len(Rels(a)) \in Nat BY <3>1
      <4> QED BY <4>1, <4>2
    <3>3. \A k \in 1..n : Rels(a)[k] \in PacketIds BY <3>1, <3>2, Elements
    <3>4. ids \in Seq(PacketIds) /\ Len(ids) = n /\ \A k \in 1..n : ids[k] = Rels(a)[k]
      BY <3>2, <3>3, PrefixOf
    <3> HIDE DEF ids
    <3>5. \A k \in 1..Len(ids) :
            ids[k] \in IdsIn(a) /\ RecordOf(a, ids[k]).state \in PubRelToResendStates
      BY <3>1, <3>2, <3>4
    <3>6. Range(ids) \subseteq {x \in IdsIn(a) : RecordOf(a, x).state \in PubRelToResendStates}
      BY <3>4, <3>5, Elements DEF Range
    <3>7. /\ GoodOut(c) /\ DOMAIN c = DOMAIN a
          /\ IdsIn(c) = IdsIn(a) /\ Before(c) = Before(a)
          /\ \A x \in IdsIn(a) :
               RecordOf(c, x) = IF x \in Range(ids)
                                THEN [RecordOf(a, x) EXCEPT !.state = "PubCompPending"]
                                ELSE RecordOf(a, x)
      BY <3>4, <3>5, ReleasedIs, SessionAssumption DEF GoodOut
    <3> HIDE DEF c
    <3>8. \A x \in IdsIn(a) : RecordOf(a, x) \in Slots BY OutRecord
    <3>9. ASSUME NEW x \in IdsIn(a)
          PROVE  /\ RecordOf(a, x).state \in PublishToResendStates =>
                      RecordOf(c, x) = RecordOf(a, x)
                 /\ RecordOf(a, x).state \in PubRelToResendStates =>
                      /\ RecordOf(c, x).qos = RecordOf(a, x).qos
                      /\ RecordOf(c, x).state \in PubRelToResendStates
                      /\ RecordOf(c, x) = RecordOf(a, x) \/ RecordOf(c, x).state = "PubCompPending"
                      /\ n = Len(Rels(a)) => RecordOf(c, x).state = "PubCompPending"
      <4>1. CASE x \in Range(ids)
        <5>1. RecordOf(a, x).state \notin PublishToResendStates BY <3>6, <4>1, StateSets
        <5>2. RecordOf(c, x) = [RecordOf(a, x) EXCEPT !.state = "PubCompPending"]
          BY <3>7, <4>1
        <5>3. RecordOf(c, x).qos = RecordOf(a, x).qos /\ RecordOf(c, x).state = "PubCompPending"
          BY <3>8, <5>2 DEF Slots
        <5> QED BY <5>1, <5>3 DEF PubRelToResendStates
      <4>2. CASE x \notin Range(ids)
        <5>1. ASSUME RecordOf(a, x).state \in PubRelToResendStates, n = Len(Rels(a))
              PROVE  FALSE
          <6>1. PICK k \in 1..Len(Rels(a)) : Rels(a)[k] = x
            BY <5>1, OwedIs, StateSets, SessionAssumption DEF GoodOut, Rels
          <6>2. k \in DOMAIN ids /\ ids[k] = x BY <3>4, <5>1, <6>1, Elements
          <6> QED BY <4>2, <6>2 DEF Range
        <5> QED BY <3>7, <4>2, <5>1
      <4> QED BY <4>1, <4>2
    <3>10. b = c BY <2>2 DEF c, ids
    <3> HIDE DEF b
    <3> QED BY <3>7, <3>9, <3>10
  <2> QED BY <2>1, <2>2
<1> QED BY <1>1, <1>2, <1>3, <1>4 DEF Resumed

\* The broker's own packets answer nothing.
LEMMA RepeatedAnswers ==
  ASSUME toClient' = [k \in DOMAIN brokerOut |->
           Packet(brokerOut[k].phase, brokerOut[k].id,
                  IF brokerOut[k].phase = "PubRel" THEN 0 ELSE brokerOut[k].qos)],
         Peers
  PROVE  OneEach(toClient', Answers) /\ \A id : About(toClient', Answers, id) = {}
<1>1. ASSUME NEW k \in DOMAIN toClient' PROVE toClient'[k].type \notin Answers
  <2>1. k \in DOMAIN brokerOut OBVIOUS
  <2>2. brokerOut[k] \in [id : PacketIds, qos : {1, 2}, phase : {"Publish", "PubRel"}]
    BY <2>1, Elements, ZenonT(60) DEF Peers
  <2> QED BY <2>1, <2>2 DEF Packet, Answers
<1> QED BY <1>1 DEF OneEach, About

\* A new connection: the wires are empty before it and hold each request once
\* after it, about the records that wait for its answer.
LEMMA ConnectOut ==
  ASSUME Inv, OutInv, Undisturbed, Connect
  PROVE  OutInv'
<1>1. PICK m \in ReceiveMaxes :
        \/ CleanSession(CapTo(outgoing, m))
        \/ Resumption(CapTo(outgoing, m))
  BY DEF Connect
<1>2. PICK a : a = CapTo(outgoing, m) OBVIOUS
<1>3. /\ GoodOut(a) /\ SameRecords(outgoing, a)
      /\ \A x \in ReceiveMaxes : \A i \in DOMAIN a : i <= x
  BY <1>2, CapSteady DEF Undisturbed, OutInv
<1>4. CASE CleanSession(a)
  <2>1. /\ outgoing' = Clear(a) /\ owed' = {} /\ brokerIn' = {}
        /\ toBroker' = <<>> /\ toClient' = <<>>
    BY <1>4 DEF CleanSession
  <2>2. IdsIn(outgoing') = {} /\ DOMAIN outgoing' = DOMAIN a BY <2>1, ClearIds
  <2>3. \A id \in PacketIds : IdFits(id)'
    BY <2>1, <2>2, AboutNone DEF IdFits, Fits
  <2>4. AllFit' BY <2>3 DEF AllFit
  <2>5. Wires' BY <2>1, AboutNone DEF Wires
  <2>6. Settled' BY <1>3, <2>2 DEF Settled
  <2> QED BY <2>1, <2>4, <2>5, <2>6 DEF OutInv
<1>5. CASE Resumption(a)
  <2>1. PICK n \in 0..Len(Rels(a)) + Len(Pubs(a)) : Resumed(a, n)
    BY <1>3, <1>5, ResumedIs
  <2> DEFINE b == outgoing'
             s == toBroker'
  <2>2. /\ IdsIn(b) = IdsIn(a) /\ DOMAIN b = DOMAIN a
        /\ \A x \in IdsIn(a) :
             /\ RecordOf(a, x).state \in PublishToResendStates => RecordOf(b, x) = RecordOf(a, x)
             /\ RecordOf(a, x).state \in PubRelToResendStates =>
                  /\ RecordOf(b, x).qos = RecordOf(a, x).qos
                  /\ RecordOf(b, x).state \in PubRelToResendStates
        /\ owed' = IF HasStore THEN {} ELSE Range(Owed(a, PublishToResendStates))
        /\ UNCHANGED <<brokerIn, onward>>
    BY <2>1 DEF Resumed
  <2>3. /\ DOMAIN s = 1..n /\ OneEach(s, Requests)
        /\ \A k \in 1..n :
             /\ s[k].id \in IdsIn(a)
             /\ k <= Len(Rels(a)) =>
                  s[k].type # "Publish" /\ RecordOf(a, s[k].id).state \in PubRelToResendStates
             /\ k > Len(Rels(a)) =>
                  /\ HasStore /\ s[k].type = "Publish" /\ s[k].qos = RecordOf(a, s[k].id).qos
                  /\ RecordOf(a, s[k].id).state \in PublishToResendStates
    <3>1. Resent(a, n) /\ Kept BY <2>1 DEF Resumed, Inv
    <3> QED BY <1>3, <3>1, ResentWires
  <2>4. OneEach(toClient', Answers) /\ \A id : About(toClient', Answers, id) = {}
    <3>1. toClient' = [k \in DOMAIN brokerOut |->
           Packet(brokerOut[k].phase, brokerOut[k].id,
                  IF brokerOut[k].phase = "PubRel" THEN 0 ELSE brokerOut[k].qos)]
      BY <2>1 DEF Resumed
    <3> QED BY <3>1, RepeatedAnswers DEF Inv
  <2>5. ASSUME NEW x, x \in owed'
        PROVE  ~ HasStore /\ x \in IdsIn(a) /\ RecordOf(a, x).state \in PublishToResendStates
    <3>1. ~ HasStore /\ x \in Range(Owed(a, PublishToResendStates)) BY <2>2, <2>5
    <3>2. /\ Owed(a, PublishToResendStates) \in Seq(PacketIds)
          /\ \A k \in 1..Len(Owed(a, PublishToResendStates)) :
               /\ Owed(a, PublishToResendStates)[k] \in IdsIn(a)
               /\ RecordOf(a, Owed(a, PublishToResendStates)[k]).state \in PublishToResendStates
      BY <1>3, OwedIs, StateSets, SessionAssumption DEF GoodOut
    <3> QED BY <3>1, <3>2, Elements DEF Range
  <2> HIDE DEF b, s
  <2>6. ASSUME NEW y \in PacketIds PROVE IdFits(y)'
    <3> DEFINE asked2   == About(s, Requests, y)
               replied2 == About(toClient', Answers, y)
               r  == RecordOf(outgoing, y)
               r2 == RecordOf(b, y)
    <3>1. Fits(y \in IdsIn(outgoing), r, About(toBroker, Requests, y),
               About(toClient, Answers, y), onward[y], y \in brokerIn, y \in owed)
      BY DEF OutInv, AllFit, IdFits
    <3>2. /\ y \in IdsIn(b) <=> y \in IdsIn(outgoing)
          /\ y \in IdsIn(b) =>
               /\ RecordOf(a, y) = r
               /\ r.state \in PublishToResendStates => r2 = r
               /\ r.state \in PubRelToResendStates =>
                    r2.qos = r.qos /\ r2.state \in PubRelToResendStates
               /\ r.state \in PublishToResendStates \/ r.state \in PubRelToResendStates
               /\ r.state \in PubRelToResendStates => r.qos = 2
      <4>1. y \in IdsIn(a) => RecordOf(a, y) = r BY <1>3 DEF SameRecords
      <4>2. IdsIn(b) = IdsIn(a) /\ IdsIn(a) = IdsIn(outgoing)
        BY <1>3, <2>2 DEF SameRecords
      <4>3. y \in IdsIn(outgoing) =>
              /\ r.state \in PublishToResendStates \/ r.state \in PubRelToResendStates
              /\ r.state \in PubRelToResendStates => r.qos = 2
        BY OutRecord DEF Inv
      <4> QED BY <2>2, <4>1, <4>2, <4>3
    <3> HIDE DEF r, r2
    <3>3. ASSUME NEW p \in asked2
          PROVE  RequestFits(p, y \in IdsIn(b), r2) /\ (~ HasStore => r.state \in PubRelToResendStates)
      <4>1. PICK k \in 1..n : s[k] = p /\ p.type \in Requests /\ p.id = y
        BY <2>3, <3>3 DEF About
      <4>2. y \in IdsIn(b) /\ RecordOf(a, y) = r BY <2>2, <2>3, <3>2, <4>1
      <4>3. k \in Nat /\ Len(Rels(a)) \in Nat
        <5>1. Rels(a) \in Seq(PacketIds)
          BY <1>3, OwedIs, StateSets, SessionAssumption DEF GoodOut, Rels
        <5> QED BY <5>1
      <4>4. CASE k <= Len(Rels(a))
        <5>1. p.type # "Publish" /\ r.state \in PubRelToResendStates
          BY <2>3, <4>1, <4>2, <4>4
        <5> QED BY <3>2, <4>2, <5>1 DEF RequestFits
      <4>5. CASE k > Len(Rels(a))
        <5>1. /\ p.type = "Publish" /\ p.qos = r.qos /\ r.state \in PublishToResendStates
              /\ HasStore
          BY <2>3, <4>1, <4>2, <4>5
        <5> QED BY <3>2, <4>2, <5>1 DEF RequestFits
      <4> QED BY <4>3, <4>4, <4>5
    <3>4. replied2 = {} BY <2>4
    <3>5. y \in IdsIn(b) => RecordFits(r2, onward'[y], y \in brokerIn')
      <4>1. y \in IdsIn(b) => RecordFits(r, onward[y], y \in brokerIn) BY <3>1, <3>2 DEF Fits
      <4>2. UNCHANGED <<onward, brokerIn>> BY <2>2
      <4> QED BY <3>2, <4>1, <4>2, StateSets DEF RecordFits
    <3>6. y \in brokerIn' => y \in IdsIn(b) BY <2>2, <3>1, <3>2 DEF Fits
    <3>7. y \in owed' => y \in IdsIn(b) /\ r2.state \in PublishToResendStates /\ asked2 = {}
      <4> SUFFICES ASSUME y \in owed'
                   PROVE  y \in IdsIn(b) /\ r2.state \in PublishToResendStates /\ asked2 = {}
        OBVIOUS
      <4>1. ~ HasStore /\ y \in IdsIn(a) /\ RecordOf(a, y).state \in PublishToResendStates
        BY <2>5
      <4>2. y \in IdsIn(b) /\ RecordOf(a, y) = r BY <2>2, <3>2, <4>1
      <4>3. r.state \notin PubRelToResendStates BY <4>1, <4>2, StateSets
      <4> QED BY <3>2, <3>3, <4>1, <4>2, <4>3
    <3> HIDE DEF asked2, replied2
    <3>8. Fits(y \in IdsIn(b), r2, asked2, replied2, onward'[y], y \in brokerIn', y \in owed')
      BY <3>3, <3>4, <3>5, <3>6, <3>7 DEF Fits
    <3> QED BY <3>8 DEF IdFits, asked2, replied2, r2, b, s
  <2>7. AllFit' BY <2>6 DEF AllFit
  <2>8. Wires' BY <2>3, <2>4 DEF Wires, s
  <2>9. Settled' BY <1>3, <2>2 DEF Settled, b
  <2>10. HasStore => owed' = {} BY <2>2
  <2> QED BY <2>7, <2>8, <2>9, <2>10 DEF OutInv
<1> QED BY <1>1, <1>2, <1>4, <1>5

---------------------------------------------------------------------------
(* The invariant holds, and what it says of each publish.                  *)

\* Every action keeps the handshakes in order.
LEMMA NextOut ==
  ASSUME Inv, OutInv, Undisturbed, [Next]_vars
  PROVE  OutInv'
<1>1. CASE PublishNew
  <2>1. PICK id \in PacketIds, q \in OutQoS : Publish(id, q, FALSE) BY <1>1 DEF PublishNew
  <2>2. q \in {1, 2} BY SessionAssumption
  <2> QED BY <2>1, <2>2, PublishOut
<1>2. CASE PublishAgain
  <2>1. PICK id \in PacketIds, q \in {1, 2} :
          Publish(id, q, TRUE) /\ id \in owed /\ RecordOf(outgoing, id).qos = q
    BY <1>2, PublishAgainIs
  <2> QED BY <2>1, PublishOut
<1>3. CASE Disconnect \/ HandleDisconnect \/ NoticeDrop \/ Drop BY <1>3, QuietOut
<1>4. CASE BrokerStep
  <2>1. CASE BrokerReceives(Head(toBroker)) BY <1>4, <2>1, BrokerReceivesOut
  <2>2. CASE BrokerIsAnswered(Head(toBroker)) BY <1>4, <2>2, BrokerAnsweredOut
  <2> QED BY <1>4, <2>1, <2>2 DEF BrokerStep
<1>5. CASE UNCHANGED vars
  <2>1. UNCHANGED <<status, outgoing, owed, toBroker, toClient, brokerIn, onward>>
    BY <1>5 DEF vars, broker
  <2>2. Wires' /\ Settled' BY <2>1 DEF OutInv, Wires, Settled
  <2>3. AllFit' BY <2>1, Untouched DEF OutInv, AllFit
  <2> QED BY <2>1, <2>2, <2>3 DEF OutInv
<1>6. ~ \E id \in PacketIds : Cancel(id) BY DEF Undisturbed, Cancel
<1> QED
  BY <1>1, <1>2, <1>3, <1>4, <1>5, <1>6, ConnectOut, HandlePublishOut, HandlePublishAckOut,
     BrokerPublishOut DEF Next

\* So the invariant holds, of an undisturbed session.
LEMMA OutInvHolds ==
  ASSUME Undisturbed
  PROVE  Spec => [](Inv /\ OutInv)
<1>1. Init => Inv /\ OutInv BY InitInv, InitOut
<1>2. Inv /\ OutInv /\ [Next]_vars => (Inv /\ OutInv)' BY NextInv, NextOut
<1> QED BY <1>1, <1>2, PTL DEF Spec

\* A QoS 2 publish is forwarded at most once while its record lives, however
\* often connections drop, sends fail, the store refuses and sessions resume,
\* and has been by the time a PUBREL is owed: no run of losses makes the client
\* resend a PUBLISH the broker has released (state.rs 532-575,
\* session.rs 455-546).
THEOREM ForwardedOnce ==
  ASSUME Undisturbed
  PROVE  Spec => []ExactlyOnceOut
<1>1. Inv /\ OutInv => ExactlyOnceOut
  <2> SUFFICES ASSUME Inv, OutInv, NEW i \in Occupied(outgoing), outgoing[i].qos = 2
               PROVE  /\ onward[outgoing[i].packet_id] < 2
                      /\ outgoing[i].state \in PubRelToResendStates =>
                           onward[outgoing[i].packet_id] = 1
    BY DEF ExactlyOnceOut
  <2> DEFINE id == outgoing[i].packet_id
             r  == RecordOf(outgoing, id)
  <2>1. id \in IdsIn(outgoing) /\ r = outgoing[i]
    BY ById, SessionAssumption DEF Inv, GoodOut
  <2>2. /\ id \in PacketIds
        /\ r.state \in PublishToResendStates \/ r.state \in PubRelToResendStates
    BY <2>1, OutRecord DEF Inv
  <2> HIDE DEF id, r
  <2>3. RecordFits(r, onward[id], id \in brokerIn)
    BY <2>1, <2>2 DEF OutInv, AllFit, IdFits, Fits, r
  <2> QED BY <2>1, <2>2, <2>3 DEF RecordFits, id
<1> QED BY <1>1, OutInvHolds, PTL

\* A record that leaves while connected belongs to a message the broker has
\* had: a handshake never ends with an answer to another publish of the same
\* id, on this connection or one before it (loop_.rs 439-458,
\* state.rs 532-575).
THEOREM CompletedWasForwarded ==
  ASSUME Undisturbed
  PROVE  Spec => CompletedMeansForwarded
<1>1. ASSUME Inv, OutInv, [Next]_vars, status # "NotConnected",
             NEW id \in IdsIn(outgoing) \ IdsIn(outgoing')
      PROVE  onward[id] > 0
  <2>1. CASE PublishNew
    <3>1. PICK y \in PacketIds, q \in OutQoS : Publish(y, q, FALSE) BY <2>1 DEF PublishNew
    <3>2. q \in {1, 2} BY SessionAssumption
    <3> QED BY <1>1, <3>1, <3>2, PublishOut
  <2>2. CASE PublishAgain
    <3>1. PICK y \in PacketIds, q \in {1, 2} :
            Publish(y, q, TRUE) /\ y \in owed /\ RecordOf(outgoing, y).qos = q
      BY <1>1, <2>2, PublishAgainIs
    <3> QED BY <1>1, <3>1, PublishOut
  <2>3. CASE HandlePublishAck
    <3>1. PICK i : i = Head(toClient).id OBVIOUS
    <3>2. toClient # <<>> /\ Head(toClient).type \in AckTypes /\ i \in PacketIds
      BY <1>1, <2>3, <3>1, HeadIs DEF Inv, HandlePublishAck
    <3>3. Head(toClient).type \in Answers
      <4>1. ASSUME Head(toClient).type = "PubRel" PROVE UNCHANGED outgoing
        <5>1. ~ IsPublishOutgoing("PubRel", "Receive") BY DEF IsPublishOutgoing
        <5> QED BY <2>3, <4>1, <5>1 DEF HandlePublishAck, Install
      <4> QED BY <1>1, <3>2, <4>1 DEF AckTypes, Answers
    <3>4. AnswerHandled(i) BY <1>1, <2>3, <3>1, <3>3, AnswerHandledIs
    <3>5. id = i /\ Head(toClient).type \in {"PubAck", "PubComp"}
      BY <1>1, <3>4 DEF AnswerHandled, Forgotten, Recorded
    <3>6. Head(toClient) \in About(toClient, Answers, i)
      BY <1>1, <3>1, <3>2, <3>3, AboutTail DEF Inv, Links, OutInv, Wires
    <3> DEFINE r == RecordOf(outgoing, i)
               p == Head(toClient)
    <3>7. /\ AnswerFits(p, i \in IdsIn(outgoing), r, onward[i], i \in brokerIn)
          /\ i \in IdsIn(outgoing) => RecordFits(r, onward[i], i \in brokerIn)
      <4>1. IdFits(i) BY <1>1, <3>2 DEF OutInv, AllFit
      <4> QED BY <3>6, <4>1 DEF IdFits, Fits
    <3> HIDE DEF r, p
    <3> QED BY <3>5, <3>7 DEF AnswerFits, RecordFits, p
  <2>4. CASE BrokerStep \/ Disconnect \/ HandleDisconnect \/ NoticeDrop \/ Drop \/ HandlePublish
    BY <1>1, <2>4 DEF BrokerStep, Disconnect, HandleDisconnect, NoticeDrop, Drop, HandlePublish
  <2>5. CASE \E y \in PacketIds, q \in InQoS : BrokerPublish(y, q)
    BY <1>1, <2>5 DEF BrokerPublish
  <2>6. CASE UNCHANGED vars BY <1>1, <2>6 DEF vars
  <2>7. ~ \E y \in PacketIds : Cancel(y) BY DEF Undisturbed, Cancel
  <2>8. ~ Connect BY <1>1 DEF Connect
  <2> QED BY <1>1, <2>1, <2>2, <2>3, <2>4, <2>5, <2>6, <2>7, <2>8 DEF Next
<1>2. Inv /\ OutInv /\ [Next]_vars =>
        [status # "NotConnected" =>
           \A id \in IdsIn(outgoing) \ IdsIn(outgoing') : onward[id] > 0]_vars
  BY <1>1
<1> QED BY <1>2, OutInvHolds, PTL DEF Spec, CompletedMeansForwarded

---------------------------------------------------------------------------
(* Order: with a store that takes every copy, a publish is never forwarded *)
(* while an earlier one still in flight has not been.                      *)

\* A PUBLISH of an id is in a sequence of packets, and every PUBLISH of y in
\* it has one of x before it.
Sent(s, x) == \E k \in DOMAIN s : s[k].type = "Publish" /\ s[k].id = x

Follows(s, x, y) ==
  \A l \in DOMAIN s : s[l].type = "Publish" /\ s[l].id = y =>
    \E k \in DOMAIN s : k < l /\ s[k].type = "Publish" /\ s[k].id = x

Resendable(a, x) == x \in IdsIn(a) /\ RecordOf(a, x).state \in PublishToResendStates

\* Of two publishes the later is neither forwarded before the earlier nor on
\* the wire without it, unless the call that made the earlier one failed.
PairFits(x, y) ==
  InOrder(outgoing, x, y) /\ Resendable(outgoing, x) /\ Resendable(outgoing, y) /\ x \notin late =>
    /\ onward[y] > 0 => onward[x] > 0
    /\ onward[x] > 0 \/ Follows(toBroker, x, y)

\* A connection is only in use once everything it owed is on its way.
OnItsWay(x) ==
  status = "Connected" /\ linkUp /\ Resendable(outgoing, x) /\ x \notin late =>
    onward[x] > 0 \/ Sent(toBroker, x)

OrderInv == (\A x, y \in PacketIds : PairFits(x, y)) /\ \A x \in PacketIds : OnItsWay(x)

\* What an append adds to a sequence.
LEMMA FollowsAppend ==
  ASSUME NEW s \in Seq(Packets), NEW p \in Packets
  PROVE  /\ \A x, y : Follows(s, x, y) /\ (p.type = "Publish" /\ p.id = y => Sent(s, x))
                        => Follows(Append(s, p), x, y)
         /\ \A x : Sent(Append(s, p), x) <=> Sent(s, x) \/ (p.type = "Publish" /\ p.id = x)
<1> DEFINE t == Append(s, p)
<1>1. /\ t \in Seq(Packets) /\ Len(t) = Len(s) + 1
      /\ \A k \in 1..Len(s) : t[k] = s[k]
      /\ t[Len(s) + 1] = p
  BY AppendOf
<1>2. DOMAIN s = 1..Len(s) /\ Len(s) \in Nat BY Elements
<1>3. DOMAIN t = 1..Len(s)+1 BY <1>1, Elements
<1> HIDE DEF t
<1>4. DOMAIN t = DOMAIN s \cup {Len(s)+1} /\ \A k \in DOMAIN s : t[k] = s[k] /\ k < Len(s)+1
  BY <1>1, <1>2, <1>3
<1>5. ASSUME NEW x, NEW y, Follows(s, x, y), p.type = "Publish" /\ p.id = y => Sent(s, x)
      PROVE  Follows(t, x, y)
  <2> SUFFICES ASSUME NEW l \in DOMAIN t, t[l].type = "Publish", t[l].id = y
               PROVE  \E k \in DOMAIN t : k < l /\ t[k].type = "Publish" /\ t[k].id = x
    BY DEF Follows
  <2>1. CASE l \in DOMAIN s
    <3>1. PICK k \in DOMAIN s : k < l /\ s[k].type = "Publish" /\ s[k].id = x
      BY <1>4, <1>5, <2>1 DEF Follows
    <3> QED BY <1>4, <3>1
  <2>2. CASE l = Len(s) + 1
    <3>1. PICK k \in DOMAIN s : s[k].type = "Publish" /\ s[k].id = x
      BY <1>1, <1>5, <2>2 DEF Sent
    <3> QED BY <1>4, <2>2, <3>1
  <2> QED BY <1>4, <2>1, <2>2
<1>6. ASSUME NEW x PROVE Sent(t, x) <=> Sent(s, x) \/ (p.type = "Publish" /\ p.id = x)
  BY <1>1, <1>4 DEF Sent
<1> QED BY <1>5, <1>6 DEF t

\* And what the first packet takes with it.
LEMMA FollowsTail ==
  ASSUME NEW s \in Seq(Packets), s # <<>>
  PROVE  /\ \A x, y : Follows(s, x, y) /\ ~ (Head(s).type = "Publish" /\ Head(s).id = x)
                        => Follows(Tail(s), x, y)
         /\ \A x, y : Follows(s, x, y) => ~ (Head(s).type = "Publish" /\ Head(s).id = y)
         /\ \A x : Sent(s, x) => Sent(Tail(s), x) \/ (Head(s).type = "Publish" /\ Head(s).id = x)
<1> DEFINE t == Tail(s)
<1>1. /\ Head(s) = s[1] /\ Len(s) >= 1
      /\ t \in Seq(Packets) /\ Len(t) = Len(s) - 1
      /\ \A k \in 1..Len(t) : t[k] = s[k+1]
  BY TailOf
<1>2. DOMAIN s = 1..Len(s) /\ Len(s) \in Nat BY Elements
<1>3. DOMAIN t = 1..Len(s)-1 BY <1>1, Elements
<1> HIDE DEF t
<1>4. /\ \A k \in DOMAIN t : k \in Nat /\ k + 1 \in DOMAIN s /\ t[k] = s[k+1]
      /\ \A n \in DOMAIN s : n \in Nat /\ (n # 1 => n - 1 \in DOMAIN t /\ t[n-1] = s[n])
      /\ 1 \in DOMAIN s /\ \A n \in DOMAIN s : ~ (n < 1)
  BY <1>1, <1>2, <1>3
<1>5. ASSUME NEW x, NEW y, Follows(s, x, y), ~ (s[1].type = "Publish" /\ s[1].id = x)
      PROVE  Follows(t, x, y)
  <2> SUFFICES ASSUME NEW l \in DOMAIN t, t[l].type = "Publish", t[l].id = y
               PROVE  \E k \in DOMAIN t : k < l /\ t[k].type = "Publish" /\ t[k].id = x
    BY DEF Follows
  <2>1. PICK k \in DOMAIN s : k < l + 1 /\ s[k].type = "Publish" /\ s[k].id = x
    BY <1>4, <1>5 DEF Follows
  <2>2. k # 1 BY <1>5, <2>1
  <2>3. k - 1 \in DOMAIN t /\ t[k-1] = s[k] /\ k - 1 < l BY <1>4, <2>1, <2>2
  <2> QED BY <2>1, <2>3
<1>6. ASSUME NEW x, NEW y, Follows(s, x, y) PROVE ~ (s[1].type = "Publish" /\ s[1].id = y)
  BY <1>4, <1>6 DEF Follows
<1>7. ASSUME NEW x, Sent(s, x) PROVE Sent(t, x) \/ (s[1].type = "Publish" /\ s[1].id = x)
  <2>1. PICK n \in DOMAIN s : s[n].type = "Publish" /\ s[n].id = x BY <1>7 DEF Sent
  <2> QED BY <1>4, <2>1 DEF Sent
<1> QED BY <1>1, <1>5, <1>6, <1>7 DEF t

\* In a well-formed array nothing comes before itself.
LEMMA OrderIsStrict ==
  ASSUME NEW a, GoodOut(a), NEW x, NEW y, InOrder(a, x, y)
  PROVE  x # y /\ ~ InOrder(a, y, x) /\ x \in IdsIn(a) /\ y \in IdsIn(a)
<1>1. PICK n \in 0..OutSlots : a \in [1..n -> Slots] BY DEF GoodOut, Good, IsArray
<1>2. \A i \in Occupied(a) : i \in Nat BY <1>1 DEF Occupied
<1>3. PICK i, j \in Occupied(a) : i < j /\ a[i].packet_id = x /\ a[j].packet_id = y
  BY DEF InOrder
<1>4. x # y BY <1>2, <1>3 DEF GoodOut, Good, UniqueIds
<1>5. ASSUME InOrder(a, y, x) PROVE FALSE
  <2>1. PICK k, l \in Occupied(a) : k < l /\ a[k].packet_id = y /\ a[l].packet_id = x
    BY <1>5 DEF InOrder
  <2>2. k = j /\ l = i BY <1>3, <2>1 DEF GoodOut, Good, UniqueIds
  <2> QED BY <1>2, <1>3, <2>1, <2>2
<1> QED BY <1>3, <1>4, <1>5 DEF IdsIn

\* The order stays as it is through a step that adds no publish, and puts no
\* PUBLISH on the wire and takes none off it but by losing the connection.
LEMMA OrderStays ==
  ASSUME Links, OrderInv, UNCHANGED <<onward, late>>,
         \A x, y \in PacketIds : InOrder(outgoing', x, y) => InOrder(outgoing, x, y)
                                                            \/ ~ Resendable(outgoing', x)
                                                            \/ ~ Resendable(outgoing', y),
         \A x \in PacketIds : Resendable(outgoing', x) => Resendable(outgoing, x),
         status' = "Connected" /\ linkUp' => status = "Connected" /\ linkUp,
         \/ UNCHANGED toBroker
         \/ \E p \in Packets : p.type # "Publish" /\ toBroker' = Append(toBroker, p)
         \/ toBroker # <<>> /\ Head(toBroker).type # "Publish" /\ toBroker' = Tail(toBroker)
         \/ toBroker' = <<>> /\ ~ (status' = "Connected" /\ linkUp')
  PROVE  OrderInv'
<1>1. \A x, y \in PacketIds : Follows(toBroker, x, y) => Follows(toBroker', x, y)
  <2>1. CASE UNCHANGED toBroker BY <2>1
  <2>2. CASE \E p \in Packets : p.type # "Publish" /\ toBroker' = Append(toBroker, p)
    BY <2>2, FollowsAppend DEF Links
  <2>3. CASE toBroker # <<>> /\ Head(toBroker).type # "Publish" /\ toBroker' = Tail(toBroker)
    BY <2>3, FollowsTail DEF Links
  <2>4. CASE toBroker' = <<>> BY <2>4 DEF Follows
  <2> QED BY <2>1, <2>2, <2>3, <2>4
<1>2. ASSUME status' = "Connected" /\ linkUp', NEW x \in PacketIds, Sent(toBroker, x)
      PROVE  Sent(toBroker', x)
  <2>1. CASE UNCHANGED toBroker BY <1>2, <2>1
  <2>2. CASE \E p \in Packets : p.type # "Publish" /\ toBroker' = Append(toBroker, p)
    BY <1>2, <2>2, FollowsAppend DEF Links
  <2>3. CASE toBroker # <<>> /\ Head(toBroker).type # "Publish" /\ toBroker' = Tail(toBroker)
    BY <1>2, <2>3, FollowsTail DEF Links
  <2> QED BY <1>2, <2>1, <2>2, <2>3
<1>3. ASSUME NEW x \in PacketIds, NEW y \in PacketIds PROVE PairFits(x, y)'
  <2>1. PairFits(x, y) BY DEF OrderInv
  <2> HIDE DEF OrderInv
  <2> QED BY <1>1, <2>1 DEF PairFits
<1>4. ASSUME NEW x \in PacketIds PROVE OnItsWay(x)'
  <2>1. OnItsWay(x) BY DEF OrderInv
  <2> QED BY <1>2, <2>1 DEF OnItsWay
<1> QED BY <1>3, <1>4 DEF OrderInv

\* Steps that leave the outgoing publishes, and the PUBLISHes sent, alone.
LEMMA QuietOrder ==
  ASSUME Inv, OrderInv,
         \/ Disconnect \/ HandleDisconnect \/ NoticeDrop \/ Drop
         \/ \E id \in PacketIds, q \in InQoS : BrokerPublish(id, q)
         \/ BrokerStep /\ BrokerIsAnswered(Head(toBroker))
         \/ UNCHANGED vars
  PROVE  OrderInv'
<1>1. CASE Disconnect \/ HandleDisconnect \/ NoticeDrop \/ Drop
  <2>1. /\ UNCHANGED <<outgoing, onward, late>>
        /\ ~ (status' = "Connected" /\ linkUp')
        /\ UNCHANGED toBroker \/ toBroker' = <<>>
    BY <1>1 DEF Disconnect, HandleDisconnect, NoticeDrop, Drop, Unplugged
  <2> QED BY <2>1, OrderStays DEF Inv
<1>2. CASE \E id \in PacketIds, q \in InQoS : BrokerPublish(id, q)
  <2>1. UNCHANGED <<outgoing, onward, late, status, linkUp, toBroker>> BY <1>2 DEF BrokerPublish
  <2> QED BY <2>1, OrderStays DEF Inv
<1>3. CASE BrokerStep /\ BrokerIsAnswered(Head(toBroker))
  <2>1. /\ UNCHANGED <<outgoing, onward, late, status, linkUp>>
        /\ toBroker # <<>> /\ Head(toBroker).type # "Publish" /\ toBroker' = Tail(toBroker)
    BY <1>3 DEF BrokerStep, BrokerIsAnswered
  <2> QED BY <2>1, OrderStays DEF Inv
<1>4. CASE UNCHANGED vars
  <2>1. UNCHANGED <<outgoing, onward, late, status, linkUp, toBroker>> BY <1>4 DEF vars
  <2> QED BY <2>1, OrderStays DEF Inv
<1> QED BY <1>1, <1>2, <1>3, <1>4

\* The incoming direction sends only its own acknowledgements.
LEMMA IncomingOrder ==
  ASSUME Inv, OrderInv, Undisturbed,
         HandlePublish \/ (HandlePublishAck /\ Head(toClient).type = "PubRel")
  PROVE  OrderInv'
<1> DEFINE p == Head(toClient)
<1>1. linkUp /\ toClient # <<>> /\ p.id \in PacketIds
  BY HeadIs DEF Inv, HandlePublish, HandlePublishAck
<1> HIDE DEF p
<1>2. /\ UNCHANGED <<outgoing, onward, late, linkUp>>
      /\ \/ UNCHANGED <<status, toBroker>>
         \/ \E ack \in AckTypes : \E records, acks :
              \E o \in AckOutcomes(records, acks, p.id, ack) : Answered(o)
  <2>1. CASE HandlePublish
    <3> DEFINE received == UpdatePublishReceive(incoming, p.id, p.qos)
               ack      == IF p.qos = 1 THEN "PubAck" ELSE "PubRec"
    <3>1. /\ UNCHANGED <<outgoing, onward, late, linkUp>>
          /\ \/ UNCHANGED <<status, toBroker>>
             \/ \E o \in AckOutcomes(received.records, keptAck, p.id, ack) : Answered(o)
      BY <2>1 DEF HandlePublish, p
    <3>2. ack \in AckTypes BY DEF AckTypes
    <3> HIDE DEF received, ack
    <3> QED BY <3>1, <3>2
  <2>2. CASE HandlePublishAck /\ p.type = "PubRel"
    <3> DEFINE received == UpdateAckIn(incoming, p.id, p.type, "Receive")
               acks     == StillKeptAck(p.id, p.type)
    <3>1. ~ IsPublishOutgoing(p.type, "Receive") BY <2>2 DEF IsPublishOutgoing
    <3>2. UNCHANGED <<onward, late, linkUp>> BY <2>2 DEF HandlePublishAck
    <3>3. /\ UNCHANGED outgoing
          /\ \/ UNCHANGED <<status, toBroker>>
             \/ \E o \in AckOutcomes(received.records, acks, p.id, "PubComp") : Answered(o)
      BY <2>2, <3>1 DEF HandlePublishAck, Undisturbed, Install, p
    <3>4. "PubComp" \in AckTypes BY DEF AckTypes
    <3> HIDE DEF received, acks
    <3> QED BY <3>2, <3>3, <3>4
  <2> QED BY <2>1, <2>2 DEF p
<1>3. CASE UNCHANGED <<status, toBroker>> BY <1>2, <1>3, OrderStays DEF Inv
<1>4. ASSUME NEW ack \in AckTypes, NEW records, NEW acks,
             NEW o \in AckOutcomes(records, acks, p.id, ack), Answered(o)
      PROVE  OrderInv'
  <2> DEFINE x == Packet(ack, p.id, 0)
  <2>1. x \in Packets /\ x.type = ack BY <1>1 DEF QoS, Packet, Packets
  <2>2. ack # "Publish" BY DEF AckTypes
  <2> HIDE DEF x
  <2>3. OnWire(<<x>>) = Append(toBroker, x) /\ OnWire(<<>>) = toBroker
    BY <1>1, <2>1, OnWireOf DEF Inv, Links
  <2>4. status' \in {status, "DisconnectPending"}
        /\ (UNCHANGED toBroker \/ toBroker' = Append(toBroker, x))
    <3>1. AckDone(o, records, acks, p.id, ack) \/ AckNotDone(o, records, acks, p.id, ack)
      BY AckOutcomeCases
    <3> QED BY <1>4, <2>3, <3>1 DEF AckDone, AckNotDone, Answered, x
  <2> QED BY <1>2, <2>1, <2>2, <2>4, OrderStays DEF Inv
<1> QED BY <1>2, <1>3, <1>4

\* An answer ends a publish or takes it past resending.
LEMMA AnswerOrder ==
  ASSUME Inv, OrderInv, NEW i \in PacketIds, AnswerHandled(i)
  PROVE  OrderInv'
<1>1. /\ UNCHANGED <<onward, late, linkUp>> /\ status' \in {status, "DisconnectPending"}
      /\ GoodOut(outgoing')
  BY DEF AnswerHandled
<1>2. ASSUME NEW x \in PacketIds, NEW y \in PacketIds, InOrder(outgoing', x, y),
             Resendable(outgoing', x), Resendable(outgoing', y)
      PROVE  InOrder(outgoing, x, y)
  <2>1. CASE UNCHANGED outgoing BY <1>2, <2>1
  <2>2. CASE Dropped(outgoing, outgoing', {RecordOf(outgoing, i)})
    <3>1. <<x, y>> \in Before(outgoing') BY <1>2, BeforeIs
    <3>2. <<x, y>> \in Before(outgoing) BY <2>2, <3>1 DEF Dropped
    <3> QED BY <3>2, BeforeIs
  <2>3. ASSUME NEW state \in PubRelToResendStates,
               Recorded(outgoing, outgoing', Record(i, 2, state)),
               Before(outgoing') =
                 {e \in Before(outgoing) : e[1] \in IdsIn(outgoing) \ {i}
                                           /\ e[2] \in IdsIn(outgoing) \ {i}}
                 \cup ((IdsIn(outgoing) \ {i}) \X {i})
        PROVE  InOrder(outgoing, x, y)
    <3>1. <<x, y>> \in Before(outgoing') BY <1>2, BeforeIs
    <3>2. RecordOf(outgoing', i).state = state BY <2>3 DEF Recorded, Record
    <3>3. y # i BY <1>2, <3>2, StateSets DEF Resendable
    <3>4. <<x, y>> \in Before(outgoing) BY <2>3, <3>1, <3>3
    <3> QED BY <3>4, BeforeIs
  <2> QED BY <2>1, <2>2, <2>3 DEF AnswerHandled, PubRelToResendStates
<1>3. ASSUME NEW x \in PacketIds, Resendable(outgoing', x)
      PROVE  Resendable(outgoing, x)
  <2>1. CASE UNCHANGED outgoing BY <1>3, <2>1
  <2>2. CASE Forgotten(outgoing, outgoing', i) BY <1>3, <2>2 DEF Forgotten, Resendable
  <2>3. ASSUME NEW state \in PubRelToResendStates,
               Recorded(outgoing, outgoing', Record(i, 2, state))
        PROVE  Resendable(outgoing, x)
    <3>1. RecordOf(outgoing', i).state = state /\ Record(i, 2, state).packet_id = i
      BY <2>3 DEF Recorded, Record
    <3>2. x # i BY <1>3, <3>1, StateSets DEF Resendable
    <3> QED BY <1>3, <2>3, <3>1, <3>2 DEF Recorded, Resendable
  <2> QED BY <2>1, <2>2, <2>3 DEF AnswerHandled, PubRelToResendStates
<1>4. \/ UNCHANGED toBroker
      \/ \E p \in Packets : p.type # "Publish" /\ toBroker' = Append(toBroker, p)
  <2>1. Packet("PubRel", i, 0) \in Packets /\ Packet("PubRel", i, 0).type = "PubRel"
    BY DEF QoS, AckTypes, Packet, Packets
  <2> QED BY <2>1 DEF AnswerHandled
<1> QED BY <1>1, <1>2, <1>3, <1>4, OrderStays DEF Inv

\* The broker forwards the first PUBLISH on the wire: no earlier one is behind
\* it.
LEMMA BrokerReceivesOrder ==
  ASSUME Inv, OutInv, OrderInv, BrokerStep, BrokerReceives(Head(toBroker)),
         NEW i, i = Head(toBroker).id
  PROVE  OrderInv'
<1>1. /\ toBroker # <<>> /\ toBroker' = Tail(toBroker)
      /\ UNCHANGED <<outgoing, status, linkUp, late>>
  BY DEF BrokerStep
<1>2. i \in PacketIds
  <2>1. Head(toBroker) \in Packets BY <1>1, TailOf DEF Inv, Links
  <2> QED BY <2>1, PacketIs
<1>3. CASE Head(toBroker).type # "Publish"
  <2>1. UNCHANGED onward BY <1>3 DEF BrokerReceives
  <2> QED BY <1>1, <1>3, <2>1, OrderStays DEF Inv
<1>4. CASE Head(toBroker).type = "Publish"
  <2>1. /\ onward'[i] > 0
        /\ \A y \in PacketIds : y # i => onward'[y] = onward[y]
    <3>1. onward \in [PacketIds -> 0..2] BY DEF Inv, Peers
    <3>2. onward' \in {onward, Once(onward, i)}
          /\ (onward' = Once(onward, i) \/ (Head(toBroker).qos = 2 /\ i \in brokerIn))
      BY <1>4 DEF BrokerReceives
    <3>3. CASE onward' = Once(onward, i) BY <1>2, <3>1, <3>3, OnceIs
    <3>4. CASE onward' = onward /\ Head(toBroker).qos = 2 /\ i \in brokerIn
      <4>1. Head(toBroker) \in About(toBroker, Requests, i)
        BY <1>1, <1>4, AboutTail DEF Inv, Links, OutInv, Wires, Requests
      <4> DEFINE r == RecordOf(outgoing, i)
                 p == Head(toBroker)
      <4>2. /\ RequestFits(p, i \in IdsIn(outgoing), r)
            /\ i \in IdsIn(outgoing) => RecordFits(r, onward[i], i \in brokerIn)
        <5>1. IdFits(i) BY <1>2 DEF OutInv, AllFit
        <5> QED BY <4>1, <5>1 DEF IdFits, Fits
      <4> HIDE DEF r
      <4>3. onward[i] = 1 BY <1>4, <3>4, <4>2 DEF RequestFits, RecordFits
      <4> QED BY <3>4, <4>3
    <3> QED BY <3>2, <3>3, <3>4
  <2>2. /\ \A x, y : Follows(toBroker, x, y) /\ x # i => Follows(toBroker', x, y)
        /\ \A x : ~ Follows(toBroker, x, i)
        /\ \A x : Sent(toBroker, x) => Sent(toBroker', x) \/ x = i
    BY <1>1, <1>4, FollowsTail DEF Inv, Links
  <2>3. ASSUME NEW x \in PacketIds, NEW y \in PacketIds PROVE PairFits(x, y)'
    <3>1. PairFits(x, y) BY DEF OrderInv
    <3>2. CASE x = i BY <2>1, <3>2 DEF PairFits
    <3>3. CASE x # i /\ y = i BY <1>1, <2>1, <2>2, <3>1, <3>3 DEF PairFits
    <3>4. CASE x # i /\ y # i BY <1>1, <2>1, <2>2, <3>1, <3>4 DEF PairFits
    <3> QED BY <3>2, <3>3, <3>4
  <2>4. ASSUME NEW x \in PacketIds PROVE OnItsWay(x)'
    <3>1. OnItsWay(x) BY DEF OrderInv
    <3>2. CASE x = i BY <2>1, <3>2 DEF OnItsWay
    <3>3. CASE x # i BY <1>1, <2>1, <2>2, <3>1, <3>3 DEF OnItsWay
    <3> QED BY <3>2, <3>3
  <2> QED BY <2>3, <2>4 DEF OrderInv
<1> QED BY <1>3, <1>4

\* A publish that is accepted joins the end of the array and of the wire, or
\* the connection goes out of use, or the call answers an error and leaves it in
\* use; one that is not changes nothing.
PublishedNew(i, q) ==
  \/ /\ SameRecords(outgoing, outgoing') /\ Before(outgoing') = Before(outgoing)
     /\ UNCHANGED <<toBroker, onward, late, status, linkUp>>
  \/ /\ i \notin IdsIn(outgoing) /\ UNCHANGED linkUp
     /\ \E state \in PublishStates : Recorded(outgoing, outgoing', Record(i, q, state))
     /\ Before(outgoing') = Before(outgoing) \cup (IdsIn(outgoing) \X {i})
     /\ onward' = [onward EXCEPT ![i] = 0]
     /\ \A x : x # i => (x \in late' <=> x \in late)
     /\ \/ (status' = "DisconnectPending" \/ i \in late') /\ UNCHANGED toBroker
        \/ /\ UNCHANGED status
           /\ toBroker' = IF linkUp THEN Append(toBroker, Packet("Publish", i, q)) ELSE toBroker
     /\ status' \in {status, "DisconnectPending"}

\* Every new publish that is not refused is of this form.
LEMMA PublishedNewIs ==
  ASSUME Inv, NEW i \in PacketIds, NEW q \in {1, 2}, Publish(i, q, FALSE)
  PROVE  PublishedNew(i, q)
<1> DEFINE reserved == ReserveState(outgoing, i, q)
           b        == reserved.records
           new      == Record(i, q, "PublishSend")
           c        == UpdatePublishSend(b, i, q).records
           p        == Packet("Publish", i, q)
<1>1. /\ GoodOut(b)
      /\ \/ /\ reserved.status = "Ok" /\ i \notin IdsIn(outgoing) /\ Recorded(outgoing, b, new)
            /\ Appended(outgoing, b, new)
         \/ /\ reserved.status \in {"StateCollision", "NoMemory"}
            /\ SameRecords(outgoing, b) /\ SameFlight(outgoing, b)
  <2>1. LET r == ReserveState(outgoing, i, q)
            n == Record(i, q, "PublishSend")
        IN  /\ Good(r.records, OutSlots, OutgoingStates)
            /\ DOMAIN r.records = DOMAIN outgoing
            /\ \/ /\ r.status = "Ok" /\ i \notin IdsIn(outgoing)
                  /\ Recorded(outgoing, r.records, n) /\ Appended(outgoing, r.records, n)
               \/ /\ r.status = "StateCollision" /\ i \in IdsIn(outgoing)
                  /\ SameRecords(outgoing, r.records) /\ SameFlight(outgoing, r.records)
               \/ /\ r.status = "NoMemory" /\ i \notin IdsIn(outgoing)
                  /\ SameRecords(outgoing, r.records) /\ SameFlight(outgoing, r.records)
    BY SessionAssumption, ReserveCases DEF Inv, GoodOut
  <2> QED BY <2>1 DEF GoodOut
<1>2. /\ UNCHANGED linkUp
      /\ \/ /\ reserved.status # "Ok"
            /\ outgoing' = b /\ UNCHANGED <<toBroker, onward, late, status>>
         \/ /\ reserved.status = "Ok"
            /\ onward' = [onward EXCEPT ![i] = 0]
            /\ late' \in {late \ {i}, late \cup {i}} /\ status' \in {status, "DisconnectPending"}
            /\ \/ /\ outgoing' = b /\ UNCHANGED toBroker
                  /\ status' = "DisconnectPending" \/ late' = late \cup {i}
               \/ outgoing' = c /\ UNCHANGED status /\ toBroker' = OnWire(<<p>>)
  BY DEF Publish, Tolerated
<1>3. p \in Packets BY DEF Packet, Packets, QoS
<1>4. OnWire(<<p>>) = IF linkUp THEN Append(toBroker, p) ELSE toBroker
  BY <1>3, OnWireOf DEF Inv, Links
<1> HIDE DEF reserved, b, c, p, new
<1>5. CASE reserved.status # "Ok"
  <2>1. SameRecords(outgoing, b) /\ SameFlight(outgoing, b) BY <1>1, <1>5
  <2> QED BY <1>2, <1>5, <2>1 DEF PublishedNew, SameFlight
<1>6. CASE reserved.status = "Ok"
  <2>1. /\ i \notin IdsIn(outgoing) /\ Recorded(outgoing, b, new)
        /\ Before(b) = Before(outgoing) \cup (IdsIn(outgoing) \X {i})
    BY <1>1, <1>6 DEF Appended, new, Record
  <2>2. \E state \in PublishStates : Recorded(outgoing, c, Record(i, q, state))
        /\ Before(c) = Before(b)
    <3> DEFINE state == CalculateStatePublish("Send", q)
               x     == [RecordOf(b, i) EXCEPT !.state = state]
    <3>1. /\ i \in IdsIn(b) /\ RecordOf(b, i) = Record(i, q, "PublishSend")
      BY <2>1 DEF Recorded, new, Record
    <3>2. RecordOf(b, i).qos = q /\ RecordOf(b, i).state \in PublishToResendStates
      BY <3>1 DEF Record, PublishToResendStates
    <3>3. Recorded(b, c, x) /\ Before(c) = Before(b)
      BY <1>1, <3>1, <3>2, PublishSendCases, SessionAssumption DEF GoodOut, c
    <3>4. x = Record(i, q, state) BY <3>1 DEF Record
    <3>5. state \in PublishStates BY DEF CalculateStatePublish, PublishStates
    <3>6. x.packet_id = new.packet_id BY <3>4 DEF new, Record
    <3> HIDE DEF x, state
    <3>7. Recorded(outgoing, c, x) BY <2>1, <3>3, <3>6, RecordedTwice
    <3> QED BY <3>3, <3>4, <3>5, <3>7
  <2>3. "PublishSend" \in PublishStates BY DEF PublishStates
  <2>6. \A x : x # i => (x \in late' <=> x \in late) BY <1>2, <1>6
  <2>4. CASE /\ outgoing' = b /\ UNCHANGED toBroker
             /\ status' = "DisconnectPending" \/ late' = late \cup {i}
    BY <1>2, <1>6, <2>1, <2>3, <2>4, <2>6 DEF PublishedNew, new
  <2>5. CASE outgoing' = c /\ UNCHANGED status /\ toBroker' = OnWire(<<p>>)
    BY <1>2, <1>4, <1>6, <2>1, <2>2, <2>5, <2>6 DEF PublishedNew, p
  <2> QED BY <1>2, <1>6, <2>4, <2>5
<1> QED BY <1>5, <1>6

\* A new publish is the last record and the last packet.
LEMMA PublishOrder ==
  ASSUME Inv, OutInv, OrderInv, NEW i \in PacketIds, NEW q \in {1, 2}, PublishedNew(i, q),
         status = "Connected"
  PROVE  OrderInv'
<1> DEFINE p == Packet("Publish", i, q)
<1>1. CASE /\ SameRecords(outgoing, outgoing') /\ Before(outgoing') = Before(outgoing)
           /\ UNCHANGED <<toBroker, onward, late, status, linkUp>>
  <2>1. \A x, y : InOrder(outgoing', x, y) => InOrder(outgoing, x, y)
    BY <1>1, BeforeIs
  <2>2. \A x : Resendable(outgoing', x) => Resendable(outgoing, x)
    BY <1>1 DEF Resendable, SameRecords
  <2> QED BY <1>1, <2>1, <2>2, OrderStays DEF Inv
<1>2. CASE /\ i \notin IdsIn(outgoing) /\ UNCHANGED linkUp
           /\ \E state \in PublishStates : Recorded(outgoing, outgoing', Record(i, q, state))
           /\ Before(outgoing') = Before(outgoing) \cup (IdsIn(outgoing) \X {i})
           /\ onward' = [onward EXCEPT ![i] = 0]
           /\ \A x : x # i => (x \in late' <=> x \in late)
           /\ \/ (status' = "DisconnectPending" \/ i \in late') /\ UNCHANGED toBroker
              \/ /\ UNCHANGED status
                 /\ toBroker' = IF linkUp THEN Append(toBroker, p) ELSE toBroker
           /\ status' \in {status, "DisconnectPending"}
  <2>1. ASSUME NEW x \in PacketIds, x # i, Resendable(outgoing', x) PROVE Resendable(outgoing, x)
    <3>1. PICK state \in PublishStates : Recorded(outgoing, outgoing', Record(i, q, state))
      BY <1>2
    <3>2. Record(i, q, state).packet_id = i BY DEF Record
    <3> QED BY <2>1, <3>1, <3>2 DEF Recorded, Resendable
  <2>2. ASSUME NEW x \in PacketIds, NEW y \in PacketIds, InOrder(outgoing', x, y)
        PROVE  x # i /\ (InOrder(outgoing, x, y) \/ y = i)
    <3>1. <<x, y>> \in Before(outgoing) \/ (x \in IdsIn(outgoing) /\ y = i)
      BY <1>2, <2>2, BeforeIs
    <3>2. Before(outgoing) \in SUBSET (IdsIn(outgoing) \X IdsIn(outgoing)) BY BeforeIs
    <3>3. x \in IdsIn(outgoing) BY <3>1, <3>2
    <3> QED BY <1>2, <3>1, <3>3, BeforeIs
  <2>3. onward'[i] = 0 /\ \A x \in PacketIds : x # i => onward'[x] = onward[x]
    BY <1>2 DEF Inv, Peers
  <2>4. p \in Packets /\ p.type = "Publish" /\ p.id = i BY DEF Packet, Packets, QoS
  <2> HIDE DEF p
  <2>5. /\ \A x, y : Follows(toBroker, x, y) /\ (y = i => Sent(toBroker, x))
                       => Follows(Append(toBroker, p), x, y)
        /\ \A x : Sent(Append(toBroker, p), x) <=> Sent(toBroker, x) \/ x = i
    BY <2>4, FollowsAppend DEF Inv, Links
  <2>6. \A x : Follows(toBroker, x, i)
    <3>1. IdFits(i) BY DEF OutInv, AllFit
    <3>2. About(toBroker, Requests, i) = {} BY <1>2, <3>1 DEF IdFits, Fits, RequestFits
    <3> QED BY <3>2 DEF About, Requests, Follows
  <2>7. ASSUME NEW x \in PacketIds, NEW y \in PacketIds PROVE PairFits(x, y)'
    <3>1. PairFits(x, y) /\ OnItsWay(x) BY DEF OrderInv
    <3> SUFFICES ASSUME InOrder(outgoing', x, y), Resendable(outgoing', x),
                        Resendable(outgoing', y), x \notin late'
                 PROVE  /\ onward'[y] > 0 => onward'[x] > 0
                        /\ onward'[x] > 0 \/ Follows(toBroker', x, y)
      BY DEF PairFits
    <3>2. x # i /\ Resendable(outgoing, x) /\ onward'[x] = onward[x] /\ x \notin late
      BY <1>2, <2>1, <2>2, <2>3
    <3>3. CASE y = i
      <4>1. linkUp => onward[x] > 0 \/ Sent(toBroker, x) BY <3>1, <3>2 DEF OnItsWay
      <4>2. onward'[x] > 0 \/ Follows(toBroker', x, y)
        <5>1. CASE toBroker' = toBroker BY <2>6, <3>3, <5>1
        <5>2. CASE linkUp /\ toBroker' = Append(toBroker, p)
          BY <2>5, <2>6, <3>2, <3>3, <4>1, <5>2
        <5> QED BY <1>2, <5>1, <5>2
      <4> QED BY <2>3, <3>3, <4>2
    <3>4. CASE y # i
      <4>1. InOrder(outgoing, x, y) /\ Resendable(outgoing, y) /\ onward'[y] = onward[y]
        BY <2>1, <2>2, <2>3, <3>4
      <4>2. /\ onward[y] > 0 => onward[x] > 0
            /\ onward[x] > 0 \/ Follows(toBroker, x, y)
        BY <3>1, <3>2, <4>1 DEF PairFits
      <4>3. Follows(toBroker, x, y) => Follows(toBroker', x, y)
        <5>1. CASE toBroker' = toBroker BY <5>1
        <5>2. CASE toBroker' = Append(toBroker, p) BY <2>5, <3>4, <5>2
        <5> QED BY <1>2, <5>1, <5>2
      <4> QED BY <3>2, <4>1, <4>2, <4>3
    <3> QED BY <3>3, <3>4
  <2>8. ASSUME NEW x \in PacketIds PROVE OnItsWay(x)'
    <3>1. OnItsWay(x) BY DEF OrderInv
    <3> SUFFICES ASSUME status' = "Connected", linkUp', Resendable(outgoing', x), x \notin late'
                 PROVE  onward'[x] > 0 \/ Sent(toBroker', x)
      BY DEF OnItsWay
    <3>2. linkUp /\ (toBroker' = Append(toBroker, p) \/ (UNCHANGED toBroker /\ x # i)) BY <1>2
    <3>3. CASE x = i BY <2>5, <3>2, <3>3
    <3>4. CASE x # i
      <4>1. x \notin late BY <1>2, <3>4
      <4>2. onward'[x] > 0 \/ Sent(toBroker, x) BY <2>1, <2>3, <3>1, <3>2, <3>4, <4>1 DEF OnItsWay
      <4> QED BY <2>5, <3>2, <4>2
    <3> QED BY <3>3, <3>4
  <2> QED BY <2>7, <2>8 DEF OrderInv
<1> QED BY <1>1, <1>2 DEF PublishedNew

\* A resumed session sends the PUBLISHes in the order of the array.
LEMMA ConnectOrder ==
  ASSUME Inv, OutInv, OrderInv, Undisturbed, HasStore, Connect
  PROVE  OrderInv'
<1>1. PICK m \in ReceiveMaxes :
        \/ CleanSession(CapTo(outgoing, m))
        \/ Resumption(CapTo(outgoing, m))
  BY DEF Connect
<1>2. PICK a : a = CapTo(outgoing, m) OBVIOUS
<1>3. GoodOut(a) /\ SameRecords(outgoing, a) /\ Before(a) = Before(outgoing)
  BY <1>2, CapSteady DEF Undisturbed, OutInv
<1>4. CASE CleanSession(a)
  <2>1. IdsIn(outgoing') = {} BY <1>4, ClearIds DEF CleanSession
  <2> QED BY <2>1 DEF OrderInv, PairFits, OnItsWay, Resendable
<1>5. CASE Resumption(a)
  <2>1. PICK n \in 0..Len(Rels(a)) + Len(Pubs(a)) : Resumed(a, n)
    BY <1>3, <1>5, ResumedIs
  <2> DEFINE s    == toBroker'
             pubs == Owed(a, PublishToResendStates)
             d    == Len(Rels(a))
  <2>2. /\ outgoing' = a /\ UNCHANGED <<onward, late>> /\ Pubs(a) = pubs
        /\ status' = "Connected" => n = d + Len(pubs)
    <3>1. Pubs(a) = pubs BY DEF Pubs
    <3>2. status' = IF n = Len(Rels(a)) + Len(Pubs(a)) THEN "Connected" ELSE "DisconnectPending"
      BY <2>1 DEF Resumed
    <3>3. outgoing' = a /\ UNCHANGED <<onward, late>> BY <2>1 DEF Resumed
    <3> QED BY <3>1, <3>2, <3>3
  <2>3. /\ pubs \in Seq(PacketIds) /\ Len(pubs) \in Nat
        /\ \A x \in IdsIn(a) :
             RecordOf(a, x).state \in PublishToResendStates => \E k \in 1..Len(pubs) : pubs[k] = x
        /\ \A k, l \in 1..Len(pubs) : k < l => InOrder(a, pubs[k], pubs[l])
    <3>1. /\ pubs \in Seq(PacketIds)
          /\ \A x \in IdsIn(a) :
               RecordOf(a, x).state \in PublishToResendStates => \E k \in 1..Len(pubs) : pubs[k] = x
          /\ \A k, l \in 1..Len(pubs) : k < l => InOrder(a, pubs[k], pubs[l])
      BY <1>3, OwedIs, StateSets, SessionAssumption DEF GoodOut
    <3>2. Len(pubs) \in Nat BY <3>1, Elements
    <3> QED BY <3>1, <3>2
  <2>4. d \in Nat
    <3>1. Rels(a) \in Seq(PacketIds)
      BY <1>3, OwedIs, StateSets, SessionAssumption DEF GoodOut, Rels
    <3> QED BY <3>1, Elements
  <2>5. /\ DOMAIN s = 1..n
        /\ \A k \in 1..n : k <= d => s[k].type # "Publish"
        /\ \A k \in 1..n : k > d => /\ k - d \in 1..Len(pubs) /\ s[k].id = pubs[k-d]
                                    /\ s[k].type = "Publish"
    <3>1. Resent(a, n) /\ Kept BY <2>1 DEF Resumed, Inv
    <3>2. /\ DOMAIN toBroker' = 1..n
          /\ \A k \in 1..n :
              /\ k <= Len(Rels(a)) => toBroker'[k].type # "Publish"
              /\ k > Len(Rels(a)) =>
                   /\ k - Len(Rels(a)) \in 1..Len(Pubs(a))
                   /\ toBroker'[k].id = Pubs(a)[k - Len(Rels(a))]
                   /\ toBroker'[k].type = "Publish"
      BY <1>3, <3>1, ResentWires
    <3> QED BY <2>2, <3>2
  <2>6. n \in Nat BY <2>1, <2>2, <2>3, <2>4
  <2> HIDE DEF s, pubs, d
  <2>7. ASSUME NEW x \in PacketIds, NEW y \in PacketIds PROVE PairFits(x, y)'
    <3>1. PairFits(x, y) BY DEF OrderInv
    <3> SUFFICES ASSUME InOrder(a, x, y), Resendable(a, x), Resendable(a, y), x \notin late
                 PROVE  /\ onward[y] > 0 => onward[x] > 0
                        /\ Follows(s, x, y)
      BY <2>2 DEF PairFits, s
    <3>2. onward[y] > 0 => onward[x] > 0
      <4>1. InOrder(outgoing, x, y) BY <1>3, BeforeIs
      <4>2. Resendable(outgoing, x) /\ Resendable(outgoing, y)
        BY <1>3 DEF Resendable, SameRecords
      <4> QED BY <3>1, <4>1, <4>2 DEF PairFits
    <3>3. ASSUME NEW l \in DOMAIN s, s[l].type = "Publish", s[l].id = y
          PROVE  \E k \in DOMAIN s : k < l /\ s[k].type = "Publish" /\ s[k].id = x
      <4>1. l \in 1..n /\ l > d /\ l - d \in 1..Len(pubs) /\ pubs[l-d] = y
        BY <2>4, <2>5, <2>6, <3>3
      <4>2. PICK k \in 1..Len(pubs) : pubs[k] = x BY <2>3 DEF Resendable
      <4>3. x # y /\ ~ InOrder(a, y, x) BY <1>3, OrderIsStrict
      <4>4. k < l - d
        <5>1. k # l - d BY <4>1, <4>2, <4>3
        <5>2. ~ (l - d < k) BY <2>3, <4>1, <4>2, <4>3
        <5>3. k \in Nat /\ l - d \in Nat BY <2>3, <4>1
        <5> QED BY <5>1, <5>2, <5>3
      <4>5. k + d \in 1..n /\ k + d > d /\ k + d < l /\ (k + d) - d = k
        BY <2>3, <2>4, <2>6, <4>1, <4>4
      <4>6. s[k+d].id = pubs[(k + d) - d] /\ s[k+d].type = "Publish" BY <2>5, <4>5
      <4> QED BY <2>5, <4>2, <4>5, <4>6
    <3> QED BY <3>2, <3>3 DEF Follows
  <2>8. ASSUME NEW x \in PacketIds PROVE OnItsWay(x)'
    <3> SUFFICES ASSUME status' = "Connected", Resendable(a, x) PROVE Sent(s, x)
      BY <2>2 DEF OnItsWay, s
    <3>1. PICK k \in 1..Len(pubs) : pubs[k] = x BY <2>3 DEF Resendable
    <3>2. k + d \in 1..n /\ k + d > d /\ (k + d) - d = k BY <2>2, <2>3, <2>4
    <3>3. s[k+d].id = pubs[(k + d) - d] /\ s[k+d].type = "Publish" BY <2>5, <3>2
    <3> QED BY <2>5, <3>1, <3>2, <3>3 DEF Sent
  <2> QED BY <2>7, <2>8 DEF OrderInv
<1> QED BY <1>1, <1>2, <1>4, <1>5

\* So every step keeps the order.
LEMMA NextOrder ==
  ASSUME Inv, OutInv, OrderInv, Undisturbed, HasStore, [Next]_vars
  PROVE  OrderInv'
<1>1. CASE PublishNew
  <2>1. PICK i \in PacketIds, q \in OutQoS : Publish(i, q, FALSE) BY <1>1 DEF PublishNew
  <2>2. q \in {1, 2} BY SessionAssumption
  <2>3. status = "Connected" BY <2>1 DEF Publish
  <2>4. PublishedNew(i, q) BY <2>1, <2>2, PublishedNewIs
  <2> QED BY <2>2, <2>3, <2>4, PublishOrder
<1>2. ~ PublishAgain BY DEF OutInv, PublishAgain
<1>3. CASE Disconnect \/ HandleDisconnect \/ NoticeDrop \/ Drop BY <1>3, QuietOrder
<1>4. CASE \E id \in PacketIds, q \in InQoS : BrokerPublish(id, q) BY <1>4, QuietOrder
<1>5. CASE BrokerStep
  <2>1. CASE BrokerReceives(Head(toBroker)) BY <1>5, <2>1, BrokerReceivesOrder
  <2>2. CASE BrokerIsAnswered(Head(toBroker)) BY <1>5, <2>2, QuietOrder
  <2> QED BY <1>5, <2>1, <2>2 DEF BrokerStep
<1>6. CASE HandlePublishAck
  <2>1. CASE Head(toClient).type = "PubRel" BY <1>6, <2>1, IncomingOrder
  <2>2. CASE Head(toClient).type \in Answers
    <3>1. PICK i : i = Head(toClient).id OBVIOUS
    <3>2. i \in PacketIds BY <1>6, <3>1, HeadIs DEF Inv, HandlePublishAck
    <3>3. AnswerHandled(i) BY <1>6, <2>2, <3>1, AnswerHandledIs
    <3> QED BY <3>2, <3>3, AnswerOrder
  <2>3. Head(toClient).type \in AckTypes BY <1>6, HeadIs DEF Inv, HandlePublishAck
  <2> QED BY <2>1, <2>2, <2>3 DEF AckTypes, Answers
<1>7. CASE HandlePublish BY <1>7, IncomingOrder
<1>8. CASE UNCHANGED vars BY <1>8, QuietOrder
<1>9. ~ \E id \in PacketIds : Cancel(id) BY DEF Undisturbed, Cancel
<1> QED
  BY <1>1, <1>2, <1>3, <1>4, <1>5, <1>6, <1>7, <1>8, <1>9, ConnectOrder DEF Next

\* Publishes reach the broker's subscribers in the order they were made,
\* whatever is lost and resent in between: none has been forwarded while an
\* earlier one that may still be resent has not (state.rs 15-26, 316-361).  The
\* exception is a publish whose own call answered an error and left the
\* connection up, the store having refused it or the send timed out (client.rs
\* 759-764, 854-859): what is published next overtakes it.  It takes a store:
\* without one the application resends, and may publish something else first.
THEOREM OrderKept ==
  ASSUME Undisturbed, HasStore
  PROVE  Spec => []ForwardedInOrder
<1>1. Init => Inv /\ OutInv /\ OrderInv
  <2>1. Init => OrderInv
    <3> SUFFICES ASSUME Init PROVE OrderInv
      OBVIOUS
    <3>1. Occupied(outgoing) = {} BY DEF Init, Occupied, Empty, Record
    <3>2. IdsIn(outgoing) = {} BY <3>1 DEF IdsIn
    <3> QED BY <3>2 DEF OrderInv, PairFits, OnItsWay, Resendable
  <2> QED BY <2>1, InitInv, InitOut
<1>2. Inv /\ OutInv /\ OrderInv /\ [Next]_vars => (Inv /\ OutInv /\ OrderInv)'
  BY NextInv, NextOut, NextOrder
<1>3. Inv /\ OrderInv => ForwardedInOrder
  <2> SUFFICES ASSUME Inv, OrderInv,
                      NEW i \in InState(outgoing, PublishToResendStates),
                      NEW j \in InState(outgoing, PublishToResendStates),
                      i < j, onward[outgoing[j].packet_id] > 0,
                      outgoing[i].packet_id \notin late
               PROVE  onward[outgoing[i].packet_id] > 0
    BY DEF ForwardedInOrder
  <2> DEFINE x == outgoing[i].packet_id
             y == outgoing[j].packet_id
  <2>1. \A k \in InState(outgoing, PublishToResendStates) :
          /\ k \in Occupied(outgoing) /\ outgoing[k].packet_id \in PacketIds
          /\ Resendable(outgoing, outgoing[k].packet_id)
    <3> TAKE k \in InState(outgoing, PublishToResendStates)
    <3>1. k \in DOMAIN outgoing /\ outgoing[k].state \in PublishToResendStates BY DEF InState
    <3>2. outgoing[k] # Empty BY <3>1, StateSets DEF Empty, Record
    <3>3. outgoing[k].packet_id \in PacketIds
      BY <3>1, <3>2 DEF Inv, GoodOut, Good, WellFormed
    <3>4. k \in Occupied(outgoing) BY <3>1, <3>3, InvalidAssumption DEF Occupied
    <3>5. /\ outgoing[k].packet_id \in IdsIn(outgoing)
          /\ RecordOf(outgoing, outgoing[k].packet_id) = outgoing[k]
      BY <3>4, ById, SessionAssumption DEF Inv, GoodOut
    <3> QED BY <3>1, <3>3, <3>4, <3>5 DEF Resendable
  <2>2. InOrder(outgoing, x, y) BY <2>1 DEF InOrder
  <2>3. PairFits(x, y) BY <2>1 DEF OrderInv
  <2> QED BY <2>1, <2>2, <2>3 DEF PairFits
<1> QED BY <1>1, <1>2, <1>3, PTL DEF Spec
=============================================================================
