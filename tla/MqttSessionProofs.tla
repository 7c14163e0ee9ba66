------------------------- MODULE MqttSessionProofs -------------------------
(***************************************************************************)
(* The type invariant of MqttSession, for every array size, every set of   *)
(* packet ids, every Receive Maximum, any number of packets on the wire    *)
(* and any surroundings; and the lemmas about wires, resumptions and       *)
(* acknowledgements that MqttSessionHandshakes and MqttSessionStore use.   *)
(***************************************************************************)
EXTENDS MqttSession, PublishStateProofs, SequenceTheorems

---------------------------------------------------------------------------
(* What is on a wire. *)

\* A sequence by its length and its elements.
LEMMA Elements ==
  ASSUME NEW S, NEW s \in Seq(S)
  PROVE  /\ Len(s) \in Nat /\ DOMAIN s = 1..Len(s)
         /\ \A k \in 1..Len(s) : s[k] \in S
BY ElementOfSeq, LenProperties

\* A sequence may be given by a function on 1..n.
LEMMA SequenceOf ==
  ASSUME NEW S, NEW n \in Nat, NEW f, f \in [1..n -> S]
  PROVE  f \in Seq(S) /\ Len(f) = n
OBVIOUS

\* Taking the first element.
LEMMA TailOf ==
  ASSUME NEW S, NEW s \in Seq(S), s # <<>>
  PROVE  /\ Head(s) \in S /\ Head(s) = s[1] /\ Len(s) >= 1
         /\ Tail(s) \in Seq(S) /\ Len(Tail(s)) = Len(s) - 1
         /\ \A k \in 1..Len(Tail(s)) : Tail(s)[k] = s[k+1]
BY HeadTailProperties

\* Adding one at the end.
LEMMA AppendOf ==
  ASSUME NEW S, NEW s \in Seq(S), NEW e \in S
  PROVE  /\ Append(s, e) \in Seq(S) /\ Len(Append(s, e)) = Len(s) + 1
         /\ \A k \in 1..Len(s) : Append(s, e)[k] = s[k]
         /\ Append(s, e)[Len(s) + 1] = e
BY AppendProperties

\* Sending is appending, if the connection is up.
LEMMA OnWireOf ==
  ASSUME NEW p \in Packets, toBroker \in Seq(Packets)
  PROVE  /\ OnWire(<<p>>) = IF linkUp THEN Append(toBroker, p) ELSE toBroker
         /\ OnWire(<<>>) = toBroker
<1>1. toBroker \o <<p>> = Append(toBroker, p) /\ toBroker \o <<>> = toBroker
  OBVIOUS
<1> QED BY <1>1 DEF OnWire

\* Two sequences, one after the other.
LEMMA ConcatOf ==
  ASSUME NEW S, NEW s \in Seq(S), NEW t \in Seq(S)
  PROVE  /\ s \o t \in Seq(S) /\ Len(s \o t) = Len(s) + Len(t)
         /\ \A k \in 1..Len(s) : (s \o t)[k] = s[k]
         /\ \A k \in 1..Len(t) : (s \o t)[Len(s) + k] = t[k]
<1>1. /\ s \o t \in Seq(S) /\ Len(s \o t) = Len(s) + Len(t)
      /\ \A i \in 1..Len(s)+Len(t) : (s \o t)[i] = IF i <= Len(s) THEN s[i] ELSE t[i - Len(s)]
  BY ConcatProperties
<1>2. Len(s) \in Nat /\ Len(t) \in Nat OBVIOUS
<1> QED BY <1>1, <1>2

\* The first n elements.
LEMMA PrefixOf ==
  ASSUME NEW S, NEW s, NEW n \in Nat, \A k \in 1..n : s[k] \in S
  PROVE  /\ SubSeq(s, 1, n) \in Seq(S) /\ Len(SubSeq(s, 1, n)) = n
         /\ \A k \in 1..n : SubSeq(s, 1, n)[k] = s[k]
OBVIOUS

\* Taking one element out.
LEMMA RemoveOf ==
  ASSUME NEW S, NEW s \in Seq(S), NEW i \in 1..Len(s)
  PROVE  /\ RemoveAt(s, i) \in Seq(S) /\ Len(RemoveAt(s, i)) = Len(s) - 1
         /\ \A k \in 1..Len(s)-1 : RemoveAt(s, i)[k] = IF k < i THEN s[k] ELSE s[k+1]
<1> DEFINE u == SubSeq(s, 1, i-1)
           v == SubSeq(s, i+1, Len(s))
<1>1. Len(s) \in Nat /\ i \in Nat /\ \A k \in 1..Len(s) : s[k] \in S BY Elements
<1>2. /\ u \in Seq(S) /\ Len(u) = i - 1
      /\ \A k \in 1..i-1 : u[k] = s[k]
  BY <1>1
<1>3. /\ v \in Seq(S) /\ Len(v) = Len(s) - i
      /\ \A k \in 1..Len(s)-i : v[k] = s[i+k]
  BY <1>1
<1> HIDE DEF u, v
<1>4. /\ u \o v \in Seq(S) /\ Len(u \o v) = Len(u) + Len(v)
      /\ \A k \in 1..Len(u)+Len(v) : (u \o v)[k] = IF k <= Len(u) THEN u[k] ELSE v[k - Len(u)]
  BY <1>2, <1>3, ConcatProperties
<1>5. Len(u \o v) = Len(s) - 1 BY <1>1, <1>2, <1>3, <1>4
<1>6. ASSUME NEW k \in 1..Len(s)-1
      PROVE  (u \o v)[k] = IF k < i THEN s[k] ELSE s[k+1]
  <2>1. CASE k < i BY <1>1, <1>2, <1>3, <1>4, <2>1
  <2>2. CASE ~ (k < i)
    <3>1. k - Len(u) \in 1..Len(s)-i /\ i + (k - Len(u)) = k + 1 BY <1>1, <1>2, <2>2
    <3>2. (u \o v)[k] = v[k - Len(u)] BY <1>1, <1>2, <1>3, <1>4, <2>2
    <3> QED BY <1>3, <2>2, <3>1, <3>2
  <2> QED BY <2>1, <2>2
<1>7. RemoveAt(s, i) = u \o v BY DEF RemoveAt, u, v
<1> QED BY <1>4, <1>5, <1>6, <1>7

---------------------------------------------------------------------------
(* What a resumed session owes. *)

\* The resend cursor's answers: the ids of the records in the wanted states,
\* each once, in the order of the array.
LEMMA OwedIs ==
  ASSUME NEW max \in Nat, NEW states, NEW a, Good(a, max, states),
         NEW wanted, "Null" \notin wanted
  PROVE  LET s == Owed(a, wanted)
         IN  /\ s \in Seq(PacketIds)
             /\ \A k \in 1..Len(s) : s[k] \in IdsIn(a) /\ RecordOf(a, s[k]).state \in wanted
             /\ \A id \in IdsIn(a) :
                  RecordOf(a, id).state \in wanted => \E k \in 1..Len(s) : s[k] = id
             /\ \A k, l \in 1..Len(s) : k < l => InOrder(a, s[k], s[l])
             /\ \A k, l \in 1..Len(s) : s[k] = s[l] => k = l
<1> DEFINE S == InState(a, wanted)
           n == Cardinality(S)
           s == Owed(a, wanted)
<1>0. PICK m \in 0..max : a \in [1..m -> Slots] BY DEF Good, IsArray
<1>1. S \in SUBSET Nat /\ IsFiniteSet(S)
  <2>1. IsFiniteSet(1..m) BY FS_Interval
  <2>2. S \in SUBSET (1..m) BY <1>0 DEF InState
  <2> QED BY <2>1, <2>2, FS_Subset
<1>2. /\ n \in Nat
      /\ \A k \in 1..n : Nth(S, k) \in S
      /\ \A i \in S : \E k \in 1..n : Nth(S, k) = i
      /\ \A k, l \in 1..n : k < l => Nth(S, k) < Nth(S, l)
  BY <1>1, Enumeration
<1>3. s = [k \in 1..n |-> a[Nth(S, k)].packet_id]
  BY DEF Owed, Nth, NotAbove
<1>4. ASSUME NEW i \in S
      PROVE  i \in Occupied(a) /\ a[i].packet_id \in PacketIds /\ a[i].state \in wanted
  <2>1. i \in DOMAIN a /\ a[i].state \in wanted BY DEF InState
  <2>2. a[i] # Empty BY <2>1 DEF Empty, Record
  <2>3. a[i].packet_id \in PacketIds BY <2>1, <2>2 DEF Good, WellFormed
  <2> QED BY <2>1, <2>3, InvalidAssumption DEF Occupied
<1> HIDE DEF n, s, S
<1>5. s \in Seq(PacketIds) /\ Len(s) = n /\ \A k \in 1..n : s[k] = a[Nth(S, k)].packet_id
  <2>1. \A k \in 1..n : a[Nth(S, k)].packet_id \in PacketIds BY <1>2, <1>4
  <2>2. s \in [1..n -> PacketIds] BY <1>3, <2>1
  <2>3. s \in Seq(PacketIds) /\ Len(s) = n BY <1>2, <2>2, SequenceOf
  <2> QED BY <1>3, <2>3
<1>6. ASSUME NEW k \in 1..n
      PROVE  s[k] \in IdsIn(a) /\ RecordOf(a, s[k]).state \in wanted
  <2>1. Nth(S, k) \in S BY <1>2
  <2>2. Nth(S, k) \in Occupied(a) /\ a[Nth(S, k)].state \in wanted BY <1>4, <2>1
  <2>3. RecordOf(a, a[Nth(S, k)].packet_id) = a[Nth(S, k)] /\ a[Nth(S, k)].packet_id \in IdsIn(a)
    BY <2>2, ById
  <2> QED BY <1>5, <2>2, <2>3
<1>7. ASSUME NEW id \in IdsIn(a), RecordOf(a, id).state \in wanted
      PROVE  \E k \in 1..n : s[k] = id
  <2> DEFINE i == FindInRecord(a, id)
  <2>1. i \in Occupied(a) /\ RecordOf(a, id) = a[i] /\ RecordOf(a, id).packet_id = id BY ById
  <2>2. i \in S BY <1>7, <2>1 DEF S, InState, Occupied
  <2> QED BY <1>2, <1>5, <2>1, <2>2
<1>8. ASSUME NEW k \in 1..n, NEW l \in 1..n, k < l
      PROVE  InOrder(a, s[k], s[l])
  <2>1. Nth(S, k) \in S /\ Nth(S, l) \in S /\ Nth(S, k) < Nth(S, l) BY <1>2, <1>8
  <2>2. Nth(S, k) \in Occupied(a) /\ Nth(S, l) \in Occupied(a) BY <1>4, <2>1
  <2> QED BY <1>5, <2>1, <2>2 DEF InOrder
<1>9. ASSUME NEW k \in 1..n, NEW l \in 1..n, s[k] = s[l]
      PROVE  k = l
  <2>1. Nth(S, k) \in S /\ Nth(S, l) \in S BY <1>2
  <2>2. Nth(S, k) \in Occupied(a) /\ Nth(S, l) \in Occupied(a) BY <1>4, <2>1
  <2>3. Nth(S, k) = Nth(S, l) BY <1>5, <1>9, <2>2 DEF Good, UniqueIds
  <2>4. Nth(S, k) \in Nat BY <1>1, <2>1
  <2>5. ~ (k < l) /\ ~ (l < k) BY <1>2, <2>3, <2>4
  <2>6. k \in Nat /\ l \in Nat BY <1>2
  <2> QED BY <2>5, <2>6
<1> QED BY <1>5, <1>6, <1>7, <1>8, <1>9 DEF s

\* Without a store the PUBRELs that went out are noted on their records.
LEMMA ReleasedIs ==
  ASSUME NEW max \in Nat, NEW a, Good(a, max, OutgoingStates), NEW ids \in Seq(PacketIds),
         \A k \in 1..Len(ids) :
           ids[k] \in IdsIn(a) /\ RecordOf(a, ids[k]).state \in PubRelToResendStates
  PROVE  LET b == Released(a, ids)
         IN  /\ Good(b, max, OutgoingStates) /\ DOMAIN b = DOMAIN a
             /\ IdsIn(b) = IdsIn(a) /\ Before(b) = Before(a)
             /\ \A x \in IdsIn(a) :
                  RecordOf(b, x) = IF x \in Range(ids)
                                   THEN [RecordOf(a, x) EXCEPT !.state = "PubCompPending"]
                                   ELSE RecordOf(a, x)
<1> DEFINE b == Released(a, ids)
<1>0. PICK n \in 0..max : a \in [1..n -> Slots] BY DEF Good, IsArray
<1>1. Range(ids) \subseteq IdsIn(a) /\ Range(ids) \subseteq PacketIds
      /\ \A x \in Range(ids) : RecordOf(a, x).state \in PubRelToResendStates
  BY Elements DEF Range
<1>2. /\ DOMAIN b = 1..n
      /\ \A i \in 1..n : b[i] = IF a[i].packet_id \in Range(ids)
                                THEN [a[i] EXCEPT !.state = "PubCompPending"] ELSE a[i]
  BY <1>0 DEF Released
<1> HIDE DEF b
<1>3. \A i \in 1..n : b[i] \in Slots /\ b[i].packet_id = a[i].packet_id /\ b[i].qos = a[i].qos
  BY <1>0, <1>2 DEF Slots, PublishStates
<1>4. Occupied(b) = Occupied(a) BY <1>0, <1>2, <1>3 DEF Occupied
<1>5. IdsIn(b) = IdsIn(a) BY <1>0, <1>3, <1>4 DEF IdsIn, Occupied
<1>6. \A x, y : InOrder(a, x, y) <=> InOrder(b, x, y)
  BY <1>0, <1>3, <1>4 DEF InOrder, Occupied
<1>7. ASSUME NEW x \in IdsIn(a) PROVE FindInRecord(b, x) = FindInRecord(a, x)
  <2>1. {i \in DOMAIN b : b[i].packet_id = x} = {i \in DOMAIN a : a[i].packet_id = x}
    BY <1>0, <1>2, <1>3
  <2> QED BY <2>1 DEF FindInRecord
<1>8. ASSUME NEW x \in IdsIn(a)
      PROVE  RecordOf(b, x) = IF x \in Range(ids)
                              THEN [RecordOf(a, x) EXCEPT !.state = "PubCompPending"]
                              ELSE RecordOf(a, x)
  <2>1. /\ FindInRecord(a, x) \in Occupied(a) /\ RecordOf(a, x) = a[FindInRecord(a, x)]
        /\ RecordOf(a, x).packet_id = x
    BY ById
  <2>2. RecordOf(b, x) = b[FindInRecord(a, x)] BY <1>7 DEF RecordOf
  <2>3. FindInRecord(a, x) \in 1..n BY <1>0, <2>1 DEF Occupied
  <2> QED BY <1>2, <2>1, <2>2, <2>3
<1>9. WellFormed(b, OutgoingStates)
  <2> SUFFICES ASSUME NEW i \in 1..n, b[i] # Empty
               PROVE  b[i].packet_id \in PacketIds /\ b[i].state \in OutgoingStates[b[i].qos]
    BY <1>2 DEF WellFormed
  <2>1. CASE a[i].packet_id \in Range(ids)
    <3>1. a[i].packet_id \in PacketIds BY <1>1, <2>1
    <3>2. i \in Occupied(a) BY <1>0, <3>1, InvalidAssumption DEF Occupied
    <3>3. RecordOf(a, a[i].packet_id) = a[i] BY <3>2, ById
    <3>4. a[i].state \in PubRelToResendStates /\ a[i].state \in OutgoingStates[a[i].qos]
          /\ a[i].qos \in QoS
      BY <1>1, <2>1, <3>2, <3>3, RecordShape
    <3>5. a[i].qos = 2 BY <3>4 DEF OutgoingStates, PubRelToResendStates, QoS
    <3>6. b[i].state = "PubCompPending" BY <1>0, <1>2, <2>1 DEF Slots
    <3> QED BY <1>3, <3>1, <3>5, <3>6 DEF OutgoingStates, QoS
  <2>2. CASE a[i].packet_id \notin Range(ids)
    BY <1>0, <1>2, <2>2 DEF Good, WellFormed
  <2> QED BY <2>1, <2>2
<1>10. UniqueIds(b)
  BY <1>0, <1>3, <1>4 DEF Good, UniqueIds, Occupied
<1>11. IsArray(b, max)
  <2>1. b \in [1..n -> Slots]
    <3>1. b = [i \in 1..n |-> b[i]] BY <1>0 DEF b, Released
    <3> QED BY <1>3, <3>1
  <2> QED BY <2>1 DEF IsArray
<1>12. Before(b) = Before(a) BY <1>6, SameOrder
<1> QED BY <1>0, <1>2, <1>5, <1>8, <1>9, <1>10, <1>11, <1>12 DEF Good, b

---------------------------------------------------------------------------
(* The invariant behind the type invariant: both arrays are well formed,   *)
(* and the rest has its type.                                              *)

GoodOut(a) == Good(a, OutSlots, OutgoingStates)
GoodIn(a)  == Good(a, InSlots, IncomingStates)

Links == linkUp \in BOOLEAN /\ toBroker \in Seq(Packets) /\ toClient \in Seq(Packets)

Kept ==
  /\ keptPublish \subseteq PacketIds /\ owed \subseteq PacketIds /\ late \subseteq PacketIds
  /\ keptAck \in [PacketIds -> {"None", "PubRec", "PubRel"}]

Peers ==
  /\ brokerIn \subseteq PacketIds
  /\ brokerOut \in Seq([id : PacketIds, qos : {1, 2}, phase : {"Publish", "PubRel"}])
  /\ onward \in [PacketIds -> 0..2] /\ told \in [PacketIds -> 0..2]

Control ==
  /\ status \in {"NotConnected", "Connected", "DisconnectPending"}
  /\ faults \in 0..MaxFaults

Inv == GoodOut(outgoing) /\ GoodIn(incoming) /\ Links /\ Kept /\ Peers /\ Control

\* It is the type invariant and what the handshakes need of the arrays.
LEMMA InvIs == Inv => TypeOK
BY DEF Inv, TypeOK, GoodOut, GoodIn, Good, Links, Kept, Peers, Control

\* The sets of states are sets of states of records.
LEMMA StateSets ==
  /\ "Null" \notin PublishToResendStates /\ "Null" \notin PubRelToResendStates
  /\ \A q \in QoS : \A s \in OutgoingStates[q] :
       q \in {1, 2} /\ (s \in PublishToResendStates \/ s \in PubRelToResendStates)
  /\ \A s \in PublishToResendStates : s \notin PubRelToResendStates
BY DEF PublishToResendStates, PubRelToResendStates, OutgoingStates, QoS

\* A record of a publish is in one of the states of its QoS.
LEMMA OutRecord ==
  ASSUME NEW a, GoodOut(a), NEW id \in IdsIn(a)
  PROVE  LET r == RecordOf(a, id)
         IN  /\ r.packet_id = id /\ id \in PacketIds /\ r.qos \in {1, 2}
             /\ r \in Slots /\ r.state \in OutgoingStates[r.qos]
             /\ r = Record(id, r.qos, r.state)
             /\ r.state \in PublishToResendStates \/ r.state \in PubRelToResendStates
             /\ r.state \in PubRelToResendStates => r.qos = 2
<1>1. /\ RecordOf(a, id).packet_id = id /\ id \in PacketIds /\ RecordOf(a, id) \in Slots
      /\ RecordOf(a, id).qos \in QoS
      /\ RecordOf(a, id).state \in OutgoingStates[RecordOf(a, id).qos]
  BY SessionAssumption, ById DEF GoodOut
<1> QED BY <1>1, StateSets DEF OutgoingStates, PubRelToResendStates, QoS, Record, Slots

\* Counting stops at two.
LEMMA OnceIs ==
  ASSUME NEW c \in [PacketIds -> 0..2], NEW id \in PacketIds
  PROVE  /\ Once(c, id) \in [PacketIds -> 0..2] /\ Once(c, id)[id] > 0
         /\ c[id] = 0 => Once(c, id)[id] = 1
         /\ \A x \in PacketIds : x # id => Once(c, id)[x] = c[x]
BY DEF Once

\* A fault is only had when one is left.
LEMMA FailIs ==
  ASSUME Control, NEW failed \in BOOLEAN, failed => CanFail, Fail(failed)
  PROVE  faults' \in 0..MaxFaults
BY SessionAssumption DEF Control, CanFail, Fail

\* What is sent is a packet.
LEMMA PacketIs ==
  /\ \A type \in AckTypes \cup {"Publish"}, id \in PacketIds, q \in QoS :
       Packet(type, id, q) \in Packets
  /\ \A p \in Packets : /\ p.type \in AckTypes \cup {"Publish"} /\ p.id \in PacketIds
                        /\ p.qos \in QoS /\ p = Packet(p.type, p.id, p.qos)
BY DEF Packet, Packets

---------------------------------------------------------------------------
(* The parts of a step that several actions share. *)

\* What the store holds once an acknowledgement is kept.
KeptAs(acks, id, ack) ==
  IF HasStore /\ ack \in {"PubRec", "PubRel"} THEN [acks EXCEPT ![id] = ack] ELSE acks

\* Sending an acknowledgement: done, or refused by the connection's state or
\* the store, or failed on the wire, or timed out.
AckDone(o, records, acks, id, ack) ==
  LET noted == UpdateAckIn(records, id, ack, "Send")
  IN  /\ status = "Connected"
      /\ o.records = noted.records /\ o.acks = KeptAs(acks, id, ack) /\ o.status = status
      /\ o.sent = <<Packet(ack, id, 0)>> /\ o.done = (noted.status = "Ok")
      /\ o.failed = FALSE

AckNotDone(o, records, acks, id, ack) ==
  /\ o.records = records /\ o.sent = <<>> /\ o.done = FALSE
  /\ \/ status # "Connected" /\ o.acks = acks /\ o.status = status /\ o.failed = FALSE
     \/ /\ status = "Connected" /\ HasStore /\ May("StoreRefuses")
        /\ o.acks = acks /\ o.status = status /\ o.failed = FALSE
     \/ /\ status = "Connected" /\ CanFail
        /\ o.acks = KeptAs(acks, id, ack) /\ o.failed = TRUE
        /\ \/ May("SendFails") /\ o.status = "DisconnectPending"
           \/ May("SendTimesOut") /\ o.status = status

\* There is no third way.
LEMMA AckOutcomeCases ==
  ASSUME NEW records, NEW acks, NEW id, NEW ack, NEW o \in AckOutcomes(records, acks, id, ack)
  PROVE  AckDone(o, records, acks, id, ack) \/ AckNotDone(o, records, acks, id, ack)
BY DEF AckOutcomes, AckDone, AckNotDone, KeptAs

\* So the rest of the step keeps the types, whatever came of it.
LEMMA AnsweredKeeps ==
  ASSUME Inv, NEW records, NEW acks \in [PacketIds -> {"None", "PubRec", "PubRel"}],
         NEW id \in PacketIds, NEW ack \in AckTypes,
         NEW o \in AckOutcomes(records, acks, id, ack), Answered(o), UNCHANGED linkUp,
         toClient # <<>>
  PROVE  /\ o.records \in {records, UpdateAckIn(records, id, ack, "Send").records}
         /\ keptAck' \in [PacketIds -> {"None", "PubRec", "PubRel"}]
         /\ Links' /\ Control'
<1>1. Packet(ack, id, 0) \in Packets BY PacketIs DEF QoS
<1>2. /\ OnWire(<<Packet(ack, id, 0)>>) \in Seq(Packets) /\ OnWire(<<>>) \in Seq(Packets)
  BY <1>1, OnWireOf, AppendOf DEF Inv, Links
<1>3. Tail(toClient) \in Seq(Packets) BY TailOf DEF Inv, Links
<1> DEFINE kept == KeptAs(acks, id, ack)
<1>4. kept \in [PacketIds -> {"None", "PubRec", "PubRel"}] BY DEF KeptAs
<1>5. /\ o.records \in {records, UpdateAckIn(records, id, ack, "Send").records}
      /\ o.acks \in {acks, kept} /\ o.status \in {status, "DisconnectPending"}
      /\ o.sent \in {<<Packet(ack, id, 0)>>, <<>>} /\ o.failed \in BOOLEAN
      /\ o.failed => CanFail
  <2>1. AckDone(o, records, acks, id, ack) \/ AckNotDone(o, records, acks, id, ack)
    BY AckOutcomeCases
  <2> QED BY <2>1 DEF AckDone, AckNotDone
<1> HIDE DEF kept
<1>6. faults' \in 0..MaxFaults BY <1>5, FailIs DEF Inv, Answered
<1> QED BY <1>2, <1>3, <1>4, <1>5, <1>6 DEF Inv, Links, Control, Answered

\* The two parts of what a resumed session sends, and a packet of each.
Rels(a) == Owed(a, PubRelToResendStates)
Pubs(a) == IF HasStore THEN Owed(a, PublishToResendStates) ELSE <<>>
RelPacket(id)    == Packet(IF HasStore THEN keptAck[id] ELSE "PubRel", id, 0)
PubPacket(a, id) == Packet("Publish", id, RecordOf(a, id).qos)

\* A resumption that sends the first n of them.
Resent(a, n) ==
  /\ toBroker' \in Seq(Packets) /\ Len(toBroker') = n
  /\ \A k \in 1..n : k <= Len(Rels(a)) =>
       /\ toBroker'[k] = RelPacket(Rels(a)[k])
       /\ HasStore => keptAck[Rels(a)[k]] # "None"
  /\ \A k \in 1..n : k > Len(Rels(a)) =>
       /\ toBroker'[k] = PubPacket(a, Pubs(a)[k - Len(Rels(a))])
       /\ Pubs(a)[k - Len(Rels(a))] \in keptPublish

\* All of them go out, or as many as the store and the connection allow.
LEMMA ResumptionIs ==
  ASSUME NEW a, GoodOut(a), Kept, Resumption(a)
  PROVE  \E n \in 0..Len(Rels(a)) + Len(Pubs(a)) :
           /\ Resent(a, n)
           /\ outgoing' = IF HasStore THEN a ELSE Released(a, SubSeq(Rels(a), 1, n))
           /\ status' = IF n = Len(Rels(a)) + Len(Pubs(a)) THEN "Connected"
                        ELSE "DisconnectPending"
           /\ \E failed \in BOOLEAN : Fail(failed) /\ (failed => CanFail)
<1> DEFINE rels == Rels(a)
           pubs == Pubs(a)
           S    == [type : AckTypes \cup {"Publish", "None"}, id : PacketIds, qos : QoS]
           first == [k \in DOMAIN rels |-> RelPacket(rels[k])]
           second == [k \in DOMAIN pubs |-> PubPacket(a, pubs[k])]
           plan == first \o second
           missing == {k \in DOMAIN plan :
                         \/ plan[k].type = "None"
                         \/ plan[k].type = "Publish" /\ plan[k].id \notin keptPublish}
           reach == IF missing = {} THEN Len(plan) ELSE Min(missing) - 1
<1>1. /\ rels \in Seq(PacketIds)
      /\ \A k \in 1..Len(rels) : rels[k] \in IdsIn(a)
  BY OwedIs, StateSets, SessionAssumption DEF GoodOut, Rels
<1>2. /\ pubs \in Seq(PacketIds)
      /\ \A k \in 1..Len(pubs) : pubs[k] \in IdsIn(a)
  BY OwedIs, StateSets, SessionAssumption DEF GoodOut, Pubs
<1> HIDE DEF rels, pubs, first, second, S
<1>3. first \in Seq(S) /\ Len(first) = Len(rels)
      /\ \A k \in 1..Len(rels) : first[k] = RelPacket(rels[k])
  <2>1. Len(rels) \in Nat /\ DOMAIN rels = 1..Len(rels) /\ \A k \in 1..Len(rels) : rels[k] \in PacketIds
    BY <1>1, Elements
  <2>2. \A k \in 1..Len(rels) : RelPacket(rels[k]) \in S
    BY <2>1 DEF RelPacket, Packet, S, Kept, AckTypes, QoS
  <2>3. first \in [1..Len(rels) -> S] BY <2>1, <2>2 DEF first
  <2>4. first \in Seq(S) /\ Len(first) = Len(rels) BY <2>1, <2>3, SequenceOf
  <2> QED BY <2>1, <2>4 DEF first
<1>4. second \in Seq(S) /\ Len(second) = Len(pubs)
      /\ \A k \in 1..Len(pubs) : second[k] = PubPacket(a, pubs[k])
  <2>1. Len(pubs) \in Nat /\ DOMAIN pubs = 1..Len(pubs) /\ \A k \in 1..Len(pubs) : pubs[k] \in PacketIds
    BY <1>2, Elements
  <2>2. \A k \in 1..Len(pubs) : PubPacket(a, pubs[k]) \in S
    <3>1. \A k \in 1..Len(pubs) : RecordOf(a, pubs[k]).qos \in QoS
      BY <1>2, OutRecord DEF QoS
    <3> QED BY <2>1, <3>1 DEF PubPacket, Packet, S
  <2>3. second \in [1..Len(pubs) -> S] BY <2>1, <2>2 DEF second
  <2>4. second \in Seq(S) /\ Len(second) = Len(pubs) BY <2>1, <2>3, SequenceOf
  <2> QED BY <2>1, <2>4 DEF second
<1>5. /\ plan \in Seq(S) /\ Len(plan) = Len(rels) + Len(pubs) /\ DOMAIN plan = 1..Len(plan)
      /\ \A k \in 1..Len(rels) : plan[k] = first[k]
      /\ \A k \in 1..Len(pubs) : plan[Len(rels) + k] = second[k]
      /\ \A k \in 1..Len(plan) : plan[k] \in S
      /\ Len(rels) \in Nat /\ Len(pubs) \in Nat
  <2>1. /\ plan \in Seq(S) /\ Len(plan) = Len(first) + Len(second)
        /\ \A k \in 1..Len(first) : plan[k] = first[k]
        /\ \A k \in 1..Len(second) : plan[Len(first) + k] = second[k]
    <3>1. first \in Seq(S) /\ second \in Seq(S) BY <1>3, <1>4
    <3> HIDE DEF plan
    <3>2. /\ first \o second \in Seq(S) /\ Len(first \o second) = Len(first) + Len(second)
          /\ \A k \in 1..Len(first) : (first \o second)[k] = first[k]
          /\ \A k \in 1..Len(second) : (first \o second)[Len(first) + k] = second[k]
      BY <3>1, ConcatOf
    <3> QED BY <3>2 DEF plan
  <2>2. DOMAIN plan = 1..Len(plan) /\ \A k \in 1..Len(plan) : plan[k] \in S BY <2>1, Elements
  <2>3. Len(rels) \in Nat /\ Len(pubs) \in Nat BY <1>1, <1>2
  <2> QED BY <1>3, <1>4, <2>1, <2>2, <2>3
<1>6. PICK n \in 0..reach :
        /\ n < reach => CanFail /\ (May("SendFails") \/ May("SendTimesOut"))
        /\ Fail(n < reach)
        /\ toBroker' = SubSeq(plan, 1, n)
        /\ status' = IF n = Len(plan) THEN "Connected" ELSE "DisconnectPending"
        /\ outgoing' = IF HasStore THEN a ELSE Released(a, SubSeq(rels, 1, n))
  BY DEF Resumption, plan, first, second, missing, reach, rels, pubs, Rels, Pubs, RelPacket, PubPacket
<1> HIDE DEF plan
<1>7. reach \in 0..Len(plan) /\ \A k \in 1..reach : k \notin missing
  <2>1. CASE missing = {} BY <1>5, <2>1
  <2>2. CASE missing # {}
    <3>1. missing \in SUBSET Nat BY <1>5
    <3>2. FirstOf(missing) \in missing /\ \A j \in missing : FirstOf(missing) <= j
      BY <2>2, <3>1, FirstOfLeast
    <3>3. Min(missing) = FirstOf(missing) BY DEF Min, FirstOf
    <3>4. reach = FirstOf(missing) - 1 BY <2>2, <3>3
    <3>5. FirstOf(missing) \in 1..Len(plan) BY <1>5, <3>2
    <3> HIDE DEF missing, reach
    <3>6. ASSUME NEW k \in 1..reach PROVE k \notin missing
      BY <3>2, <3>4, <3>5
    <3> QED BY <1>5, <3>4, <3>5, <3>6
  <2> QED BY <2>1, <2>2
<1> HIDE DEF reach
<1>8. n \in 0..Len(plan) BY <1>5, <1>7
<1>9. ASSUME NEW k \in 1..n
      PROVE  /\ plan[k] \in S /\ plan[k].type # "None"
             /\ plan[k].type = "Publish" => plan[k].id \in keptPublish
  <2>1. k \in DOMAIN plan /\ k \notin missing BY <1>5, <1>7, <1>8
  <2> QED BY <1>5, <2>1
<1>10. \A k \in 1..n : plan[k] \in Packets BY <1>9 DEF S, Packets
<1>11. toBroker' \in Seq(Packets) /\ Len(toBroker') = n /\ \A k \in 1..n : toBroker'[k] = plan[k]
  BY <1>6, <1>8, <1>10, PrefixOf
<1>12. ASSUME NEW k \in 1..n, k <= Len(rels)
       PROVE  toBroker'[k] = RelPacket(rels[k]) /\ (HasStore => keptAck[rels[k]] # "None")
  <2>1. toBroker'[k] = RelPacket(rels[k]) BY <1>3, <1>5, <1>8, <1>11, <1>12
  <2> QED BY <1>9, <1>11, <2>1 DEF RelPacket, Packet
<1>13. ASSUME NEW k \in 1..n, k > Len(rels)
       PROVE  /\ toBroker'[k] = PubPacket(a, pubs[k - Len(rels)])
              /\ pubs[k - Len(rels)] \in keptPublish
  <2>1. k - Len(rels) \in 1..Len(pubs) /\ Len(rels) + (k - Len(rels)) = k BY <1>5, <1>8, <1>13
  <2>2. plan[k] = second[k - Len(rels)] BY <1>5, <2>1
  <2>3. toBroker'[k] = PubPacket(a, pubs[k - Len(rels)]) BY <1>4, <1>11, <2>1, <2>2
  <2> QED BY <1>9, <1>11, <2>3 DEF PubPacket, Packet
<1>14. Resent(a, n)
  BY <1>11, <1>12, <1>13 DEF Resent, rels, pubs
<1>15. \E failed \in BOOLEAN : Fail(failed) /\ (failed => CanFail)
  <2>1. (n < reach) \in BOOLEAN OBVIOUS
  <2> QED BY <1>6, <2>1
<1> QED BY <1>5, <1>6, <1>8, <1>14, <1>15 DEF rels, pubs

\* The broker repeats its half with packets.
LEMMA RepeatedIs ==
  ASSUME Peers, Links,
         toClient' = [k \in DOMAIN brokerOut |->
           Packet(brokerOut[k].phase, brokerOut[k].id,
                  IF brokerOut[k].phase = "PubRel" THEN 0 ELSE brokerOut[k].qos)]
  PROVE  toClient' \in Seq(Packets)
<1> DEFINE E == [id : PacketIds, qos : {1, 2}, phase : {"Publish", "PubRel"}]
<1>1. /\ Len(brokerOut) \in Nat /\ DOMAIN brokerOut = 1..Len(brokerOut)
      /\ \A k \in 1..Len(brokerOut) : brokerOut[k] \in E
  BY Elements DEF Peers
<1>2. \A e \in E : Packet(e.phase, e.id, IF e.phase = "PubRel" THEN 0 ELSE e.qos) \in Packets
  BY DEF Packet, Packets, AckTypes, QoS
<1>3. toClient' \in [1..Len(brokerOut) -> Packets] BY <1>1, <1>2
<1> QED BY <1>1, <1>3, SequenceOf

---------------------------------------------------------------------------
(* The invariant is kept by every action. *)

\* It holds before anything is called: arrays and wires are empty.
LEMMA InitInv == Init => Inv
<1> SUFFICES ASSUME Init PROVE Inv
  OBVIOUS
<1>1. ASSUME NEW n \in Nat, NEW a, a = [i \in 1..n |-> Empty], NEW states
      PROVE  Good(a, n, states)
  <2>1. a \in [1..n -> Slots] /\ \A i \in 1..n : a[i] = Empty BY <1>1, SlotTypes
  <2>2. Occupied(a) = {} BY <2>1 DEF Occupied, Empty, Record
  <2>3. n \in 0..n OBVIOUS
  <2> QED BY <2>1, <2>2, <2>3 DEF Good, IsArray, WellFormed, UniqueIds
<1>2. GoodOut(outgoing) /\ GoodIn(incoming)
  BY <1>1, SessionAssumption DEF Init, GoodOut, GoodIn
<1>3. Links
  <2>1. <<>> \in Seq(Packets) BY EmptySeq
  <2> QED BY <2>1 DEF Init, Links
<1>4. Kept BY DEF Init, Kept
<1>5. Peers
  <2>1. <<>> \in Seq([id : PacketIds, qos : {1, 2}, phase : {"Publish", "PubRel"}]) BY EmptySeq
  <2> QED BY <2>1 DEF Init, Peers
<1>6. Control BY SessionAssumption DEF Init, Control
<1> QED BY <1>2, <1>3, <1>4, <1>5, <1>6 DEF Inv

\* publish, new or repeated: the record is one of its QoS, what is stored and sent
\* names its id (client.rs publish).
LEMMA PublishInv ==
  ASSUME Inv, NEW id \in PacketIds, NEW q \in {1, 2}, NEW dup \in BOOLEAN, Publish(id, q, dup)
  PROVE  Inv'
<1> DEFINE reserved == ReserveState(outgoing, id, q)
<1>1. GoodOut(reserved.records) BY SessionAssumption, ReserveCases DEF Inv, GoodOut
<1> HIDE DEF reserved
<1>2. GoodOut(UpdatePublishSend(reserved.records, id, q).records)
  BY <1>1, SessionAssumption, UpdatePublishSendGood DEF GoodOut, AnyId, QoS
<1>3. OnWire(<<Packet("Publish", id, q)>>) \in Seq(Packets)
  <2>1. Packet("Publish", id, q) \in Packets BY PacketIs DEF QoS
  <2> QED BY <2>1, OnWireOf, AppendOf DEF Inv, Links
<1>4. /\ outgoing' \in {reserved.records, UpdatePublishSend(reserved.records, id, q).records}
      /\ toBroker' \in {toBroker, OnWire(<<Packet("Publish", id, q)>>)}
      /\ status' \in {status, "DisconnectPending"}
      /\ keptPublish' \subseteq keptPublish \cup {id} /\ keptAck' = keptAck
      /\ owed' \subseteq owed \cup {id} /\ late' \subseteq late \cup {id}
      /\ onward' \in {onward, [onward EXCEPT ![id] = 0]}
      /\ faults' = faults \/ (CanFail /\ Fail(TRUE))
      /\ UNCHANGED <<incoming, linkUp, toClient, broker, told>>
  <2>1. /\ outgoing' \in {reserved.records, UpdatePublishSend(reserved.records, id, q).records}
        /\ UNCHANGED <<incoming, linkUp, toClient, broker, told>>
    BY DEF Publish, reserved
  <2>2. /\ toBroker' \in {toBroker, OnWire(<<Packet("Publish", id, q)>>)}
        /\ status' \in {status, "DisconnectPending"}
    BY DEF Publish
  <2>3. /\ keptPublish' \subseteq keptPublish \cup {id} /\ keptAck' = keptAck
        /\ owed' \subseteq owed \cup {id} /\ late' \subseteq late \cup {id}
    BY DEF Publish, store
  <2>4. onward' \in {onward, [onward EXCEPT ![id] = 0]} BY DEF Publish
  <2>5. faults' = faults \/ (CanFail /\ Fail(TRUE))
    <3> HIDE DEF reserved
    <3> QED BY DEF Publish
  <2> QED BY <2>1, <2>2, <2>3, <2>4, <2>5
<1>5. faults' \in 0..MaxFaults BY <1>4, FailIs DEF Inv, Control
<1>6. GoodOut(outgoing') BY <1>1, <1>2, <1>4
<1>7. Links' BY <1>3, <1>4 DEF Inv, Links
<1>8. Kept' BY <1>4 DEF Inv, Kept
<1>9. Peers' BY <1>4 DEF Inv, Peers, broker
<1>10. Control' BY <1>4, <1>5 DEF Inv, Control
<1>11. GoodIn(incoming') BY <1>4 DEF Inv
<1> QED BY <1>6, <1>7, <1>8, <1>9, <1>10, <1>11 DEF Inv

\* What the application repeats is a publish.
LEMMA PublishAgainIs ==
  ASSUME Inv, PublishAgain
  PROVE  \E id \in PacketIds, q \in {1, 2} :
           /\ Publish(id, q, TRUE) /\ id \in owed /\ id \in IdsIn(outgoing)
           /\ RecordOf(outgoing, id).qos = q
           /\ \A y \in IdsIn(outgoing) : y \in owed => y = id \/ InOrder(outgoing, id, y)
<1>1. PICK i \in Occupied(outgoing) :
        /\ outgoing[i].packet_id \in owed
        /\ \A j \in Occupied(outgoing) : outgoing[j].packet_id \in owed => i <= j
        /\ Publish(outgoing[i].packet_id, outgoing[i].qos, TRUE)
  BY DEF PublishAgain
<1>2. /\ outgoing[i].packet_id \in IdsIn(outgoing)
      /\ RecordOf(outgoing, outgoing[i].packet_id) = outgoing[i]
  BY SessionAssumption, ById DEF Inv, GoodOut
<1>3. outgoing[i].packet_id \in PacketIds /\ outgoing[i].qos \in {1, 2}
  BY <1>2, OutRecord DEF Inv
<1>4. ASSUME NEW y \in IdsIn(outgoing), y \in owed
      PROVE  y = outgoing[i].packet_id \/ InOrder(outgoing, outgoing[i].packet_id, y)
  <2>1. PICK j \in Occupied(outgoing) : outgoing[j].packet_id = y BY DEF IdsIn
  <2>2. i <= j BY <1>1, <1>4, <2>1
  <2>3. i \in Nat /\ j \in Nat
    BY DEF Inv, GoodOut, Good, IsArray, Occupied
  <2>4. i = j \/ i < j BY <2>2, <2>3
  <2> QED BY <2>1, <2>4 DEF InOrder
<1> QED BY <1>1, <1>2, <1>3, <1>4

\* connect: a cut or zeroed array is an array, and what a resumption takes from
\* the store are packets.
LEMMA ConnectInv == Inv /\ Connect => Inv'
<1> SUFFICES ASSUME Inv, Connect PROVE Inv'
  OBVIOUS
<1>1. PICK m \in ReceiveMaxes :
        \/ CleanSession(CapTo(outgoing, m))
        \/ Resumption(CapTo(outgoing, m))
  BY DEF Connect
<1> DEFINE a == CapTo(outgoing, m)
<1>2. m \in Nat /\ GoodOut(a) BY SessionAssumption, CapGood DEF Inv, GoodOut
<1>3. GoodIn(CapTo(incoming, InQuota)) BY SessionAssumption, CapGood DEF Inv, GoodIn
<1> HIDE DEF a
<1>4. linkUp' = TRUE /\ UNCHANGED <<onward, told, late>> BY DEF Connect
<1>5. CASE CleanSession(a)
  <2>1. GoodOut(outgoing') /\ GoodIn(incoming')
    BY <1>2, <1>3, <1>5, SessionAssumption, ClearGood DEF CleanSession, GoodOut, GoodIn
  <2>2. faults' \in 0..MaxFaults BY <1>5, FailIs DEF Inv, CleanSession
  <2>3. Links' /\ Control' BY <1>4, <1>5, <2>2 DEF CleanSession, Links, Control
  <2>4. Kept' /\ Peers' BY <1>4, <1>5 DEF Inv, CleanSession, Kept, Peers
  <2> QED BY <2>1, <2>3, <2>4 DEF Inv
<1>6. CASE Resumption(a)
  <2>0. Kept BY DEF Inv
  <2>1. PICK n \in 0..Len(Rels(a)) + Len(Pubs(a)) :
           /\ Resent(a, n)
           /\ outgoing' = IF HasStore THEN a ELSE Released(a, SubSeq(Rels(a), 1, n))
           /\ status' = IF n = Len(Rels(a)) + Len(Pubs(a)) THEN "Connected"
                        ELSE "DisconnectPending"
           /\ \E failed \in BOOLEAN : Fail(failed) /\ (failed => CanFail)
    BY <1>2, <1>6, <2>0, ResumptionIs
  <2>2. faults' \in 0..MaxFaults BY <2>1, FailIs DEF Inv
  <2>3. /\ incoming' = CapTo(incoming, InQuota)
        /\ owed' = IF HasStore THEN {} ELSE Range(Owed(a, PublishToResendStates))
        /\ UNCHANGED <<store, broker>>
        /\ toClient' = [k \in DOMAIN brokerOut |->
             Packet(brokerOut[k].phase, brokerOut[k].id,
                    IF brokerOut[k].phase = "PubRel" THEN 0 ELSE brokerOut[k].qos)]
    BY <1>6 DEF Resumption
  <2>4. owed' \subseteq PacketIds
    <3>1. Owed(a, PublishToResendStates) \in Seq(PacketIds)
      BY <1>2, OwedIs, StateSets, SessionAssumption DEF GoodOut
    <3>2. Range(Owed(a, PublishToResendStates)) \subseteq PacketIds BY <3>1, Elements DEF Range
    <3> QED BY <2>3, <3>2
  <2>5. GoodOut(outgoing')
    <3>1. CASE HasStore BY <1>2, <2>1, <3>1
    <3>2. CASE ~ HasStore
      <4> DEFINE ids == SubSeq(Rels(a), 1, n)
      <4>1. /\ Rels(a) \in Seq(PacketIds)
            /\ \A k \in 1..Len(Rels(a)) :
                 Rels(a)[k] \in IdsIn(a) /\ RecordOf(a, Rels(a)[k]).state \in PubRelToResendStates
        BY <1>2, OwedIs, StateSets, SessionAssumption DEF GoodOut, Rels
      <4>2. n \in 0..Len(Rels(a)) /\ n \in Nat
        <5>1. Len(Pubs(a)) = 0 BY <3>2 DEF Pubs
        <5>2. Len(Rels(a)) \in Nat BY <4>1
        <5> QED BY <5>1, <5>2
      <4>3. \A k \in 1..n : Rels(a)[k] \in PacketIds BY <4>1, <4>2, Elements
      <4>4. ids \in Seq(PacketIds) /\ Len(ids) = n /\ \A k \in 1..n : ids[k] = Rels(a)[k]
        BY <4>2, <4>3, PrefixOf
      <4> HIDE DEF ids
      <4>5. \A k \in 1..Len(ids) :
              ids[k] \in IdsIn(a) /\ RecordOf(a, ids[k]).state \in PubRelToResendStates
        BY <4>1, <4>2, <4>4
      <4>6. GoodOut(Released(a, ids))
        BY <1>2, <4>4, <4>5, ReleasedIs, SessionAssumption DEF GoodOut
      <4> QED BY <2>1, <3>2, <4>6 DEF ids
    <3> QED BY <3>1, <3>2
  <2>6. toClient' \in Seq(Packets) BY <2>3, RepeatedIs DEF Inv
  <2>7. Links' BY <1>4, <2>1, <2>6 DEF Links, Resent
  <2>8. Control' BY <2>1, <2>2 DEF Control
  <2>9. Kept' /\ Peers' BY <1>4, <2>3, <2>4 DEF Inv, Kept, Peers, store, broker
  <2> QED BY <1>3, <2>3, <2>5, <2>7, <2>8, <2>9 DEF Inv
<1> QED BY <1>1, <1>5, <1>6 DEF a

\* The packet at the front of the buffer.
LEMMA HeadIs ==
  ASSUME Links, NEW types, Receiving(types)
  PROVE  /\ linkUp /\ toClient # <<>> /\ status # "NotConnected"
         /\ Head(toClient) \in Packets /\ Head(toClient).type \in types
         /\ Head(toClient).id \in PacketIds /\ Head(toClient).qos \in QoS
         /\ Tail(toClient) \in Seq(Packets)
<1>1. /\ linkUp /\ toClient # <<>> /\ Head(toClient).type \in types
      /\ status # "NotConnected"
  BY DEF Receiving
<1>2. Head(toClient) \in Packets /\ Tail(toClient) \in Seq(Packets) BY <1>1, TailOf DEF Links
<1> QED BY <1>1, <1>2, PacketIs

\* A PUBLISH that arrives, whatever becomes of it and of its acknowledgement.
LEMMA HandlePublishInv == Inv /\ HandlePublish => Inv'
<1> SUFFICES ASSUME Inv, HandlePublish PROVE Inv'
  OBVIOUS
<1> DEFINE p        == Head(toClient)
           received == UpdatePublishReceive(incoming, p.id, p.qos)
           ack      == IF p.qos = 1 THEN "PubAck" ELSE "PubRec"
<1>1. /\ toClient # <<>> /\ p.id \in PacketIds /\ p.qos \in QoS
  BY HeadIs DEF Inv, HandlePublish
<1> HIDE DEF p
<1>2. GoodIn(received.records)
  BY <1>1, UpdatePublishReceiveGood, SessionAssumption DEF Inv, GoodIn, AnyId
<1> HIDE DEF received
<1>3. /\ UNCHANGED <<outgoing, owed, linkUp, broker, onward, late, keptPublish>>
      /\ told' \in {told, Once(told, p.id)}
      /\ \/ /\ incoming' = received.records
            /\ UNCHANGED <<status, keptAck, toBroker, toClient, faults>>
         \/ \E o \in AckOutcomes(received.records, keptAck, p.id, ack) :
              incoming' = o.records /\ Answered(o)
  BY DEF HandlePublish, p, received, store
<1>4. ack \in AckTypes /\ ~ IsPublishOutgoing(ack, "Send")
  BY DEF AckTypes, IsPublishOutgoing
<1> HIDE DEF ack
<1>5. GoodIn(UpdateAckIn(received.records, p.id, ack, "Send").records)
  BY <1>1, <1>2, <1>4, UpdateAckInGood, SessionAssumption DEF GoodIn, AnyId, Operations
<1>6. told' \in [PacketIds -> 0..2] BY <1>1, <1>3, OnceIs DEF Inv, Peers
<1>7. Peers' BY <1>3, <1>6 DEF Inv, Peers, broker
<1>8. /\ GoodIn(incoming') /\ keptAck' \in [PacketIds -> {"None", "PubRec", "PubRel"}]
      /\ Links' /\ Control'
  <2>1. CASE /\ incoming' = received.records
             /\ UNCHANGED <<status, keptAck, toBroker, toClient, faults>>
    BY <1>2, <1>3, <2>1 DEF Inv, Links, Control, Kept
  <2>2. ASSUME NEW o \in AckOutcomes(received.records, keptAck, p.id, ack),
               incoming' = o.records, Answered(o)
        PROVE  /\ GoodIn(incoming') /\ keptAck' \in [PacketIds -> {"None", "PubRec", "PubRel"}]
               /\ Links' /\ Control'
    <3>1. keptAck \in [PacketIds -> {"None", "PubRec", "PubRel"}] BY DEF Inv, Kept
    <3>2. /\ o.records \in {received.records,
                            UpdateAckIn(received.records, p.id, ack, "Send").records}
          /\ keptAck' \in [PacketIds -> {"None", "PubRec", "PubRel"}]
          /\ Links' /\ Control'
      BY <1>1, <1>3, <1>4, <2>2, <3>1, AnsweredKeeps
    <3> QED BY <1>2, <1>5, <2>2, <3>2
  <2> QED BY <1>3, <2>1, <2>2
<1>9. Kept' BY <1>3, <1>8 DEF Inv, Kept
<1> QED BY <1>3, <1>7, <1>8, <1>9 DEF Inv

\* An acknowledgement that arrives: it changes one array, and may be answered.
LEMMA HandlePublishAckInv == Inv /\ HandlePublishAck => Inv'
<1> SUFFICES ASSUME Inv, HandlePublishAck PROVE Inv'
  OBVIOUS
<1> DEFINE p        == Head(toClient)
           out      == IsPublishOutgoing(p.type, "Receive")
           records  == IF out THEN outgoing ELSE incoming
           received == UpdateAckIn(records, p.id, p.type, "Receive")
           acks     == StillKeptAck(p.id, p.type)
           ack      == IF p.type = "PubRec" THEN "PubRel" ELSE "PubComp"
           GoodHere(a) == IF out THEN GoodOut(a) ELSE GoodIn(a)
<1>1. /\ toClient # <<>> /\ p.id \in PacketIds /\ p.type \in AckTypes
      /\ Tail(toClient) \in Seq(Packets)
  BY HeadIs DEF Inv, HandlePublishAck
<1>2. UNCHANGED <<owed, linkUp, broker, onward, told, late>> BY DEF HandlePublishAck
<1>3. \/ /\ Install(p.type, received.records)
         /\ UNCHANGED <<status, store, toBroker, toClient, faults>>
      \/ /\ keptPublish' = StillKeptPublish(p.id, p.type)
         /\ \/ /\ Install(p.type, received.records) /\ keptAck' = acks
               /\ toClient' \in {toClient, Tail(toClient)}
               /\ UNCHANGED <<status, toBroker, faults>>
            \/ /\ p.type \in {"PubRec", "PubRel"}
               /\ \E o \in AckOutcomes(received.records, acks, p.id, ack) :
                    Install(p.type, o.records) /\ Answered(o)
  BY DEF HandlePublishAck
<1> HIDE DEF p
<1>4. GoodHere(records) BY DEF Inv
<1>5. GoodHere(received.records)
  <2>1. CASE out
    BY <1>1, <1>4, <2>1, UpdateAckOut, SessionAssumption DEF GoodOut, AnyId, Operations
  <2>2. CASE ~ out
    BY <1>1, <1>4, <2>2, UpdateAckInGood, SessionAssumption DEF GoodIn, AnyId, Operations
  <2> QED BY <2>1, <2>2
<1>6. ASSUME p.type \in {"PubRec", "PubRel"}
      PROVE  GoodHere(UpdateAckIn(received.records, p.id, ack, "Send").records)
  <2>1. out <=> IsPublishOutgoing(ack, "Send") BY <1>6 DEF IsPublishOutgoing
  <2>2. ack \in AckTypes BY DEF AckTypes
  <2>3. CASE out
    BY <1>1, <1>5, <2>1, <2>2, <2>3, UpdateAckOut, SessionAssumption DEF GoodOut, AnyId, Operations
  <2>4. CASE ~ out
    BY <1>1, <1>5, <2>1, <2>2, <2>4, UpdateAckInGood, SessionAssumption
       DEF GoodIn, AnyId, Operations
  <2> QED BY <2>3, <2>4
<1>7. acks \in [PacketIds -> {"None", "PubRec", "PubRel"}]
  BY DEF Inv, Kept, StillKeptAck
<1>8. ASSUME NEW a, GoodHere(a), Install(p.type, a)
      PROVE  GoodOut(outgoing') /\ GoodIn(incoming')
  BY <1>8 DEF Install, Inv
<1>9. StillKeptPublish(p.id, p.type) \subseteq keptPublish BY DEF StillKeptPublish
<1>10. ack \in AckTypes BY DEF AckTypes
<1> HIDE DEF records, received, acks, ack, GoodHere
<1>11. /\ GoodOut(outgoing') /\ GoodIn(incoming')
       /\ keptAck' \in [PacketIds -> {"None", "PubRec", "PubRel"}] /\ keptPublish' \subseteq keptPublish
       /\ Links' /\ Control'
  <2>1. CASE /\ Install(p.type, received.records)
             /\ UNCHANGED <<status, store, toBroker, toClient, faults>>
    BY <1>2, <1>5, <1>8, <2>1 DEF Inv, Links, Control, Kept, store
  <2>2. CASE /\ keptPublish' = StillKeptPublish(p.id, p.type)
             /\ Install(p.type, received.records) /\ keptAck' = acks
             /\ toClient' \in {toClient, Tail(toClient)}
             /\ UNCHANGED <<status, toBroker, faults>>
    BY <1>1, <1>2, <1>5, <1>7, <1>8, <1>9, <2>2 DEF Inv, Links, Control
  <2>3. ASSUME p.type \in {"PubRec", "PubRel"}, keptPublish' = StillKeptPublish(p.id, p.type),
               NEW o \in AckOutcomes(received.records, acks, p.id, ack),
               Install(p.type, o.records), Answered(o)
        PROVE  /\ GoodOut(outgoing') /\ GoodIn(incoming')
               /\ keptAck' \in [PacketIds -> {"None", "PubRec", "PubRel"}]
               /\ keptPublish' \subseteq keptPublish
               /\ Links' /\ Control'
    <3>1. /\ o.records \in {received.records,
                            UpdateAckIn(received.records, p.id, ack, "Send").records}
          /\ keptAck' \in [PacketIds -> {"None", "PubRec", "PubRel"}]
          /\ Links' /\ Control'
      BY <1>1, <1>2, <1>7, <1>10, <2>3, AnsweredKeeps
    <3>2. GoodHere(o.records) BY <1>5, <1>6, <2>3, <3>1
    <3> QED BY <1>8, <1>9, <2>3, <3>1, <3>2
  <2> QED BY <1>3, <2>1, <2>2, <2>3
<1>12. Kept' BY <1>2, <1>11 DEF Inv, Kept
<1>13. Peers' BY <1>2 DEF Inv, Peers, broker
<1> QED BY <1>11, <1>12, <1>13 DEF Inv

\* The application and the connection, when no packet is handled.
LEMMA QuietInv ==
  ASSUME Inv,
         \/ \E id \in PacketIds : Cancel(id)
         \/ Disconnect \/ HandleDisconnect \/ NoticeDrop \/ Drop
  PROVE  Inv'
<1>0. <<>> \in Seq(Packets) BY EmptySeq
<1>1. ASSUME NEW id \in PacketIds, Cancel(id) PROVE Inv'
  <2>1. GoodOut(outgoing')
    BY <1>1, RemoveGood, SessionAssumption DEF Inv, Cancel, GoodOut, AnyId
  <2>2. /\ UNCHANGED <<status, incoming, store, linkUp, toBroker, toClient, broker,
                      faults, onward, told, late>>
        /\ owed' \subseteq owed
    BY <1>1 DEF Cancel
  <2>3. Links' /\ Control' BY <2>2 DEF Inv, Links, Control
  <2>4. Kept' BY <2>2 DEF Inv, Kept, store
  <2>5. Peers' BY <2>2 DEF Inv, Peers, broker
  <2> QED BY <2>1, <2>2, <2>3, <2>4, <2>5 DEF Inv
<1>2. ASSUME UNCHANGED <<outgoing, incoming, store, owed, broker, onward, told, late>>,
             linkUp' \in BOOLEAN, toBroker' \in {toBroker, <<>>}, toClient' \in {toClient, <<>>},
             status' \in {status, "NotConnected", "DisconnectPending"},
             \/ UNCHANGED faults
             \/ \E failed \in BOOLEAN : Fail(failed) /\ (failed => CanFail)
      PROVE  Inv'
  <2>1. faults' \in 0..MaxFaults BY <1>2, FailIs DEF Inv, Control
  <2>2. Links' /\ Control' BY <1>0, <1>2, <2>1 DEF Inv, Links, Control
  <2>3. Kept' BY <1>2 DEF Inv, Kept, store
  <2>4. Peers' BY <1>2 DEF Inv, Peers, broker
  <2> QED BY <1>2, <2>2, <2>3, <2>4 DEF Inv
<1>3. CASE Disconnect \/ HandleDisconnect \/ Drop
  BY <1>2, <1>3 DEF Disconnect, HandleDisconnect, Drop, Unplugged
<1>4. CASE NoticeDrop
  BY <1>2, <1>4 DEF NoticeDrop, Inv, Links
<1> QED BY <1>1, <1>3, <1>4

\* The broker publishes under an id it does not use.
LEMMA BrokerPublishInv ==
  ASSUME Inv, NEW id \in PacketIds, NEW q \in InQoS, BrokerPublish(id, q)
  PROVE  Inv'
<1> DEFINE E == [id : PacketIds, qos : {1, 2}, phase : {"Publish", "PubRel"}]
           e == [id |-> id, qos |-> q, phase |-> "Publish"]
<1>1. q \in {1, 2} BY SessionAssumption
<1>2. Packet("Publish", id, q) \in Packets
  <2>1. "Publish" \in AckTypes \cup {"Publish"} /\ q \in QoS BY <1>1 DEF QoS
  <2> QED BY <2>1, PacketIs
<1>3. e \in E /\ brokerOut \in Seq(E) BY <1>1 DEF Inv, Peers
<1> HIDE DEF e
<1>4. Append(brokerOut, e) \in Seq(E) BY <1>3, AppendOf
<1>5. Append(toClient, Packet("Publish", id, q)) \in Seq(Packets)
  BY <1>2, AppendOf DEF Inv, Links
<1>6. /\ brokerOut' = Append(brokerOut, e)
      /\ toClient' = Append(toClient, Packet("Publish", id, q))
      /\ told' = [told EXCEPT ![id] = 0]
      /\ UNCHANGED <<status, outgoing, incoming, store, owed, linkUp, toBroker,
                     brokerIn, faults, onward, late>>
  BY DEF BrokerPublish, e
<1>7. Links' /\ Control' BY <1>5, <1>6 DEF Inv, Links, Control
<1>8. Kept' BY <1>6 DEF Inv, Kept, store
<1>9. Peers' BY <1>4, <1>6 DEF Inv, Peers
<1> QED BY <1>6, <1>7, <1>8, <1>9 DEF Inv

\* The broker reads a packet, and its memory and its answer are of the id read.
LEMMA BrokerStepInv == Inv /\ BrokerStep => Inv'
<1> SUFFICES ASSUME Inv, BrokerStep PROVE Inv'
  OBVIOUS
<1> DEFINE E == [id : PacketIds, qos : {1, 2}, phase : {"Publish", "PubRel"}]
           p == Head(toBroker)
<1>1. toBroker # <<>> /\ toBroker' = Tail(toBroker)
      /\ UNCHANGED <<status, outgoing, incoming, store, owed, linkUp, faults, told, late>>
      /\ (BrokerReceives(p) \/ BrokerIsAnswered(p))
  BY DEF BrokerStep
<1>2. p \in Packets /\ Tail(toBroker) \in Seq(Packets) BY <1>1, TailOf DEF Inv, Links
<1>3. p.id \in PacketIds /\ p.type \in AckTypes \cup {"Publish"} BY <1>2, PacketIs
<1> HIDE DEF p
<1>4. \A type \in AckTypes : Append(toClient, Packet(type, p.id, 0)) \in Seq(Packets)
  <2>1. \A type \in AckTypes : Packet(type, p.id, 0) \in Packets BY <1>3, PacketIs DEF QoS
  <2> QED BY <2>1, AppendOf DEF Inv, Links
<1>5. CASE BrokerReceives(p)
  <2>1. brokerIn' \subseteq brokerIn \cup {p.id} /\ onward' \in {onward, Once(onward, p.id)}
        /\ UNCHANGED brokerOut
    BY <1>5 DEF BrokerReceives
  <2>2. toClient' \in Seq(Packets) BY <1>4, <1>5 DEF BrokerReceives, AckTypes
  <2>3. Once(onward, p.id) \in [PacketIds -> 0..2] BY <1>3, OnceIs DEF Inv, Peers
  <2>4. Links' BY <1>1, <1>2, <2>2 DEF Inv, Links
  <2>5. Control' BY <1>1 DEF Inv, Control
  <2>6. Kept' BY <1>1 DEF Inv, Kept, store
  <2>7. Peers' BY <1>1, <1>3, <2>1, <2>3 DEF Inv, Peers
  <2> QED BY <1>1, <2>4, <2>5, <2>6, <2>7 DEF Inv
<1>6. CASE BrokerIsAnswered(p)
  <2>0. brokerOut \in Seq(E) /\ Len(brokerOut) \in Nat
    BY LenProperties DEF Inv, Peers
  <2>1. toClient' \in Seq(Packets)
    BY <1>4, <1>6 DEF Inv, Links, BrokerIsAnswered, AckTypes
  <2>2. brokerOut' \in Seq(E)
    <3> DEFINE mine(e) == e.id = p.id /\ (p.type = "PubAck") = (e.qos = 1)
    <3>1. CASE brokerOut' = [k \in DOMAIN brokerOut |->
                 IF mine(brokerOut[k]) THEN [brokerOut[k] EXCEPT !.phase = "PubRel"]
                                       ELSE brokerOut[k]]
      <4>1. /\ DOMAIN brokerOut = 1..Len(brokerOut)
            /\ \A k \in 1..Len(brokerOut) : brokerOut[k] \in E
        BY <2>0, Elements
      <4>2. \A e \in E : [e EXCEPT !.phase = "PubRel"] \in E OBVIOUS
      <4> HIDE DEF mine, E
      <4>3. brokerOut' \in [1..Len(brokerOut) -> E] BY <3>1, <4>1, <4>2
      <4> QED BY <2>0, <4>3, SequenceOf
    <3>2. ASSUME NEW k \in DOMAIN brokerOut, brokerOut' = RemoveAt(brokerOut, k)
          PROVE  brokerOut' \in Seq(E)
      <4>1. k \in 1..Len(brokerOut) BY <2>0, Elements
      <4> QED BY <2>0, <3>2, <4>1, RemoveOf
    <3>3. CASE UNCHANGED brokerOut BY <2>0, <3>3
    <3> QED BY <1>6, <3>1, <3>2, <3>3 DEF BrokerIsAnswered
  <2>3. UNCHANGED <<brokerIn, onward>> BY <1>6 DEF BrokerIsAnswered
  <2>4. Links' BY <1>1, <1>2, <2>1 DEF Inv, Links
  <2>5. Control' BY <1>1 DEF Inv, Control
  <2>6. Kept' BY <1>1 DEF Inv, Kept, store
  <2>7. Peers' BY <1>1, <2>2, <2>3 DEF Inv, Peers
  <2> QED BY <1>1, <2>4, <2>5, <2>6, <2>7 DEF Inv
<1> QED BY <1>1, <1>5, <1>6

\* So every step keeps it.
LEMMA NextInv == Inv /\ [Next]_vars => Inv'
<1> SUFFICES ASSUME Inv, [Next]_vars PROVE Inv'
  OBVIOUS
<1>1. CASE PublishNew
  <2>1. PICK id \in PacketIds, q \in OutQoS : Publish(id, q, FALSE) BY <1>1 DEF PublishNew
  <2> QED BY <2>1, PublishInv, SessionAssumption
<1>2. CASE PublishAgain BY <1>2, PublishAgainIs, PublishInv
<1>3. CASE \/ \E id \in PacketIds : Cancel(id)
           \/ Disconnect \/ HandleDisconnect \/ NoticeDrop \/ Drop
  BY <1>3, QuietInv
<1>4. CASE UNCHANGED vars
  <2>1. Links' /\ Control' BY <1>4 DEF Inv, Links, Control, vars
  <2>2. Kept' /\ Peers' BY <1>4 DEF Inv, Kept, Peers, vars, store, broker
  <2>3. GoodOut(outgoing') /\ GoodIn(incoming') BY <1>4 DEF Inv, vars
  <2> QED BY <2>1, <2>2, <2>3 DEF Inv
<1> QED
  BY <1>1, <1>2, <1>3, <1>4, ConnectInv, HandlePublishInv, HandlePublishAckInv,
     BrokerPublishInv, BrokerStepInv DEF Next

\* So it holds in every reachable state.
LEMMA InvHolds == Spec => []Inv
BY InitInv, NextInv, PTL DEF Spec

\* Whatever the environment does, every packet on a wire is one of the six
\* the handshakes know, about an id in use, the store is only ever asked to
\* keep PUBLISH, PUBREC and PUBREL packets (a resumption that sends what it
\* finds there sends no other), and both arrays stay arrays of records
\* (client.rs 1700-1717, loop_.rs 760-800, session.rs 455-546).
THEOREM TypeCorrect == Spec => []TypeOK
BY InvHolds, InvIs, PTL
=============================================================================
