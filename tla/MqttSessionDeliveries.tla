----------------------- MODULE MqttSessionDeliveries -----------------------
(***************************************************************************)
(* The incoming handshakes of MqttSession, proved for every array size,    *)
(* every set of packet ids and any number of packets on the wire: no       *)
(* message of the broker's is acknowledged before the application has had  *)
(* it, none of QoS 2 reaches the application twice, there is always a      *)
(* record for the next one, and what is kept of one in the store is        *)
(* released with it.                                                       *)
(*                                                                         *)
(* The invariant relates, message by message, what the broker remembers of *)
(* it, what is on the wires and in which order, whether the client has a   *)
(* record and how often the application was told.                          *)
(***************************************************************************)
EXTENDS MqttSessionStore

---------------------------------------------------------------------------
(* The invariant. *)

\* What the broker sends of a message, and what the client answers.
Deliveries == {"Publish", "PubRel"}
Receipts   == {"PubAck", "PubRec", "PubComp"}

Entry == [id : PacketIds, qos : {1, 2}, phase : {"Publish", "PubRel"}]

\* What the broker remembers of one publish of its own.
Entries(s, id) == {s[k] : k \in {n \in DOMAIN s : s[n].id = id}}

\* It uses an id once.
OneOf(s) == \A k, l \in DOMAIN s : s[k].id = s[l].id => k = l

\* A PUBLISH of it is on its way to the client, and is so behind place k.
Asked(s, id) == \E n \in DOMAIN s : s[n].type = "Publish" /\ s[n].id = id
Behind(s, k, id) == \E n \in DOMAIN s : k < n /\ s[n].type = "Publish" /\ s[n].id = id

\* A message the broker remembers and what the client has made of it.  One that
\* awaits its PUBCOMP may still have a PUBLISH of it underway, as long as the
\* client has the record that tells it for a duplicate.
EntryFits(e, known, r, asked, count) ==
  /\ known => r.qos = e.qos
  /\ e.phase = "PubRel" => e.qos = 2 /\ count = 1 /\ (asked => known)
  /\ e.qos = 2 /\ e.phase = "Publish" => count < 2 /\ (count = 1 <=> known)

\* What the client answers, the application has had, and what ends the
\* handshake has taken the record with it.
ReceiptFits(p, e, known, asked, count) ==
  /\ p.type = "PubAck"  => e.qos = 1 /\ ~ known /\ ~ asked /\ count > 0
  /\ p.type = "PubRec"  => e.qos = 2 /\ count > 0
  /\ p.type = "PubComp" => e.phase = "PubRel" /\ ~ known /\ ~ asked

\* The wire to the client has one PUBLISH of a message the broker remembers,
\* and a PUBREL that is older than it finds no record.
Delivered(s, id, theirs, known) ==
  /\ \A k \in DOMAIN s : s[k].type = "Publish" /\ s[k].id = id =>
       /\ theirs # {} /\ \A e \in theirs : e.qos = s[k].qos
       /\ \A n \in DOMAIN s : s[n].type = "Publish" /\ s[n].id = id => n = k
  /\ \A k \in DOMAIN s : s[k].type = "PubRel" /\ s[k].id = id =>
       IF Behind(s, k, id) THEN ~ known ELSE \A e \in theirs : e.phase = "PubRel"

\* The wire to the broker has nothing of the handshake behind what ends it.
Replied(s, id, theirs, known, asked, count) ==
  /\ \A k \in DOMAIN s : s[k].type \in Receipts /\ s[k].id = id =>
       theirs # {} /\ \A e \in theirs : ReceiptFits(s[k], e, known, asked, count)
  /\ \A k, n \in DOMAIN s : k < n /\ s[k].id = id /\ s[n].id = id =>
       ~ (s[k].type \in {"PubAck", "PubComp"} /\ s[n].type \in Receipts)

\* What may be true of one message: theirs is what the broker remembers of it,
\* none or one; known that the client has a record, r; c and b the wires to the
\* client and to the broker; count how often the application was told.
Agree(id, theirs, known, r, c, b, count) ==
  /\ theirs = {} => ~ known
  /\ \A e \in theirs : EntryFits(e, known, r, Asked(c, id), count)
  /\ Delivered(c, id, theirs, known)
  /\ Replied(b, id, theirs, known, Asked(c, id), count)

MessageFits(id) ==
  Agree(id, Entries(brokerOut, id), id \in IdsIn(incoming), RecordOf(incoming, id),
        toClient, toBroker, told[id])

\* Once there are records, or a connection, the array is as short as the
\* client's own Receive Maximum cuts it, and no shorter than it was made.
Trimmed ==
  /\ status # "NotConnected" \/ IdsIn(incoming) # {} =>
       \A i \in DOMAIN incoming : i <= InQuota
  /\ \A i \in 1..InSlots : i <= InQuota => i \in DOMAIN incoming

InInv ==
  /\ OneOf(brokerOut) /\ Len(brokerOut) <= InQuota /\ Trimmed
  /\ \A id \in PacketIds : MessageFits(id)

\* A PUBREC in the store is for a message of QoS 2 the client has a record of.
RecHeld ==
  \A id \in PacketIds : keptAck[id] = "PubRec" =>
    HasStore /\ id \in IdsIn(incoming) /\ RecordOf(incoming, id).qos = 2

---------------------------------------------------------------------------
(* What the broker remembers. *)

\* It begins with nothing.
LEMMA EntriesNone ==
  /\ OneOf(<<>>) /\ Len(<<>>) = 0
  /\ \A id : Entries(<<>>, id) = {}
BY DEF OneOf, Entries

\* What it remembers of an id is at most one publish, and of that id.
LEMMA EntryIs ==
  ASSUME NEW s \in Seq(Entry), NEW id
  PROVE  /\ \A e \in Entries(s, id) : e \in Entry /\ e.id = id
         /\ OneOf(s) => \A d, e \in Entries(s, id) : d = e
         /\ \A k \in DOMAIN s : s[k].id = id => s[k] \in Entries(s, id)
<1>1. \A k \in DOMAIN s : s[k] \in Entry BY Elements
<1> QED BY <1>1 DEF Entries, OneOf

\* One more publish, under an id it does not use.
LEMMA EntryAppend ==
  ASSUME NEW s \in Seq(Entry), NEW e \in Entry, OneOf(s), Entries(s, e.id) = {}
  PROVE  /\ OneOf(Append(s, e))
         /\ \A id : Entries(Append(s, e), id) = IF id = e.id THEN {e} ELSE Entries(s, id)
<1> DEFINE t == Append(s, e)
<1>1. /\ t \in Seq(Entry) /\ Len(t) = Len(s) + 1
      /\ \A k \in 1..Len(s) : t[k] = s[k]
      /\ t[Len(s) + 1] = e
  BY AppendOf
<1>2. DOMAIN s = 1..Len(s) /\ Len(s) \in Nat BY Elements
<1>3. DOMAIN t = 1..Len(s)+1 BY <1>1, Elements
<1> HIDE DEF t
<1>4. DOMAIN t = DOMAIN s \cup {Len(s)+1} BY <1>2, <1>3
<1>5. \A k \in DOMAIN s : s[k].id # e.id BY DEF Entries
<1>6. OneOf(t) BY <1>1, <1>2, <1>4, <1>5 DEF OneOf
<1>7. ASSUME NEW id PROVE Entries(t, id) = IF id = e.id THEN {e} ELSE Entries(s, id)
  <2>1. CASE id = e.id
    <3>1. \A k \in DOMAIN t : t[k].id = id => t[k] = e BY <1>1, <1>2, <1>4, <1>5, <2>1
    <3>2. e \in Entries(t, id) BY <1>1, <1>4, <2>1 DEF Entries
    <3> QED BY <2>1, <3>1, <3>2 DEF Entries
  <2>2. CASE id # e.id
    <3>1. Entries(t, id) \subseteq Entries(s, id) BY <1>1, <1>2, <1>4, <2>2 DEF Entries
    <3>2. Entries(s, id) \subseteq Entries(t, id) BY <1>1, <1>2, <1>4 DEF Entries
    <3> QED BY <2>2, <3>1, <3>2
  <2> QED BY <2>1, <2>2
<1> QED BY <1>6, <1>7 DEF t

\* A publish it forgets.
LEMMA EntryRemove ==
  ASSUME NEW s \in Seq(Entry), OneOf(s), NEW n \in DOMAIN s
  PROVE  /\ OneOf(RemoveAt(s, n)) /\ Len(RemoveAt(s, n)) = Len(s) - 1
         /\ \A id : Entries(RemoveAt(s, n), id) = IF id = s[n].id THEN {} ELSE Entries(s, id)
<1> DEFINE t == RemoveAt(s, n)
<1>0. DOMAIN s = 1..Len(s) /\ Len(s) \in Nat BY Elements
<1>1. /\ t \in Seq(Entry) /\ Len(t) = Len(s) - 1
      /\ \A k \in 1..Len(s)-1 : t[k] = IF k < n THEN s[k] ELSE s[k+1]
  BY <1>0, RemoveOf
<1> HIDE DEF t
<1>2. DOMAIN t = 1..Len(s)-1 BY <1>1, Elements
<1> DEFINE from(k) == IF k < n THEN k ELSE k + 1
           to(k)   == IF k < n THEN k ELSE k - 1
<1>3. \A k \in DOMAIN t : from(k) \in DOMAIN s /\ t[k] = s[from(k)] /\ from(k) # n
  BY <1>0, <1>1, <1>2
<1>4. \A k, l \in DOMAIN t : from(k) = from(l) => k = l BY <1>0, <1>2
<1>5. \A k \in DOMAIN s : k # n => to(k) \in DOMAIN t /\ t[to(k)] = s[k]
  <2> SUFFICES ASSUME NEW k \in DOMAIN s, k # n PROVE to(k) \in DOMAIN t /\ t[to(k)] = s[k]
    OBVIOUS
  <2>1. CASE k < n BY <1>0, <1>1, <1>2, <2>1
  <2>2. CASE k > n
    <3>1. k - 1 \in 1..Len(s)-1 /\ ~ (k - 1 < n) /\ (k - 1) + 1 = k /\ to(k) = k - 1
      BY <1>0, <2>2
    <3> QED BY <1>1, <1>2, <3>1
  <2> QED BY <1>0, <2>1, <2>2
<1> HIDE DEF from, to
<1>6. OneOf(t) BY <1>3, <1>4 DEF OneOf
<1>7. ASSUME NEW id PROVE Entries(t, id) = IF id = s[n].id THEN {} ELSE Entries(s, id)
  <2>1. Entries(t, id) \subseteq Entries(s, id) BY <1>3 DEF Entries
  <2>2. CASE id = s[n].id
    <3>1. \A k \in DOMAIN t : t[k].id # id BY <1>3, <2>2 DEF OneOf
    <3> QED BY <2>2, <3>1 DEF Entries
  <2>3. CASE id # s[n].id
    <3>1. Entries(s, id) \subseteq Entries(t, id) BY <1>5, <2>3 DEF Entries
    <3> QED BY <2>1, <2>3, <3>1
  <2> QED BY <2>2, <2>3
<1> QED BY <1>1, <1>6, <1>7 DEF t

\* A publish that moves on.
MovedOn(e, i) ==
  IF e.id = i /\ e.qos # 1 THEN [e EXCEPT !.phase = "PubRel"] ELSE e

\* It stays in its place.
LEMMA EntryChange ==
  ASSUME NEW s \in Seq(Entry), OneOf(s), NEW i, NEW t \in Seq(Entry), DOMAIN t = DOMAIN s,
         \A k \in DOMAIN s : t[k] = MovedOn(s[k], i)
  PROVE  /\ OneOf(t) /\ Len(t) = Len(s)
         /\ \A id : id # i => Entries(t, id) = Entries(s, id)
         /\ \A d \in Entries(s, i) : MovedOn(d, i) \in Entries(t, i)
         /\ \A e \in Entries(t, i) : \E d \in Entries(s, i) : e = MovedOn(d, i)
<1>1. /\ DOMAIN s = 1..Len(s) /\ Len(s) \in Nat /\ \A k \in DOMAIN s : s[k] \in Entry
      /\ DOMAIN t = 1..Len(t) /\ Len(t) \in Nat
  BY Elements
<1>2. \A e \in Entry : /\ MovedOn(e, i).id = e.id
                       /\ e.id # i => MovedOn(e, i) = e
  BY DEF MovedOn, Entry
<1>3. \A k \in DOMAIN s : /\ t[k].id = s[k].id
                          /\ s[k].id # i => t[k] = s[k]
  BY <1>1, <1>2
<1>4. Len(t) = Len(s) BY <1>1
<1>5. OneOf(t) BY <1>3 DEF OneOf
<1>6. ASSUME NEW id, id # i PROVE Entries(t, id) = Entries(s, id)
  <2>1. \A k \in DOMAIN s : t[k].id = id \/ s[k].id = id => t[k] = s[k] BY <1>3, <1>6
  <2>2. Entries(t, id) \subseteq Entries(s, id) BY <1>3, <2>1 DEF Entries
  <2>3. Entries(s, id) \subseteq Entries(t, id) BY <1>3, <2>1 DEF Entries
  <2> QED BY <2>2, <2>3
<1>7. ASSUME NEW d \in Entries(s, i) PROVE MovedOn(d, i) \in Entries(t, i)
  BY <1>3 DEF Entries
<1>8. ASSUME NEW e \in Entries(t, i) PROVE \E d \in Entries(s, i) : e = MovedOn(d, i)
  BY <1>3 DEF Entries
<1> QED BY <1>4, <1>5, <1>6, <1>7, <1>8

---------------------------------------------------------------------------
(* The wires. *)

\* What a step may make of a wire that is nothing to the message: packets are
\* lost, one is taken off, or one that is not about it is added.
Passed(s, t, types, id) ==
  \/ t = s \/ t = <<>>
  \/ s # <<>> /\ t = Tail(s)
  \/ \E p \in Packets : ~ (p.type \in types /\ p.id = id) /\ t = Append(s, p)

\* A wire with its first packet taken.
LEMMA TailPlaces ==
  ASSUME NEW s \in Seq(Packets), s # <<>>, NEW t, t = Tail(s)
  PROVE  /\ \A k \in DOMAIN t : k \in Nat /\ k + 1 \in DOMAIN s /\ t[k] = s[k+1]
         /\ \A k \in DOMAIN s : k \in Nat /\ (k > 1 => k - 1 \in DOMAIN t /\ t[k-1] = s[k])
         /\ 1 \in DOMAIN s /\ s[1] = Head(s) /\ t \in Seq(Packets)
<1>1. DOMAIN s = 1..Len(s) /\ Len(s) \in Nat BY Elements
<1>2. /\ Head(s) = s[1] /\ Len(s) >= 1
      /\ t \in Seq(Packets) /\ Len(t) = Len(s) - 1
      /\ \A k \in 1..Len(t) : t[k] = s[k+1]
  BY TailOf
<1>3. DOMAIN t = 1..Len(t) BY <1>2, Elements
<1>4. ASSUME NEW k \in DOMAIN s, k > 1 PROVE k - 1 \in DOMAIN t /\ t[k-1] = s[k]
  <2>1. k - 1 \in 1..Len(t) /\ (k - 1) + 1 = k BY <1>1, <1>2, <1>4
  <2> QED BY <1>2, <1>3, <2>1
<1> QED BY <1>1, <1>2, <1>3, <1>4

\* A wire with a packet added.
LEMMA AppendPlaces ==
  ASSUME NEW s \in Seq(Packets), NEW p \in Packets, NEW t, t = Append(s, p)
  PROVE  \E last :
           /\ \A k \in DOMAIN s : k \in Nat /\ k \in DOMAIN t /\ t[k] = s[k] /\ k < last
           /\ \A k \in DOMAIN t : k \in DOMAIN s \/ k = last
           /\ last \in DOMAIN t /\ last \in Nat /\ t[last] = p /\ last \notin DOMAIN s
           /\ t \in Seq(Packets)
<1>1. DOMAIN s = 1..Len(s) /\ Len(s) \in Nat BY Elements
<1>2. /\ t \in Seq(Packets) /\ Len(t) = Len(s) + 1
      /\ \A k \in 1..Len(s) : t[k] = s[k]
      /\ t[Len(s) + 1] = p
  BY AppendOf
<1>3. DOMAIN t = 1..Len(t) BY <1>2, Elements
<1> WITNESS Len(s) + 1
<1> QED BY <1>1, <1>2, <1>3

\* An empty wire fits anything.
LEMMA NothingPassed ==
  ASSUME NEW id, NEW theirs, NEW known, NEW asked, NEW count
  PROVE  /\ ~ Asked(<<>>, id) /\ Delivered(<<>>, id, theirs, known)
         /\ Replied(<<>>, id, theirs, known, asked, count)
BY DEF Asked, Delivered, Replied

\* Taking a packet off the wire to the client.
LEMMA DeliveredTail ==
  ASSUME NEW s \in Seq(Packets), s # <<>>, NEW id, NEW theirs, NEW known,
         Delivered(s, id, theirs, known)
  PROVE  /\ Delivered(Tail(s), id, theirs, known)
         /\ Asked(Tail(s), id) => Asked(s, id)
         /\ Head(s).type = "Publish" /\ Head(s).id = id => Asked(s, id) /\ ~ Asked(Tail(s), id)
         /\ Head(s).type = "PubRel" /\ Head(s).id = id /\ Asked(s, id) => Behind(s, 1, id)
<1> DEFINE t == Tail(s)
<1>1. /\ \A k \in DOMAIN t : k \in Nat /\ k + 1 \in DOMAIN s /\ t[k] = s[k+1]
      /\ \A k \in DOMAIN s : k \in Nat /\ (k > 1 => k - 1 \in DOMAIN t /\ t[k-1] = s[k])
      /\ 1 \in DOMAIN s /\ s[1] = Head(s)
  BY TailPlaces
<1>0. DOMAIN s \subseteq 1..Len(s) /\ Len(s) \in Nat BY Elements
<1> HIDE DEF t
<1>2. ASSUME NEW k \in DOMAIN t PROVE Behind(t, k, id) <=> Behind(s, k + 1, id)
  <2>1. ASSUME Behind(t, k, id) PROVE Behind(s, k + 1, id)
    <3>1. PICK n \in DOMAIN t : k < n /\ t[n].type = "Publish" /\ t[n].id = id
      BY <2>1 DEF Behind
    <3>2. n + 1 \in DOMAIN s /\ k + 1 < n + 1 /\ s[n+1] = t[n] BY <1>1, <3>1
    <3> QED BY <3>1, <3>2 DEF Behind
  <2>2. ASSUME Behind(s, k + 1, id) PROVE Behind(t, k, id)
    <3>1. PICK n \in DOMAIN s : k + 1 < n /\ s[n].type = "Publish" /\ s[n].id = id
      BY <2>2 DEF Behind
    <3>2. n - 1 \in DOMAIN t /\ k < n - 1 /\ t[n-1] = s[n] BY <1>1, <3>1
    <3> QED BY <3>1, <3>2 DEF Behind
  <2> QED BY <2>1, <2>2
<1>3. ASSUME NEW k \in DOMAIN t, t[k].type = "PubRel", t[k].id = id
      PROVE  IF Behind(t, k, id) THEN ~ known ELSE \A e \in theirs : e.phase = "PubRel"
  <2>1. k + 1 \in DOMAIN s /\ s[k+1].type = "PubRel" /\ s[k+1].id = id BY <1>1, <1>3
  <2> QED BY <1>2, <2>1 DEF Delivered
<1>4. ASSUME NEW k \in DOMAIN t, t[k].type = "Publish", t[k].id = id
      PROVE  /\ theirs # {} /\ \A e \in theirs : e.qos = t[k].qos
             /\ \A n \in DOMAIN t : t[n].type = "Publish" /\ t[n].id = id => n = k
  <2>1. k + 1 \in DOMAIN s /\ s[k+1] = t[k] BY <1>1
  <2>2. /\ theirs # {} /\ \A e \in theirs : e.qos = t[k].qos
        /\ \A n \in DOMAIN s : s[n].type = "Publish" /\ s[n].id = id => n = k + 1
    BY <1>4, <2>1 DEF Delivered
  <2>3. ASSUME NEW n \in DOMAIN t, t[n].type = "Publish", t[n].id = id PROVE n = k
    <3>1. n + 1 \in DOMAIN s /\ s[n+1] = t[n] BY <1>1
    <3>2. n + 1 = k + 1 BY <2>2, <2>3, <3>1
    <3> QED BY <1>1, <3>2
  <2> QED BY <2>2, <2>3
<1>5. Delivered(t, id, theirs, known) BY <1>3, <1>4 DEF Delivered
<1>6. Asked(t, id) => Asked(s, id) BY <1>1 DEF Asked
<1>7. ASSUME Head(s).type = "Publish", Head(s).id = id PROVE Asked(s, id) /\ ~ Asked(t, id)
  <2>1. Asked(s, id) BY <1>1, <1>7 DEF Asked
  <2>2. \A n \in DOMAIN s : s[n].type = "Publish" /\ s[n].id = id => n = 1
    BY <1>1, <1>7 DEF Delivered
  <2>3. \A n \in DOMAIN t : n \in Nat /\ n \in DOMAIN t BY <1>1
  <2>4. ASSUME NEW n \in DOMAIN t, t[n].type = "Publish", t[n].id = id PROVE FALSE
    <3>1. n + 1 = 1 BY <1>1, <2>2, <2>4
    <3>2. t \in Seq(Packets) BY TailPlaces DEF t
    <3>3. n >= 1 BY <3>2, Elements
    <3> QED BY <1>1, <3>1, <3>3
  <2> QED BY <2>1, <2>4 DEF Asked
<1>8. ASSUME Head(s).type = "PubRel", Head(s).id = id, Asked(s, id) PROVE Behind(s, 1, id)
  <2>1. PICK n \in DOMAIN s : s[n].type = "Publish" /\ s[n].id = id BY <1>8 DEF Asked
  <2>2. n # 1 BY <1>1, <1>8, <2>1
  <2> QED BY <1>0, <2>1, <2>2 DEF Behind
<1> QED BY <1>5, <1>6, <1>7, <1>8 DEF t

\* Adding one that has nothing to do with the message.
LEMMA DeliveredBeside ==
  ASSUME NEW s \in Seq(Packets), NEW p \in Packets, NEW id, NEW theirs, NEW known,
         Delivered(s, id, theirs, known), ~ (p.type \in Deliveries /\ p.id = id)
  PROVE  /\ Delivered(Append(s, p), id, theirs, known)
         /\ Asked(Append(s, p), id) <=> Asked(s, id)
<1> DEFINE t == Append(s, p)
<1>1. PICK last :
        /\ \A k \in DOMAIN s : k \in Nat /\ k \in DOMAIN t /\ t[k] = s[k] /\ k < last
        /\ \A k \in DOMAIN t : k \in DOMAIN s \/ k = last
        /\ last \in DOMAIN t /\ last \in Nat /\ t[last] = p /\ last \notin DOMAIN s
  BY AppendPlaces
<1> HIDE DEF t
<1>2. ~ (p.type = "Publish" /\ p.id = id) /\ ~ (p.type = "PubRel" /\ p.id = id)
  BY DEF Deliveries
<1>3. \A k \in DOMAIN t : t[k].id = id /\ t[k].type \in Deliveries => k \in DOMAIN s /\ s[k] = t[k]
  BY <1>1
<1>4. \A k \in DOMAIN s : Behind(t, k, id) <=> Behind(s, k, id) BY <1>1, <1>2 DEF Behind
<1>5. Asked(t, id) <=> Asked(s, id) BY <1>1, <1>2 DEF Asked
<1>6. Delivered(t, id, theirs, known) BY <1>3, <1>4 DEF Delivered, Deliveries
<1> QED BY <1>5, <1>6 DEF t

\* The wire to the broker, with a packet less.
LEMMA RepliedTail ==
  ASSUME NEW s \in Seq(Packets), s # <<>>, NEW id, NEW theirs, NEW known, NEW asked, NEW count,
         Replied(s, id, theirs, known, asked, count)
  PROVE  /\ Replied(Tail(s), id, theirs, known, asked, count)
         /\ Head(s).type \in Receipts /\ Head(s).id = id =>
              theirs # {} /\ \A e \in theirs : ReceiptFits(Head(s), e, known, asked, count)
         /\ Head(s).type \in {"PubAck", "PubComp"} /\ Head(s).id = id =>
              \A k \in DOMAIN Tail(s) : ~ (Tail(s)[k].type \in Receipts /\ Tail(s)[k].id = id)
<1> DEFINE t == Tail(s)
<1>1. /\ \A k \in DOMAIN t : k \in Nat /\ k + 1 \in DOMAIN s /\ t[k] = s[k+1]
      /\ 1 \in DOMAIN s /\ s[1] = Head(s) /\ t \in Seq(Packets)
  BY TailPlaces
<1>2. \A k \in DOMAIN t : 1 < k + 1 BY <1>1, Elements
<1> HIDE DEF t
<1>3. \A k, n \in DOMAIN t : k < n => k + 1 < n + 1 BY <1>1
<1>4. Replied(t, id, theirs, known, asked, count) BY <1>1, <1>3 DEF Replied
<1>5. ASSUME Head(s).type \in {"PubAck", "PubComp"}, Head(s).id = id, NEW k \in DOMAIN t
      PROVE  ~ (t[k].type \in Receipts /\ t[k].id = id)
  BY <1>1, <1>2, <1>5 DEF Replied
<1>6. Head(s).type \in Receipts /\ Head(s).id = id =>
        theirs # {} /\ \A e \in theirs : ReceiptFits(Head(s), e, known, asked, count)
  BY <1>1 DEF Replied
<1> QED BY <1>4, <1>5, <1>6 DEF t

\* And with one more, about something else or one that fits.
LEMMA RepliedAppend ==
  ASSUME NEW s \in Seq(Packets), NEW p \in Packets, NEW id, NEW theirs, NEW known,
         NEW asked, NEW count, Replied(s, id, theirs, known, asked, count),
         p.type \in Receipts /\ p.id = id =>
           /\ theirs # {} /\ \A e \in theirs : ReceiptFits(p, e, known, asked, count)
           /\ \A k \in DOMAIN s : s[k].id = id => s[k].type \notin {"PubAck", "PubComp"}
  PROVE  Replied(Append(s, p), id, theirs, known, asked, count)
<1> DEFINE t == Append(s, p)
<1>1. PICK last :
        /\ \A k \in DOMAIN s : k \in Nat /\ k \in DOMAIN t /\ t[k] = s[k] /\ k < last
        /\ \A k \in DOMAIN t : k \in DOMAIN s \/ k = last
        /\ last \in DOMAIN t /\ last \in Nat /\ t[last] = p /\ last \notin DOMAIN s
  BY AppendPlaces
<1> HIDE DEF t
<1>2. ASSUME NEW k \in DOMAIN t, t[k].type \in Receipts, t[k].id = id
      PROVE  theirs # {} /\ \A e \in theirs : ReceiptFits(t[k], e, known, asked, count)
  BY <1>1, <1>2 DEF Replied
<1>3. ASSUME NEW k \in DOMAIN t, NEW n \in DOMAIN t, k < n, t[k].id = id, t[n].id = id,
             t[k].type \in {"PubAck", "PubComp"}, t[n].type \in Receipts
      PROVE  FALSE
  <2>1. k \in DOMAIN s
    <3>1. CASE k = last BY <1>1, <1>3, <3>1
    <3> QED BY <1>1, <3>1
  <2>2. CASE n = last BY <1>1, <1>3, <2>1, <2>2
  <2>3. CASE n \in DOMAIN s BY <1>1, <1>3, <2>1, <2>3 DEF Replied
  <2> QED BY <1>1, <2>2, <2>3
<1>4. Replied(t, id, theirs, known, asked, count) BY <1>2, <1>3 DEF Replied
<1> QED BY <1>4 DEF t

\* So a message is left in order by what is nothing to it.
LEMMA AgreeStays ==
  ASSUME NEW id, NEW theirs, NEW known, NEW r, NEW c \in Seq(Packets), NEW b \in Seq(Packets),
         NEW count, Agree(id, theirs, known, r, c, b, count),
         NEW c2, Passed(c, c2, Deliveries, id), NEW b2, Passed(b, b2, Receipts, id)
  PROVE  Agree(id, theirs, known, r, c2, b2, count)
<1>1. /\ Delivered(c, id, theirs, known) /\ Replied(b, id, theirs, known, Asked(c, id), count)
      /\ \A e \in theirs : EntryFits(e, known, r, Asked(c, id), count)
      /\ theirs = {} => ~ known
  BY DEF Agree
<1>2. Delivered(c2, id, theirs, known) /\ (Asked(c2, id) => Asked(c, id))
  <2>1. CASE c2 = c BY <1>1, <2>1
  <2>2. CASE c2 = <<>> BY <2>2, NothingPassed
  <2>3. CASE c # <<>> /\ c2 = Tail(c) BY <1>1, <2>3, DeliveredTail
  <2>4. CASE \E p \in Packets : ~ (p.type \in Deliveries /\ p.id = id) /\ c2 = Append(c, p)
    BY <1>1, <2>4, DeliveredBeside
  <2> QED BY <2>1, <2>2, <2>3, <2>4 DEF Passed
<1>3. Replied(b2, id, theirs, known, Asked(c, id), count)
  <2>1. CASE b2 = b BY <1>1, <2>1
  <2>2. CASE b2 = <<>> BY <2>2, NothingPassed
  <2>3. CASE b # <<>> /\ b2 = Tail(b) BY <1>1, <2>3, RepliedTail
  <2>4. CASE \E p \in Packets : ~ (p.type \in Receipts /\ p.id = id) /\ b2 = Append(b, p)
    <3>1. PICK p \in Packets : ~ (p.type \in Receipts /\ p.id = id) /\ b2 = Append(b, p)
      BY <2>4
    <3> QED BY <1>1, <3>1, RepliedAppend
  <2> QED BY <2>1, <2>2, <2>3, <2>4 DEF Passed
<1>4. Replied(b2, id, theirs, known, Asked(c2, id), count)
  BY <1>2, <1>3 DEF Replied, ReceiptFits
<1>5. \A e \in theirs : EntryFits(e, known, r, Asked(c2, id), count)
  BY <1>1, <1>2 DEF EntryFits
<1> QED BY <1>1, <1>2, <1>4, <1>5 DEF Agree

---------------------------------------------------------------------------
(* A message that a step does not touch. *)

\* A message stays in order if what the broker and the client remember of it
\* stays, and nothing about it is added to the wires.
LEMMA MessageStays ==
  ASSUME Links, NEW id \in PacketIds, MessageFits(id),
         Entries(brokerOut', id) = Entries(brokerOut, id),
         id \in IdsIn(incoming') <=> id \in IdsIn(incoming),
         id \in IdsIn(incoming) => RecordOf(incoming', id) = RecordOf(incoming, id),
         Passed(toClient, toClient', Deliveries, id), Passed(toBroker, toBroker', Receipts, id),
         told'[id] = told[id]
  PROVE  MessageFits(id)'
<1> DEFINE r      == RecordOf(incoming, id)
           r2     == RecordOf(incoming', id)
           theirs == Entries(brokerOut, id)
           known  == id \in IdsIn(incoming)
           known2 == id \in IdsIn(incoming')
<1>1. Agree(id, theirs, known, r, toClient, toBroker, told[id]) BY DEF MessageFits
<1>2. (known2 <=> known) /\ (known => r2 = r) OBVIOUS
<1> HIDE DEF r, r2, theirs, known, known2
<1>3. Agree(id, theirs, known, r, toClient', toBroker', told[id])
  BY <1>1, AgreeStays DEF Links
<1>4. Agree(id, theirs, known2, r2, toClient', toBroker', told[id])
  BY <1>2, <1>3 DEF Agree, EntryFits, Delivered, Replied, ReceiptFits
<1>5. Entries(brokerOut', id) = theirs /\ told'[id] = told[id] BY DEF theirs
<1>6. Agree(id, Entries(brokerOut', id), known2, r2, toClient', toBroker', told'[id])
  BY <1>4, <1>5
<1> QED BY <1>6 DEF MessageFits, r2, known2

\* Only a connection changes how long the array is.
LEMMA TrimmedStays ==
  ASSUME Trimmed, DOMAIN incoming' = DOMAIN incoming,
         status' # "NotConnected" => status # "NotConnected",
         IdsIn(incoming') # {} => status # "NotConnected" \/ IdsIn(incoming) # {}
  PROVE  Trimmed'
BY DEF Trimmed

\* Steps that touch no message: they may take packets off the wires, and put
\* others there that have to do with publishes of the client's.
LEMMA AsideIn ==
  ASSUME Links, InInv, UNCHANGED <<incoming, brokerOut, told>>,
         status' # "NotConnected" => status # "NotConnected",
         \A id : /\ Passed(toClient, toClient', Deliveries, id)
                 /\ Passed(toBroker, toBroker', Receipts, id)
  PROVE  InInv'
<1>1. ASSUME NEW id \in PacketIds PROVE MessageFits(id)'
  <2>1. MessageFits(id) BY DEF InInv
  <2>2. /\ Entries(brokerOut', id) = Entries(brokerOut, id)
        /\ id \in IdsIn(incoming') <=> id \in IdsIn(incoming)
        /\ RecordOf(incoming', id) = RecordOf(incoming, id)
        /\ told'[id] = told[id]
    OBVIOUS
  <2> QED BY <2>1, <2>2, MessageStays
<1>2. Trimmed'
  <2>1. IdsIn(incoming') = IdsIn(incoming) /\ DOMAIN incoming' = DOMAIN incoming OBVIOUS
  <2> QED BY <2>1, TrimmedStays DEF InInv
<1>3. OneOf(brokerOut') /\ Len(brokerOut') <= InQuota BY DEF InInv
<1> QED BY <1>1, <1>2, <1>3 DEF InInv

---------------------------------------------------------------------------
(* Steps that touch no message of the broker's. *)

\* Nothing is under way at first.
LEMMA InitIn == Init => InInv
<1> SUFFICES ASSUME Init PROVE InInv
  OBVIOUS
<1>1. Occupied(incoming) = {} BY DEF Init, Occupied, Empty, Record
<1>2. IdsIn(incoming) = {} BY <1>1 DEF IdsIn
<1>3. toClient = <<>> /\ toBroker = <<>> /\ brokerOut = <<>> BY DEF Init
<1>4. \A id \in PacketIds : MessageFits(id)
  BY <1>2, <1>3, NothingPassed, EntriesNone DEF MessageFits, Agree
<1>5. DOMAIN incoming = 1..InSlots BY DEF Init
<1>6. Trimmed BY <1>2, <1>5 DEF Init, Trimmed
<1>7. OneOf(brokerOut) /\ Len(brokerOut) <= InQuota BY EntriesNone, SessionAssumption DEF Init
<1> QED BY <1>4, <1>6, <1>7 DEF InInv

\* A connection that ends takes its packets with it and leaves the rest.
LEMMA QuietIn ==
  ASSUME Inv, InInv,
         \/ \E id \in PacketIds : Cancel(id)
         \/ Disconnect \/ HandleDisconnect \/ NoticeDrop \/ Drop \/ UNCHANGED vars
  PROVE  InInv'
<1>1. /\ UNCHANGED <<incoming, brokerOut, told>>
      /\ status' # "NotConnected" => status # "NotConnected"
      /\ \/ UNCHANGED <<toBroker, toClient>>
         \/ toBroker' = <<>> /\ toClient' = <<>>
  BY DEF Cancel, Disconnect, HandleDisconnect, NoticeDrop, Drop, Unplugged, broker, vars
<1>2. \A id : /\ Passed(toClient, toClient', Deliveries, id)
             /\ Passed(toBroker, toBroker', Receipts, id)
  BY <1>1 DEF Passed
<1> QED BY <1>1, <1>2, AsideIn DEF Inv

\* A publish of the application's.
LEMMA PublishIn ==
  ASSUME Inv, InInv, NEW i \in PacketIds, NEW q \in {1, 2}, NEW dup \in BOOLEAN,
         Publish(i, q, dup)
  PROVE  InInv'
<1> DEFINE p == Packet("Publish", i, q)
<1>1. /\ UNCHANGED <<incoming, brokerOut, told, toClient>>
      /\ toBroker' \in {toBroker, OnWire(<<p>>)}
      /\ status = "Connected"
  BY DEF Publish, broker
<1>2. p \in Packets /\ p.type \notin Receipts BY DEF Packet, Packets, QoS, Receipts
<1> HIDE DEF p
<1>3. OnWire(<<p>>) \in {toBroker, Append(toBroker, p)} BY <1>2, OnWireOf DEF Inv, Links
<1>4. toBroker' = toBroker \/ toBroker' = Append(toBroker, p) BY <1>1, <1>3
<1>5. \A id : /\ Passed(toClient, toClient', Deliveries, id)
             /\ Passed(toBroker, toBroker', Receipts, id)
  BY <1>1, <1>2, <1>4 DEF Passed
<1> QED BY <1>1, <1>5, AsideIn DEF Inv

\* An acknowledgement of one of them, and what it is answered with.
LEMMA AnswerIn ==
  ASSUME Inv, InInv, HandlePublishAck, Head(toClient).type # "PubRel"
  PROVE  InInv'
<1> DEFINE p        == Head(toClient)
           received == UpdateAckIn(outgoing, p.id, p.type, "Receive")
           acks     == StillKeptAck(p.id, p.type)
           x        == Packet("PubRel", p.id, 0)
<1>1. /\ linkUp /\ toClient # <<>> /\ p.id \in PacketIds /\ status # "NotConnected"
      /\ p.type \in AckTypes
  BY HeadIs DEF Inv, HandlePublishAck
<1>2. IsPublishOutgoing(p.type, "Receive") BY DEF IsPublishOutgoing
<1>3. /\ UNCHANGED <<incoming, brokerOut, told>>
      /\ \/ UNCHANGED <<status, toBroker, toClient>>
         \/ toClient' = Tail(toClient) /\ UNCHANGED <<status, toBroker>>
         \/ \E o \in AckOutcomes(received.records, acks, p.id, "PubRel") : Answered(o)
  BY <1>1, <1>2 DEF HandlePublishAck, Install, AckTypes, broker
<1> HIDE DEF p
<1>4. x \in Packets /\ x.type \notin Receipts
  BY <1>1 DEF Packet, Packets, QoS, AckTypes, Receipts
<1> HIDE DEF x, received, acks
<1>5. /\ toBroker' = toBroker \/ toBroker' = Append(toBroker, x)
      /\ toClient' = toClient \/ toClient' = Tail(toClient)
  <2>1. ASSUME NEW o \in AckOutcomes(received.records, acks, p.id, "PubRel"), Answered(o)
        PROVE  /\ toBroker' = toBroker \/ toBroker' = Append(toBroker, x)
               /\ toClient' = toClient \/ toClient' = Tail(toClient)
    <3>1. OnWire(<<x>>) = Append(toBroker, x) /\ OnWire(<<>>) = toBroker
      BY <1>1, <1>4, OnWireOf DEF Inv, Links
    <3>2. o.sent \in {<<x>>, <<>>}
      <4>1. AckDone(o, received.records, acks, p.id, "PubRel")
            \/ AckNotDone(o, received.records, acks, p.id, "PubRel")
        BY AckOutcomeCases
      <4> QED BY <4>1 DEF AckDone, AckNotDone, x
    <3> QED BY <2>1, <3>1, <3>2 DEF Answered
  <2> QED BY <1>3, <2>1
<1>6. \A id : /\ Passed(toClient, toClient', Deliveries, id)
             /\ Passed(toBroker, toBroker', Receipts, id)
  BY <1>1, <1>4, <1>5 DEF Passed
<1> QED BY <1>1, <1>3, <1>6, AsideIn DEF Inv

\* The broker's receiving half.
LEMMA BrokerReceivesIn ==
  ASSUME Inv, InInv, BrokerStep, BrokerReceives(Head(toBroker))
  PROVE  InInv'
<1> DEFINE p    == Head(toBroker)
           type == IF p.type = "PubRel" THEN "PubComp"
                   ELSE IF p.qos = 1 THEN "PubAck" ELSE "PubRec"
           x    == Packet(type, p.id, 0)
<1>1. /\ toBroker # <<>> /\ toBroker' = Tail(toBroker)
      /\ UNCHANGED <<status, incoming, told, brokerOut>>
      /\ toClient' = Append(toClient, x)
  BY DEF BrokerStep, BrokerReceives
<1>2. p.id \in PacketIds
  <2>1. p \in Packets BY <1>1, TailOf DEF Inv, Links
  <2> QED BY <2>1, PacketIs
<1> HIDE DEF p
<1>3. x \in Packets /\ x.type \notin Deliveries
  BY <1>2 DEF Packet, Packets, QoS, AckTypes, Deliveries
<1> HIDE DEF x
<1>4. \A id : /\ Passed(toClient, toClient', Deliveries, id)
             /\ Passed(toBroker, toBroker', Receipts, id)
  BY <1>1, <1>3 DEF Passed
<1> QED BY <1>1, <1>4, AsideIn DEF Inv

---------------------------------------------------------------------------
(* The broker's steps of one message. *)

\* A new message: there may be a PUBREL of an older one ahead of it.
LEMMA AgreePublished ==
  ASSUME NEW id, NEW known, NEW r, NEW c \in Seq(Packets), NEW b, NEW count,
         Agree(id, {}, known, r, c, b, count),
         NEW p \in Packets, p.type = "Publish", p.id = id,
         NEW e \in Entry, e.phase = "Publish", e.qos = p.qos
  PROVE  Agree(id, {e}, known, r, Append(c, p), b, 0)
<1> DEFINE t == Append(c, p)
<1>1. PICK last :
        /\ \A k \in DOMAIN c : k \in Nat /\ k \in DOMAIN t /\ t[k] = c[k] /\ k < last
        /\ \A k \in DOMAIN t : k \in DOMAIN c \/ k = last
        /\ last \in DOMAIN t /\ last \in Nat /\ t[last] = p /\ last \notin DOMAIN c
  BY AppendPlaces
<1> HIDE DEF t
<1>2. /\ ~ known
      /\ \A k \in DOMAIN c : ~ (c[k].type = "Publish" /\ c[k].id = id)
      /\ \A k \in DOMAIN b : ~ (b[k].type \in Receipts /\ b[k].id = id)
  BY DEF Agree, Delivered, Replied
<1>3. \A k \in DOMAIN t : t[k].type = "Publish" /\ t[k].id = id => k = last BY <1>1, <1>2
<1>4. ASSUME NEW k \in DOMAIN t, t[k].type = "PubRel", t[k].id = id PROVE Behind(t, k, id)
  <2>1. k < last BY <1>1, <1>4
  <2> QED BY <1>1, <2>1 DEF Behind
<1>5. Delivered(t, id, {e}, known) BY <1>1, <1>2, <1>3, <1>4 DEF Delivered
<1>6. Replied(b, id, {e}, known, Asked(t, id), 0)
  <2>1. ASSUME NEW k \in DOMAIN b, NEW n \in DOMAIN b, k < n, b[k].id = id, b[n].id = id
        PROVE  ~ (b[k].type \in {"PubAck", "PubComp"} /\ b[n].type \in Receipts)
    BY <1>2, <2>1
  <2> QED BY <1>2, <2>1 DEF Replied
<1>7. EntryFits(e, known, r, Asked(t, id), 0) BY <1>2 DEF EntryFits
<1> QED BY <1>5, <1>6, <1>7 DEF Agree, t

\* A PUBREC: the message is released, and the PUBREL is behind whatever else
\* there is of it.
LEMMA AgreeReleased ==
  ASSUME NEW id, NEW theirs, NEW known, NEW r, NEW c \in Seq(Packets), NEW b \in Seq(Packets),
         NEW count \in 0..2, Agree(id, theirs, known, r, c, b, count),
         \A e \in theirs : e.phase \in {"Publish", "PubRel"},
         b # <<>>, Head(b).type = "PubRec", Head(b).id = id,
         NEW x \in Packets, x.type = "PubRel", x.id = id,
         NEW theirs2, theirs2 # {},
         \A d \in theirs2 : d.phase = "PubRel" /\ \E e \in theirs : d.qos = e.qos
  PROVE  Agree(id, theirs2, known, r, Append(c, x), Tail(b), count)
<1> DEFINE t == Append(c, x)
<1>1. PICK last :
        /\ \A k \in DOMAIN c : k \in Nat /\ k \in DOMAIN t /\ t[k] = c[k] /\ k < last
        /\ \A k \in DOMAIN t : k \in DOMAIN c \/ k = last
        /\ last \in DOMAIN t /\ last \in Nat /\ t[last] = x /\ last \notin DOMAIN c
  <2>1. x \in Packets /\ t = Append(c, x) OBVIOUS
  <2> HIDE DEF t
  <2> QED BY <2>1, AppendPlaces
<1> HIDE DEF t
<1>2. /\ Delivered(c, id, theirs, known) /\ Replied(b, id, theirs, known, Asked(c, id), count)
      /\ \A e \in theirs : EntryFits(e, known, r, Asked(c, id), count)
  BY DEF Agree
<1>3. /\ Replied(Tail(b), id, theirs, known, Asked(c, id), count)
      /\ theirs # {} /\ \A e \in theirs : ReceiptFits(Head(b), e, known, Asked(c, id), count)
  BY <1>2, RepliedTail DEF Receipts
<1>4. \A e \in theirs : e.qos = 2 /\ count > 0 BY <1>3 DEF ReceiptFits
<1>5. /\ count = 1 /\ (Asked(c, id) => known) /\ (known => r.qos = 2)
  BY <1>2, <1>3, <1>4 DEF EntryFits
<1>6. \A d \in theirs2 : d.phase = "PubRel" /\ d.qos = 2 BY <1>4
<1>7. Asked(t, id) <=> Asked(c, id) BY <1>1 DEF Asked
<1>8. Delivered(t, id, theirs2, known)
  <2>1. \A k \in DOMAIN c : Behind(t, k, id) <=> Behind(c, k, id) BY <1>1 DEF Behind
  <2>2. ASSUME NEW k \in DOMAIN t, t[k].type = "PubRel", t[k].id = id, Behind(t, k, id)
        PROVE  ~ known
    <3>1. CASE k \in DOMAIN c BY <1>1, <1>2, <2>1, <2>2, <3>1 DEF Delivered
    <3>2. CASE k = last
      <4>1. \A n \in DOMAIN t : ~ (k < n) BY <1>1, <3>2
      <4> QED BY <2>2, <4>1 DEF Behind
    <3> QED BY <1>1, <3>1, <3>2
  <2>3. ASSUME NEW k \in DOMAIN t, t[k].type = "Publish", t[k].id = id
        PROVE  /\ \A d \in theirs2 : d.qos = t[k].qos
               /\ \A n \in DOMAIN t : t[n].type = "Publish" /\ t[n].id = id => n = k
    <3>1. k \in DOMAIN c /\ c[k] = t[k] BY <1>1, <2>3
    <3>2. \A n \in DOMAIN c : c[n].type = "Publish" /\ c[n].id = id => n = k
      BY <1>2, <2>3, <3>1 DEF Delivered
    <3>3. \A e \in theirs : e.qos = t[k].qos BY <1>2, <2>3, <3>1 DEF Delivered
    <3> QED BY <1>1, <3>2, <3>3
  <2> QED BY <1>6, <2>2, <2>3 DEF Delivered
<1>9. Replied(Tail(b), id, theirs2, known, Asked(c, id), count)
  <2> DEFINE s == Tail(b)
  <2>1. Replied(s, id, theirs, known, Asked(c, id), count) BY <1>3
  <2> HIDE DEF s
  <2>2. ASSUME NEW k \in DOMAIN s, s[k].type \in Receipts, s[k].id = id, NEW d \in theirs2
        PROVE  ReceiptFits(s[k], d, known, Asked(c, id), count)
    <3>1. \A e \in theirs : ReceiptFits(s[k], e, known, Asked(c, id), count)
      BY <2>1, <2>2 DEF Replied
    <3> QED BY <1>3, <1>4, <1>6, <3>1 DEF ReceiptFits
  <2>3. Replied(s, id, theirs2, known, Asked(c, id), count) BY <2>1, <2>2 DEF Replied
  <2> QED BY <2>3 DEF s
<1>10. \A d \in theirs2 : EntryFits(d, known, r, Asked(c, id), count)
  BY <1>5, <1>6 DEF EntryFits
<1>11. Replied(Tail(b), id, theirs2, known, Asked(t, id), count)
  BY <1>7, <1>9 DEF Replied, ReceiptFits
<1>12. \A d \in theirs2 : EntryFits(d, known, r, Asked(t, id), count) BY <1>7, <1>10 DEF EntryFits
<1> QED BY <1>8, <1>11, <1>12 DEF Agree, t

\* A PUBACK or a PUBCOMP: nothing of the message is left.
LEMMA AgreeEnded ==
  ASSUME NEW id, NEW theirs, NEW known, NEW r, NEW c, NEW b \in Seq(Packets),
         NEW count, Agree(id, theirs, known, r, c, b, count),
         b # <<>>, Head(b).type \in {"PubAck", "PubComp"}, Head(b).id = id
  PROVE  Agree(id, {}, known, r, c, Tail(b), count)
<1>1. /\ Delivered(c, id, theirs, known) /\ Replied(b, id, theirs, known, Asked(c, id), count)
  BY DEF Agree
<1>2. /\ theirs # {} /\ \A e \in theirs : ReceiptFits(Head(b), e, known, Asked(c, id), count)
      /\ \A k \in DOMAIN Tail(b) : ~ (Tail(b)[k].type \in Receipts /\ Tail(b)[k].id = id)
  BY <1>1, RepliedTail DEF Receipts
<1>3. ~ known /\ ~ Asked(c, id) BY <1>2 DEF ReceiptFits
<1>4. Delivered(c, id, {}, known) BY <1>3 DEF Delivered, Asked, Behind
<1> DEFINE s == Tail(b)
<1>5. \A k \in DOMAIN s : ~ (s[k].type \in Receipts /\ s[k].id = id) BY <1>2
<1> HIDE DEF s
<1>6. Replied(s, id, {}, known, Asked(c, id), count) BY <1>5 DEF Replied
<1> QED BY <1>3, <1>4, <1>6 DEF Agree, s

\* A new message is under an id of which the broker remembers nothing.
LEMMA BrokerPublishIn ==
  ASSUME Inv, InInv, NEW i \in PacketIds, NEW q \in InQoS, BrokerPublish(i, q)
  PROVE  InInv'
<1> DEFINE p == Packet("Publish", i, q)
           e == [id |-> i, qos |-> q, phase |-> "Publish"]
<1>1. /\ UNCHANGED <<status, incoming, toBroker>>
      /\ toClient' = Append(toClient, p)
      /\ brokerOut' = Append(brokerOut, e)
      /\ told' = [told EXCEPT ![i] = 0]
      /\ i \notin BrokerIds /\ Len(brokerOut) < InQuota
  BY DEF BrokerPublish
<1>2. q \in {1, 2} /\ e \in Entry /\ e.id = i /\ e.qos = q /\ e.phase = "Publish"
  BY SessionAssumption DEF Entry
<1>3. p \in Packets /\ p.type = "Publish" /\ p.id = i /\ p.qos = q
  BY <1>2 DEF Packet, Packets, QoS
<1> HIDE DEF p, e
<1>4. brokerOut \in Seq(Entry) /\ told \in [PacketIds -> 0..2] BY DEF Inv, Peers, Entry
<1>5. Entries(brokerOut, i) = {} BY <1>1 DEF BrokerIds, Entries
<1>6. /\ OneOf(brokerOut')
      /\ \A id : Entries(brokerOut', id) = IF id = i THEN {e} ELSE Entries(brokerOut, id)
  BY <1>1, <1>2, <1>4, <1>5, EntryAppend DEF InInv
<1>7. Len(brokerOut') <= InQuota
  <2>1. Len(brokerOut') = Len(brokerOut) + 1 /\ Len(brokerOut) \in Nat
    BY <1>1, <1>2, <1>4, AppendOf
  <2> QED BY <1>1, <2>1, SessionAssumption
<1>8. Trimmed' BY <1>1, TrimmedStays DEF InInv
<1>9. ASSUME NEW y \in PacketIds, y # i PROVE MessageFits(y)'
  <2>1. MessageFits(y) BY DEF InInv
  <2>2. /\ Entries(brokerOut', y) = Entries(brokerOut, y) /\ told'[y] = told[y]
        /\ Passed(toClient, toClient', Deliveries, y) /\ Passed(toBroker, toBroker', Receipts, y)
    BY <1>1, <1>3, <1>4, <1>6, <1>9 DEF Passed
  <2> QED BY <1>1, <2>1, <2>2, MessageStays DEF Inv
<1>10. MessageFits(i)'
  <2> DEFINE known == i \in IdsIn(incoming)
             r     == RecordOf(incoming, i)
  <2>1. Agree(i, {}, known, r, toClient, toBroker, told[i]) BY <1>5 DEF InInv, MessageFits
  <2>2. told'[i] = 0 /\ Entries(brokerOut', i) = {e} BY <1>1, <1>4, <1>6
  <2> HIDE DEF known, r
  <2>3. Agree(i, {e}, known, r, Append(toClient, p), toBroker, 0)
    BY <1>2, <1>3, <2>1, AgreePublished DEF Inv, Links
  <2>4. Agree(i, Entries(brokerOut', i), known, r, toClient', toBroker', told'[i])
    BY <1>1, <2>2, <2>3
  <2> QED BY <1>1, <2>4 DEF MessageFits, known, r
<1> QED BY <1>6, <1>7, <1>8, <1>9, <1>10 DEF InInv

\* A receipt of the client's.
LEMMA BrokerAnsweredIn ==
  ASSUME Inv, InInv, BrokerStep, BrokerIsAnswered(Head(toBroker)),
         NEW i, i = Head(toBroker).id
  PROVE  InInv'
<1> DEFINE p == Head(toBroker)
           x == Packet("PubRel", i, 0)
           theirs   == Entries(brokerOut, i)
           theirs2  == Entries(brokerOut', i)
           known    == i \in IdsIn(incoming)
           r        == RecordOf(incoming, i)
           mine(e)  == e.id = i /\ (p.type = "PubAck") = (e.qos = 1)
<1>1. /\ toBroker # <<>> /\ toBroker' = Tail(toBroker)
      /\ UNCHANGED <<status, incoming, told>>
      /\ p.type \in Receipts
      /\ p.type = "PubRec" =>
           /\ brokerOut' = [k \in DOMAIN brokerOut |->
                IF mine(brokerOut[k]) THEN [brokerOut[k] EXCEPT !.phase = "PubRel"]
                                      ELSE brokerOut[k]]
           /\ toClient' = IF i \in BrokerIds THEN Append(toClient, x) ELSE toClient
      /\ p.type # "PubRec" =>
           /\ toClient' = toClient
           /\ \/ \E k \in DOMAIN brokerOut :
                   mine(brokerOut[k]) /\ brokerOut' = RemoveAt(brokerOut, k)
              \/ (\A k \in DOMAIN brokerOut : ~mine(brokerOut[k])) /\ UNCHANGED brokerOut
  BY DEF BrokerStep, BrokerIsAnswered, Receipts
<1>2. i \in PacketIds /\ p.id = i /\ Links
  <2>1. p \in Packets BY <1>1, TailOf DEF Inv, Links
  <2> QED BY <2>1, PacketIs DEF Inv
<1>3. x \in Packets /\ x.type = "PubRel" /\ x.id = i BY <1>2 DEF Packet, Packets, QoS, AckTypes
<1> HIDE DEF x
<1>4. /\ brokerOut \in Seq(Entry) /\ OneOf(brokerOut) /\ Len(brokerOut) <= InQuota
      /\ brokerOut' \in Seq(Entry)
  BY BrokerStepInv DEF Inv, Peers, Entry, InInv
<1>5. Agree(i, theirs, known, r, toClient, toBroker, told[i]) BY <1>2 DEF InInv, MessageFits
<1>6. i \in BrokerIds <=> theirs # {} BY DEF BrokerIds, Entries
<1>7. told[i] \in 0..2 BY <1>2 DEF Inv, Peers
<1>8. /\ \A e \in theirs : e \in Entry /\ e.id = i /\ \E k \in DOMAIN brokerOut : brokerOut[k] = e
      /\ \A d, e \in theirs : d = e
  <2>1. \A e \in theirs : e \in Entry /\ e.id = i BY <1>4, EntryIs
  <2>2. \A d, e \in theirs : d = e BY <1>4, EntryIs
  <2> QED BY <2>1, <2>2 DEF Entries
<1> HIDE DEF theirs, theirs2, known, r
<1>9. PICK e \in theirs : ReceiptFits(p, e, known, Asked(toClient, i), told[i])
                          /\ EntryFits(e, known, r, Asked(toClient, i), told[i])
  <2>1. /\ Replied(toBroker, i, theirs, known, Asked(toClient, i), told[i])
        /\ \A e \in theirs : EntryFits(e, known, r, Asked(toClient, i), told[i])
    BY <1>5 DEF Agree
  <2>2. theirs # {} /\ \A e \in theirs : ReceiptFits(p, e, known, Asked(toClient, i), told[i])
    BY <1>1, <1>2, <2>1, RepliedTail DEF Links
  <2> QED BY <2>1, <2>2
<1>10. ASSUME \A id : id # i => Entries(brokerOut', id) = Entries(brokerOut, id),
              toClient' \in {toClient, Append(toClient, x)},
              NEW y \in PacketIds, y # i
       PROVE  MessageFits(y)'
  <2>1. MessageFits(y) BY DEF InInv
  <2>2. Passed(toClient, toClient', Deliveries, y) /\ Passed(toBroker, toBroker', Receipts, y)
    BY <1>1, <1>3, <1>10 DEF Passed
  <2> QED BY <1>1, <1>2, <1>10, <2>1, <2>2, MessageStays
<1>11. Trimmed' BY <1>1, TrimmedStays DEF InInv
<1>12. ASSUME Agree(i, theirs2, known, r, toClient', toBroker', told[i]) PROVE MessageFits(i)'
  BY <1>1, <1>12 DEF MessageFits, theirs2, known, r
<1> HIDE DEF p
<1>13. CASE p.type = "PubRec"
  <2>1. e.qos = 2 BY <1>9, <1>13 DEF ReceiptFits
  <2>2. toClient' = Append(toClient, x) BY <1>1, <1>6, <1>9, <1>13
  <2>3. /\ DOMAIN brokerOut' = DOMAIN brokerOut
        /\ \A k \in DOMAIN brokerOut : brokerOut'[k] = MovedOn(brokerOut[k], i)
    BY <1>1, <1>13 DEF MovedOn
  <2>4. /\ OneOf(brokerOut') /\ Len(brokerOut') = Len(brokerOut)
        /\ \A id : id # i => Entries(brokerOut', id) = Entries(brokerOut, id)
        /\ \A d \in Entries(brokerOut, i) : MovedOn(d, i) \in Entries(brokerOut', i)
        /\ \A c \in Entries(brokerOut', i) : \E d \in Entries(brokerOut, i) : c = MovedOn(d, i)
    BY <1>4, <2>3, EntryChange
  <2>5. theirs2 # {} /\ \A d \in theirs2 : d.phase = "PubRel" /\ d.qos = e.qos
    <3>1. MovedOn(e, i).qos = 2 /\ MovedOn(e, i).phase = "PubRel"
      BY <1>8, <2>1 DEF Entry, MovedOn
    <3>2. theirs2 # {} /\ \A c \in theirs2 : c = MovedOn(e, i)
      BY <1>8, <1>9, <2>4 DEF theirs, theirs2
    <3> QED BY <2>1, <3>1, <3>2
  <2>6. \A d \in theirs : d.phase \in {"Publish", "PubRel"} BY <1>8 DEF Entry
  <2>7. Agree(i, theirs2, known, r, Append(toClient, x), Tail(toBroker), told[i])
    <3>1. /\ toClient \in Seq(Packets) /\ toBroker \in Seq(Packets) /\ toBroker # <<>>
          /\ Head(toBroker).type = "PubRec" /\ Head(toBroker).id = i
      BY <1>1, <1>2, <1>13 DEF Links, p
    <3>2. \A d \in theirs2 : d.phase = "PubRel" /\ \E f \in theirs : d.qos = f.qos
      BY <1>9, <2>5
    <3> QED BY <1>3, <1>5, <1>7, <2>5, <2>6, <3>1, <3>2, AgreeReleased
  <2>8. MessageFits(i)' BY <1>1, <1>12, <2>2, <2>7
  <2> QED BY <1>4, <1>10, <1>11, <2>2, <2>4, <2>8 DEF InInv
<1>14. CASE p.type # "PubRec"
  <2>1. (p.type = "PubAck") = (e.qos = 1)
    BY <1>1, <1>9, <1>14 DEF ReceiptFits, EntryFits, Receipts
  <2>2. PICK k \in DOMAIN brokerOut : mine(brokerOut[k]) /\ brokerOut' = RemoveAt(brokerOut, k)
    BY <1>1, <1>8, <1>14, <2>1
  <2>3. /\ OneOf(brokerOut') /\ Len(brokerOut') = Len(brokerOut) - 1
        /\ \A id : Entries(brokerOut', id) = IF id = i THEN {} ELSE Entries(brokerOut, id)
    <3>1. brokerOut[k].id = i BY <2>2
    <3> QED BY <1>4, <2>2, <3>1, EntryRemove
  <2>4. toClient' = toClient /\ theirs2 = {} BY <1>1, <1>14, <2>3 DEF theirs2
  <2>5. Agree(i, {}, known, r, toClient, Tail(toBroker), told[i])
    BY <1>1, <1>2, <1>5, <1>14, AgreeEnded DEF Links, p, Receipts
  <2>6. MessageFits(i)' BY <1>1, <1>12, <2>4, <2>5
  <2>7. Len(brokerOut') <= InQuota
    <3>1. Len(brokerOut) \in Nat BY <1>4, LenProperties
    <3> QED BY <1>4, <2>3, <3>1, SessionAssumption
  <2> QED BY <1>10, <1>11, <2>3, <2>4, <2>6, <2>7 DEF InInv
<1> QED BY <1>13, <1>14

---------------------------------------------------------------------------
(* The client handles a delivery. *)

\* A PUBLISH at the front is the only one, so the record it finds or makes is
\* nothing to any PUBREL, and there is no receipt that ends the handshake.
LEMMA AgreeNoted ==
  ASSUME NEW id, NEW theirs, NEW known, NEW r, NEW c \in Seq(Packets), NEW b, NEW count,
         Agree(id, theirs, known, r, c, b, count),
         c # <<>>, Head(c).type = "Publish", Head(c).id = id,
         NEW known2, NEW r2, NEW count2, count2 > 0,
         \A e \in theirs : EntryFits(e, known2, r2, TRUE, count2), theirs # {}
  PROVE  Agree(id, theirs, known2, r2, c, b, count2)
<1>1. /\ Delivered(c, id, theirs, known) /\ Replied(b, id, theirs, known, Asked(c, id), count)
  BY DEF Agree
<1>2. Asked(c, id) BY <1>1, DeliveredTail
<1>3. /\ DOMAIN c = 1..Len(c) /\ Len(c) \in Nat /\ 1 \in DOMAIN c /\ c[1] = Head(c)
  BY Elements, TailPlaces
<1>4. \A n \in DOMAIN c : c[n].type = "Publish" /\ c[n].id = id => n = 1 BY <1>1, <1>3 DEF Delivered
<1>5. \A k \in DOMAIN c : ~ Behind(c, k, id) BY <1>3, <1>4 DEF Behind
<1>6. Delivered(c, id, theirs, known2) BY <1>1, <1>5 DEF Delivered
<1>7. Replied(b, id, theirs, known2, TRUE, count2)
  <2>1. ASSUME NEW k \in DOMAIN b, b[k].type \in Receipts, b[k].id = id, NEW e \in theirs
        PROVE  ReceiptFits(b[k], e, known2, TRUE, count2)
    <3>1. ReceiptFits(b[k], e, known, Asked(c, id), count) BY <1>1, <2>1 DEF Replied
    <3> QED BY <1>2, <3>1 DEF ReceiptFits
  <2> QED BY <1>1, <2>1 DEF Replied
<1>8. Asked(c, id) = TRUE BY <1>2 DEF Asked
<1>9. \A e \in theirs : EntryFits(e, known2, r2, Asked(c, id), count2) BY <1>8
<1>10. Replied(b, id, theirs, known2, Asked(c, id), count2) BY <1>7, <1>8
<1> QED BY <1>6, <1>9, <1>10 DEF Agree

\* The receipt goes out.
LEMMA AgreeReceipted ==
  ASSUME NEW id, NEW theirs, NEW known, NEW r, NEW c \in Seq(Packets), NEW b \in Seq(Packets),
         NEW count, Agree(id, theirs, known, r, c, b, count), known, theirs # {},
         NEW c2, c2 = c \/ (c # <<>> /\ c2 = Tail(c)), NEW x \in Packets,
         NEW known2, NEW r2,
         \A e \in theirs : /\ EntryFits(e, known2, r2, Asked(c2, id), count)
                           /\ ReceiptFits(x, e, known2, Asked(c2, id), count)
  PROVE  Agree(id, theirs, known2, r2, c2, Append(b, x), count)
<1>1. /\ Delivered(c, id, theirs, known) /\ Replied(b, id, theirs, known, Asked(c, id), count)
  BY DEF Agree
<1>2. Delivered(c2, id, theirs, known) /\ (Asked(c2, id) => Asked(c, id))
  <2>1. CASE c2 = c BY <1>1, <2>1
  <2>2. CASE c # <<>> /\ c2 = Tail(c) BY <1>1, <2>2, DeliveredTail
  <2> QED BY <2>1, <2>2
<1>3. Delivered(c2, id, theirs, known2) BY <1>2 DEF Delivered
<1>4. \A k \in DOMAIN b : b[k].id = id => b[k].type \notin {"PubAck", "PubComp"}
  BY <1>1 DEF Replied, ReceiptFits, Receipts
<1>5. Replied(b, id, theirs, known2, Asked(c2, id), count)
  BY <1>1, <1>2, <1>4 DEF Replied, ReceiptFits
<1>6. Replied(Append(b, x), id, theirs, known2, Asked(c2, id), count)
  BY <1>4, <1>5, RepliedAppend
<1> QED BY <1>3, <1>6 DEF Agree

\* The records but one.
Beside(a, b, i) ==
  \A y \in PacketIds : y # i =>
    /\ y \in IdsIn(b) <=> y \in IdsIn(a)
    /\ y \in IdsIn(a) => RecordOf(b, y) = RecordOf(a, y)

\* The acknowledgement a record is due.
Due(ack, r) ==
  \/ ack = "PubAck"  /\ r.qos = 1
  \/ ack = "PubRec"  /\ r.qos = 2
  \/ ack = "PubComp" /\ r.qos = 2 /\ r.state = "PubCompSend"

\* A PUBACK and a PUBCOMP end the record, and it takes note of every one; a
\* PUBREC leaves it, and it may be past taking note.
LEMMA DueIsNoted ==
  ASSUME NEW b, GoodIn(b), NEW i \in IdsIn(b), NEW ack, Due(ack, RecordOf(b, i))
  PROVE  LET noted == UpdateAckIn(b, i, ack, "Send")
             c     == noted.records
         IN  /\ ack \in Receipts /\ DOMAIN c = DOMAIN b /\ Beside(b, c, i)
             /\ ack = "PubRec" => i \in IdsIn(c) /\ RecordOf(c, i).qos = 2
             /\ ack # "PubRec" => i \notin IdsIn(c) /\ noted.status = "Ok"
<1> DEFINE noted == UpdateAckIn(b, i, ack, "Send")
           c     == noted.records
           r     == RecordOf(b, i)
<1>1. ack \in Receipts /\ ack \in AckTypes /\ ~ IsPublishOutgoing(ack, "Send")
  BY DEF Due, Receipts, AckTypes, IsPublishOutgoing
<1>2. i \in PacketIds /\ r.qos \in QoS /\ r.state \in IncomingStates[r.qos] /\ r \in Slots
      /\ r.packet_id = i
  BY ById, SessionAssumption DEF GoodIn
<1>3. /\ DOMAIN c = DOMAIN b
      /\ \/ /\ noted.status # "Ok" /\ c = b
            /\ i \in IdsIn(b) =>
                 <<ack, r.state>> \notin
                   {<<"PubAck", "PubAckSend">>, <<"PubRec", "PubRecSend">>,
                    <<"PubRec", "PubRelPending">>, <<"PubRel", "PubRelPending">>,
                    <<"PubRel", "PubCompSend">>, <<"PubComp", "PubCompSend">>}
         \/ /\ noted.status = "Ok" /\ i \in IdsIn(b)
            /\ \/ ack = "PubAck" /\ r.qos = 1 /\ r.state = "PubAckSend"
               \/ ack = "PubComp" /\ r.qos = 2 /\ r.state = "PubCompSend"
            /\ Forgotten(b, c, i)
         \/ /\ noted.status = "Ok" /\ i \in IdsIn(b) /\ r.qos = 2 /\ c = b
            /\ \/ ack = "PubRec" /\ r.state = "PubRelPending"
               \/ ack = "PubRel" /\ r.state = "PubCompSend"
         \/ /\ noted.status = "Ok" /\ i \in IdsIn(b) /\ r.qos = 2
            /\ \/ /\ ack = "PubRec" /\ r.state = "PubRecSend"
                  /\ Recorded(b, c, [r EXCEPT !.state = "PubRelPending"])
               \/ /\ ack = "PubRel" /\ r.state = "PubRelPending"
                  /\ Recorded(b, c, [r EXCEPT !.state = "PubCompSend"])
  BY <1>1, <1>2, IncomingAcks, SessionAssumption DEF GoodIn, Operations
<1> HIDE DEF noted, c, r
<1>4. CASE ack # "PubRec"
  <2>1. <<ack, r.state>> \in {<<"PubAck", "PubAckSend">>, <<"PubComp", "PubCompSend">>}
    BY <1>2, <1>4 DEF Due, IncomingStates, QoS, r
  <2>2. noted.status = "Ok" /\ Forgotten(b, c, i) BY <1>1, <1>3, <1>4, <2>1 DEF Receipts
  <2>3. i \notin IdsIn(c) /\ Beside(b, c, i) BY <2>2 DEF Forgotten, Beside
  <2> QED BY <1>1, <1>3, <1>4, <2>2, <2>3 DEF noted, c
<1>5. CASE ack = "PubRec"
  <2>1. r.qos = 2 BY <1>5 DEF Due, r
  <2>2. c = b \/ Recorded(b, c, [r EXCEPT !.state = "PubRelPending"]) BY <1>3, <1>5
  <2>3. i \in IdsIn(c) /\ Beside(b, c, i) /\ RecordOf(c, i).qos = 2
    <3>1. CASE c = b BY <2>1, <3>1 DEF Beside, r
    <3>2. CASE Recorded(b, c, [r EXCEPT !.state = "PubRelPending"])
      <4> DEFINE n == [r EXCEPT !.state = "PubRelPending"]
      <4>1. n.packet_id = i /\ n.qos = 2 BY <1>2, <2>1 DEF Slots
      <4> HIDE DEF n
      <4>2. Recorded(b, c, n) BY <3>2 DEF n
      <4> QED BY <4>1, <4>2 DEF Recorded, Beside
    <3> QED BY <2>2, <3>1, <3>2
  <2> QED BY <1>1, <1>3, <1>5, <2>3 DEF noted, c
<1> QED BY <1>4, <1>5

\* A step of one message's: the others stay as they are.
LEMMA OneMessage ==
  ASSUME Links, InInv, NEW i \in PacketIds, DOMAIN incoming' = DOMAIN incoming,
         Beside(incoming, incoming', i), UNCHANGED brokerOut, status # "NotConnected",
         toClient' = toClient \/ (toClient # <<>> /\ toClient' = Tail(toClient)),
         \/ toBroker' = toBroker
         \/ \E x \in Packets : x.id = i /\ toBroker' = Append(toBroker, x),
         \A y \in PacketIds : y # i => told'[y] = told[y],
         MessageFits(i)'
  PROVE  InInv'
<1>1. ASSUME NEW y \in PacketIds, y # i PROVE MessageFits(y)'
  <2>1. MessageFits(y) BY DEF InInv
  <2>2. /\ y \in IdsIn(incoming') <=> y \in IdsIn(incoming)
        /\ y \in IdsIn(incoming) => RecordOf(incoming', y) = RecordOf(incoming, y)
    BY <1>1 DEF Beside
  <2>3. Entries(brokerOut', y) = Entries(brokerOut, y) OBVIOUS
  <2>4. Passed(toClient, toClient', Deliveries, y) /\ Passed(toBroker, toBroker', Receipts, y)
    BY <1>1 DEF Passed
  <2> QED BY <1>1, <2>1, <2>2, <2>3, <2>4, MessageStays
<1>2. \A y \in PacketIds : MessageFits(y)' BY <1>1
<1>3. Trimmed' BY TrimmedStays DEF InInv
<1>4. OneOf(brokerOut') /\ Len(brokerOut') <= InQuota BY DEF InInv
<1> QED BY <1>2, <1>3, <1>4 DEF InInv

\* The record has been brought up to date, and the delivery is acknowledged or
\* stays where it is.
LEMMA AcknowledgedIn ==
  ASSUME Inv, InInv, Receiving(Deliveries), NEW i, i = Head(toClient).id,
         NEW b, GoodIn(b), DOMAIN b = DOMAIN incoming, Beside(incoming, b, i), i \in IdsIn(b),
         \A y \in PacketIds : y # i => told'[y] = told[y],
         told'[i] \in 0..2, told'[i] > 0, UNCHANGED brokerOut, Entries(brokerOut, i) # {},
         Agree(i, Entries(brokerOut, i), i \in IdsIn(b), RecordOf(b, i), toClient, toBroker,
               told'[i]),
         NEW acks, NEW ack, Due(ack, RecordOf(b, i)),
         ack = "PubAck" => Head(toClient).type = "Publish",
         ack = "PubComp" => /\ ~ Asked(toClient, i)
                            /\ \A e \in Entries(brokerOut, i) : e.phase = "PubRel",
         \/ incoming' = b /\ UNCHANGED <<status, toBroker, toClient>>
         \/ \E o \in AckOutcomes(b, acks, i, ack) : incoming' = o.records /\ Answered(o)
  PROVE  /\ InInv' /\ Beside(incoming, incoming', i)
         /\ ack = "PubRec" => i \in IdsIn(incoming') /\ RecordOf(incoming', i).qos = 2
<1> DEFINE noted   == UpdateAckIn(b, i, ack, "Send")
           c       == noted.records
           x       == Packet(ack, i, 0)
           theirs  == Entries(brokerOut, i)
           count   == told'[i]
           known   == i \in IdsIn(b)
           known2  == i \in IdsIn(c)
           r       == RecordOf(b, i)
           r2      == RecordOf(c, i)
<1>1. /\ linkUp /\ toClient # <<>> /\ i \in PacketIds /\ status # "NotConnected"
      /\ Head(toClient).type \in Deliveries
  BY HeadIs DEF Inv
<1>2. Links /\ toClient \in Seq(Packets) /\ toBroker \in Seq(Packets) BY DEF Inv, Links
<1>3. /\ ack \in Receipts /\ DOMAIN c = DOMAIN b /\ Beside(b, c, i)
      /\ ack = "PubRec" => known2 /\ r2.qos = 2
      /\ ack # "PubRec" => ~ known2 /\ noted.status = "Ok"
  BY DueIsNoted
<1>4. Agree(i, theirs, known, r, toClient, toBroker, count) /\ theirs # {} /\ known
  OBVIOUS
<1>5. /\ ack = "PubAck" => r.qos = 1
      /\ ack # "PubAck" => r.qos = 2
  BY DEF Due
<1>6. x \in Packets /\ x.type = ack /\ x.id = i
  <2>1. ack \in AckTypes BY <1>3 DEF Receipts, AckTypes
  <2>2. x \in Packets BY <1>1, <2>1, PacketIs DEF QoS
  <2> QED BY <2>2 DEF Packet
<1>7. brokerOut' = brokerOut /\ Entries(brokerOut', i) = theirs OBVIOUS
<1>8. count > 0 /\ count \in 0..2 OBVIOUS
<1>9. \A e \in theirs : e.phase \in {"Publish", "PubRel"} /\ e.qos \in {1, 2}
  <2>1. brokerOut \in Seq(Entry) BY DEF Inv, Peers, Entry
  <2>2. \A e \in theirs : e \in Entry BY <2>1, EntryIs
  <2> QED BY <2>2 DEF Entry
<1>10. ack = "PubComp" => ~ Asked(toClient, i) /\ \A e \in theirs : e.phase = "PubRel"
  OBVIOUS
<1> HIDE DEF noted, c, x, theirs, count, known, known2, r, r2
<1>11. \A e \in theirs : EntryFits(e, known, r, Asked(toClient, i), count) /\ r.qos = e.qos
  BY <1>4 DEF Agree, EntryFits
<1>12. /\ Asked(Tail(toClient), i) => Asked(toClient, i)
       /\ ack = "PubAck" => ~ Asked(Tail(toClient), i)
  <2>1. Delivered(toClient, i, theirs, known) BY <1>4 DEF Agree
  <2> QED BY <1>1, <1>2, <2>1, DeliveredTail
<1>13. CASE incoming' = b /\ UNCHANGED <<toBroker, toClient>>
  <2>1. Agree(i, Entries(brokerOut', i), known, r, toClient', toBroker', count)
    BY <1>4, <1>7, <1>13
  <2>2. MessageFits(i)' BY <1>13, <2>1 DEF MessageFits, known, r, count
  <2>3. Beside(incoming, incoming', i) /\ DOMAIN incoming' = DOMAIN incoming BY <1>13
  <2>4. InInv' BY <1>1, <1>2, <1>7, <1>13, <2>2, <2>3, OneMessage
  <2> QED BY <1>4, <1>5, <1>13, <2>3, <2>4 DEF known, r
<1>14. CASE /\ incoming' = c /\ toBroker' = Append(toBroker, x)
            /\ toClient' = IF noted.status = "Ok" THEN Tail(toClient) ELSE toClient
  <2>1. toClient' = toClient \/ (toClient # <<>> /\ toClient' = Tail(toClient)) BY <1>1, <1>14
  <2>2. (Asked(toClient', i) => Asked(toClient, i)) /\ (ack = "PubAck" => ~ Asked(toClient', i))
    BY <1>3, <1>12, <1>14
  <2>3. ASSUME NEW e \in theirs
        PROVE  /\ EntryFits(e, known2, r2, Asked(toClient', i), count)
               /\ ReceiptFits(x, e, known2, Asked(toClient', i), count)
    <3>1. EntryFits(e, known, r, Asked(toClient, i), count) /\ r.qos = e.qos BY <1>11
    <3>2. CASE ack = "PubAck"
      BY <1>3, <1>5, <1>6, <1>8, <1>9, <2>2, <3>1, <3>2 DEF EntryFits, ReceiptFits
    <3>3. CASE ack = "PubRec"
      BY <1>3, <1>4, <1>5, <1>6, <1>8, <1>9, <2>2, <3>1, <3>3 DEF EntryFits, ReceiptFits
    <3>4. CASE ack = "PubComp"
      BY <1>3, <1>5, <1>6, <1>8, <1>9, <1>10, <2>2, <3>1, <3>4 DEF EntryFits, ReceiptFits
    <3> QED BY <1>3, <3>2, <3>3, <3>4 DEF Receipts
  <2>4. Agree(i, theirs, known2, r2, toClient', Append(toBroker, x), count)
    <3>1. PICK t : t = toClient' OBVIOUS
    <3>2. \A e \in theirs : /\ EntryFits(e, known2, r2, Asked(t, i), count)
                            /\ ReceiptFits(x, e, known2, Asked(t, i), count)
      BY <2>3, <3>1
    <3>3. t = toClient \/ (toClient # <<>> /\ t = Tail(toClient)) BY <2>1, <3>1
    <3>4. Agree(i, theirs, known2, r2, t, Append(toBroker, x), count)
      BY <1>2, <1>4, <1>6, <3>2, <3>3, AgreeReceipted
    <3> QED BY <3>1, <3>4
  <2>5. Agree(i, Entries(brokerOut', i), known2, r2, toClient', toBroker', count)
    BY <1>7, <1>14, <2>4
  <2>6. MessageFits(i)' BY <1>14, <2>5 DEF MessageFits, known2, r2, count
  <2>7. Beside(incoming, incoming', i) /\ DOMAIN incoming' = DOMAIN incoming
    BY <1>3, <1>14 DEF Beside
  <2>8. InInv' BY <1>1, <1>2, <1>6, <1>7, <1>14, <2>1, <2>6, <2>7, OneMessage
  <2> QED BY <1>3, <1>14, <2>7, <2>8 DEF known2, r2
<1>15. ASSUME NEW o \in AckOutcomes(b, acks, i, ack), incoming' = o.records, Answered(o)
       PROVE  \/ incoming' = b /\ UNCHANGED <<toBroker, toClient>>
              \/ /\ incoming' = c /\ toBroker' = Append(toBroker, x)
                 /\ toClient' = IF noted.status = "Ok" THEN Tail(toClient) ELSE toClient
  <2>1. OnWire(<<x>>) = Append(toBroker, x) /\ OnWire(<<>>) = toBroker
    BY <1>1, <1>2, <1>6, OnWireOf
  <2>2. AckDone(o, b, acks, i, ack) \/ AckNotDone(o, b, acks, i, ack) BY AckOutcomeCases
  <2>3. CASE AckNotDone(o, b, acks, i, ack)
    BY <1>15, <2>1, <2>3 DEF AckNotDone, Answered
  <2>4. CASE AckDone(o, b, acks, i, ack)
    BY <1>15, <2>1, <2>4 DEF AckDone, Answered, c, noted, x
  <2> QED BY <2>2, <2>3, <2>4
<1> QED BY <1>13, <1>14, <1>15

\* A PUBREC in the store stays with its record.
LEMMA HeldStays ==
  ASSUME RecHeld, NEW i, Beside(incoming, incoming', i),
         \A y \in PacketIds : y # i => keptAck'[y] = keptAck[y],
         keptAck'[i] = "PubRec" =>
           HasStore /\ i \in IdsIn(incoming') /\ RecordOf(incoming', i).qos = 2
  PROVE  RecHeld'
BY DEF RecHeld, Beside

\* A PUBLISH: it finds no room and nothing happens, or there is a record from
\* now on, and the application is told unless it has been.
LEMMA HandlePublishIn ==
  ASSUME Inv, InInv, HandlePublish
  PROVE  InInv' /\ (RecHeld => RecHeld')
<1> DEFINE p        == Head(toClient)
           q        == p.qos
           received == UpdatePublishReceive(incoming, p.id, q)
           b        == received.records
           ack      == IF q = 1 THEN "PubAck" ELSE "PubRec"
<1>1. PICK i : i = Head(toClient).id OBVIOUS
<1>2. /\ linkUp /\ toClient # <<>> /\ i \in PacketIds /\ p.type = "Publish" /\ p.id = i
      /\ status # "NotConnected" /\ Receiving(Deliveries)
  <2>1. Receiving({"Publish"}) BY DEF HandlePublish
  <2>2. Receiving(Deliveries) BY <2>1 DEF Receiving, Deliveries
  <2> QED BY <1>1, <2>1, <2>2, HeadIs DEF Inv
<1>3. /\ UNCHANGED brokerOut
      /\ \/ /\ received.status \notin {"Ok", "StateCollision"}
            /\ incoming' = b /\ UNCHANGED <<status, toBroker, toClient, told, keptAck>>
         \/ /\ received.status \in {"Ok", "StateCollision"}
            /\ told' = IF received.status = "Ok" \/ q = 1 THEN Once(told, i) ELSE told
            /\ \/ incoming' = b /\ UNCHANGED <<status, toBroker, toClient, keptAck>>
               \/ \E o \in AckOutcomes(b, keptAck, i, ack) : incoming' = o.records /\ Answered(o)
  BY <1>1 DEF HandlePublish, Tolerated, TellsApplication, broker, store
<1> DEFINE theirs == Entries(brokerOut, i)
           known  == i \in IdsIn(incoming)
           r      == RecordOf(incoming, i)
<1>4. Agree(i, theirs, known, r, toClient, toBroker, told[i]) BY <1>2 DEF InInv, MessageFits
<1> HIDE DEF known, r
<1>5. /\ Asked(toClient, i) /\ theirs # {} /\ q \in {1, 2}
      /\ \A e \in theirs : e.qos = q /\ e.phase \in {"Publish", "PubRel"}
      /\ \A e \in theirs : EntryFits(e, known, r, Asked(toClient, i), told[i])
  <2>1. toClient \in Seq(Packets) /\ brokerOut \in Seq(Entry) BY DEF Inv, Links, Peers, Entry
  <2>2. \A e \in theirs : e \in Entry BY <2>1, EntryIs
  <2> HIDE DEF theirs
  <2>3. Delivered(toClient, i, theirs, known)
        /\ \A e \in theirs : EntryFits(e, known, r, Asked(toClient, i), told[i])
    BY <1>4 DEF Agree
  <2>4. Asked(toClient, i) BY <1>2, <2>1, <2>3, DeliveredTail
  <2>5. 1 \in DOMAIN toClient /\ toClient[1] = p BY <1>2, <2>1, TailPlaces
  <2>6. theirs # {} /\ \A e \in theirs : e.qos = q BY <1>2, <2>3, <2>5 DEF Delivered
  <2> QED BY <2>2, <2>3, <2>4, <2>6 DEF Entry
<1> HIDE DEF theirs
<1>6. /\ GoodIn(b) /\ DOMAIN b = DOMAIN incoming
      /\ \/ /\ received.status = "Ok" /\ i \notin IdsIn(incoming)
            /\ Recorded(incoming, b, Record(i, q, CalculateStatePublish("Receive", q)))
         \/ /\ received.status = "StateCollision" /\ i \in IdsIn(incoming)
            /\ SameRecords(incoming, b)
         \/ received.status = "NoMemory" /\ SameRecords(incoming, b)
  BY <1>2, <1>5, ReceiveCases, SessionAssumption DEF Inv, GoodIn
<1> DEFINE new  == Record(i, q, CalculateStatePublish("Receive", q))
           stat == received.status
<1>7. new.packet_id = i /\ new.qos = q BY DEF Record
<1> HIDE DEF p, q, b, new, stat, received
<1>8. /\ told \in [PacketIds -> 0..2] /\ keptAck \in [PacketIds -> {"None", "PubRec", "PubRel"}]
  BY DEF Inv, Peers, Kept
<1>9. /\ \A y \in PacketIds : y # i => keptAck'[y] = keptAck[y]
      /\ keptAck'[i] # keptAck[i] => HasStore /\ q = 2
  <2>1. ASSUME NEW o \in AckOutcomes(b, keptAck, i, ack)
        PROVE  o.acks \in {keptAck, KeptAs(keptAck, i, ack)}
    <3>1. AckDone(o, b, keptAck, i, ack) \/ AckNotDone(o, b, keptAck, i, ack)
      BY AckOutcomeCases
    <3> QED BY <3>1 DEF AckDone, AckNotDone
  <2>2. keptAck' \in {keptAck, KeptAs(keptAck, i, ack)} BY <1>3, <2>1 DEF Answered
  <2> QED BY <1>2, <1>5, <1>8, <2>2 DEF KeptAs
<1>10. CASE stat \notin {"Ok", "StateCollision"}
  <2>1. /\ SameRecords(incoming, b) /\ incoming' = b
        /\ UNCHANGED <<status, toBroker, toClient, told, brokerOut, keptAck>>
    BY <1>3, <1>6, <1>10 DEF stat
  <2>2. Beside(incoming, incoming', i) /\ DOMAIN incoming' = DOMAIN incoming
    BY <1>6, <2>1 DEF SameRecords, Beside
  <2>3. /\ i \in IdsIn(incoming') <=> i \in IdsIn(incoming)
        /\ i \in IdsIn(incoming) => RecordOf(incoming', i) = RecordOf(incoming, i)
    BY <2>1 DEF SameRecords
  <2>4. MessageFits(i)'
    <3>1. MessageFits(i) BY <1>2 DEF InInv
    <3>2. Passed(toClient, toClient', Deliveries, i) /\ Passed(toBroker, toBroker', Receipts, i)
      BY <2>1 DEF Passed
    <3> QED BY <1>2, <2>1, <2>3, <3>1, <3>2, MessageStays DEF Inv
  <2>5. InInv' BY <1>2, <2>1, <2>2, <2>4, OneMessage DEF Inv
  <2>6. RecHeld => RecHeld' BY <2>1, <2>2, <2>3 DEF RecHeld, Beside
  <2> QED BY <2>5, <2>6
<1>11. CASE stat \in {"Ok", "StateCollision"}
  <2>1. told' = IF stat = "Ok" \/ q = 1 THEN Once(told, i) ELSE told
    BY <1>3, <1>11 DEF stat
  <2>2. /\ \A y \in PacketIds : y # i => told'[y] = told[y]
        /\ told'[i] \in 0..2
        /\ stat = "Ok" \/ q = 1 => told'[i] > 0 /\ (told[i] = 0 => told'[i] = 1)
        /\ stat # "Ok" /\ q = 2 => told'[i] = told[i]
    BY <1>2, <1>5, <1>8, <2>1, OnceIs
  <2>3. i \in IdsIn(b) /\ Beside(incoming, b, i)
    <3>1. CASE stat = "Ok"
      <4>1. Recorded(incoming, b, new) BY <1>6, <3>1 DEF stat, new
      <4> QED BY <1>7, <4>1 DEF Recorded, Beside
    <3>2. CASE stat = "StateCollision"
      <4>1. SameRecords(incoming, b) /\ i \in IdsIn(incoming) BY <1>6, <3>2 DEF stat
      <4> QED BY <4>1 DEF SameRecords, Beside
    <3> QED BY <1>11, <3>1, <3>2
  <2> DEFINE known2 == i \in IdsIn(b)
             r2     == RecordOf(b, i)
             count2 == told'[i]
  <2>4. /\ known2 /\ r2.qos = q /\ count2 > 0
        /\ \A e \in theirs : EntryFits(e, known2, r2, TRUE, count2)
    <3>0. told[i] \in 0..2 BY <1>2, <1>8
    <3>1. CASE stat = "Ok"
      <4>1. r2 = new /\ ~ known BY <1>6, <1>7, <3>1 DEF stat, new, Recorded, known
      <4>2. q = 2 => told[i] = 0 /\ \A e \in theirs : e.phase = "Publish"
        BY <1>5, <3>0, <4>1 DEF EntryFits
      <4>3. q = 2 => count2 = 1 BY <2>2, <3>1, <4>2
      <4>4. q = 1 => \A e \in theirs : e.phase = "Publish" BY <1>5 DEF EntryFits
      <4>5. count2 > 0 BY <2>2, <3>1
      <4> QED BY <1>5, <1>7, <2>3, <4>1, <4>2, <4>3, <4>4, <4>5 DEF EntryFits
    <3>2. CASE stat = "StateCollision"
      <4>1. known /\ r2 = r BY <1>6, <3>2 DEF stat, SameRecords, known, r
      <4>2. q = 2 => count2 = told[i] BY <2>2, <3>2
      <4>3. q = 2 => told[i] = 1 BY <1>5, <4>1 DEF EntryFits
      <4>4. q = 1 => count2 > 0 BY <2>2
      <4>5. r2.qos = q BY <1>5, <4>1 DEF EntryFits
      <4>6. count2 > 0 BY <1>5, <4>2, <4>3, <4>4
      <4>7. q = 1 => \A e \in theirs : e.phase = "Publish" BY <1>5 DEF EntryFits
      <4>8. known2 BY <2>3
      <4> HIDE DEF count2, known2, r2
      <4> QED BY <1>5, <4>2, <4>3, <4>5, <4>6, <4>7, <4>8 DEF EntryFits
    <3> QED BY <1>11, <3>1, <3>2
  <2>5. Agree(i, theirs, known2, r2, toClient, toBroker, count2)
    <3> HIDE DEF known2, r2, count2
    <3>1. toClient \in Seq(Packets) BY DEF Inv, Links
    <3> QED BY <1>2, <1>4, <1>5, <2>4, <3>1, AgreeNoted DEF p
  <2>6. Due(ack, r2) BY <1>5, <2>4 DEF Due
  <2>7. /\ UNCHANGED brokerOut
        /\ \/ incoming' = b /\ UNCHANGED <<status, toBroker, toClient>>
           \/ \E o \in AckOutcomes(b, keptAck, i, ack) : incoming' = o.records /\ Answered(o)
    BY <1>3, <1>11 DEF stat
  <2>8. ack # "PubComp" /\ (ack = "PubRec" <=> q = 2) BY <1>5
  <2> HIDE DEF ack
  <2>9. /\ InInv' /\ Beside(incoming, incoming', i)
        /\ ack = "PubRec" => i \in IdsIn(incoming') /\ RecordOf(incoming', i).qos = 2
    BY <1>1, <1>2, <1>5, <1>6, <2>2, <2>3, <2>4, <2>5, <2>6, <2>7, <2>8, AcknowledgedIn
    DEF theirs, p
  <2>10. ASSUME RecHeld PROVE RecHeld'
    <3>1. ASSUME keptAck'[i] = "PubRec" PROVE HasStore /\ q = 2
      <4>1. CASE keptAck'[i] # keptAck[i] BY <1>9, <4>1
      <4>2. CASE keptAck'[i] = keptAck[i]
        <5>1. HasStore /\ known /\ r.qos = 2
          BY <1>2, <2>10, <3>1, <4>2 DEF RecHeld, known, r
        <5> QED BY <1>5, <5>1 DEF EntryFits
      <4> QED BY <4>1, <4>2
    <3> QED BY <1>9, <2>8, <2>9, <2>10, <3>1, HeldStays
  <2> QED BY <2>9, <2>10
<1> QED BY <1>10, <1>11

\* A PUBREL: it is not the one waited for and nothing happens, or the record
\* is ready for the PUBCOMP.
LEMMA HandlePubRelIn ==
  ASSUME Inv, InInv, HandlePublishAck, Head(toClient).type = "PubRel"
  PROVE  InInv' /\ (RecHeld => RecHeld')
<1> DEFINE p        == Head(toClient)
           received == UpdateAckIn(incoming, p.id, p.type, "Receive")
           b        == received.records
           acks     == StillKeptAck(p.id, p.type)
<1>1. PICK i : i = Head(toClient).id OBVIOUS
<1>2. /\ linkUp /\ toClient # <<>> /\ i \in PacketIds /\ p.type = "PubRel" /\ p.id = i
      /\ status # "NotConnected" /\ Receiving(Deliveries)
  <2>1. Receiving(AckTypes) BY DEF HandlePublishAck
  <2>2. Receiving(Deliveries) BY <2>1 DEF Receiving, Deliveries
  <2> QED BY <1>1, <2>1, <2>2, HeadIs DEF Inv
<1>3. ~ IsPublishOutgoing(p.type, "Receive") BY DEF IsPublishOutgoing
<1>4. /\ UNCHANGED <<brokerOut, told>>
      /\ \/ /\ received.status # "Ok"
            /\ incoming' = b /\ UNCHANGED <<status, toBroker, toClient, keptAck>>
         \/ /\ received.status = "Ok"
            /\ \/ incoming' = b /\ keptAck' = acks /\ UNCHANGED <<status, toBroker, toClient>>
               \/ \E o \in AckOutcomes(b, acks, i, "PubComp") : incoming' = o.records /\ Answered(o)
  BY <1>1, <1>3 DEF HandlePublishAck, Install, broker, store
<1>5. /\ GoodIn(b) /\ DOMAIN b = DOMAIN incoming
      /\ \/ received.status # "Ok" /\ b = incoming
         \/ /\ received.status = "Ok" /\ i \in IdsIn(incoming)
            /\ RecordOf(incoming, i).qos = 2
            /\ \/ b = incoming /\ RecordOf(incoming, i).state = "PubCompSend"
               \/ /\ RecordOf(incoming, i).state = "PubRelPending"
                  /\ Recorded(incoming, b, [RecordOf(incoming, i) EXCEPT !.state = "PubCompSend"])
  <2>0. PICK ack : ack = "PubRel" OBVIOUS
  <2> DEFINE r     == UpdateAckIn(incoming, i, ack, "Receive")
             found == RecordOf(incoming, i)
  <2>1. ack \in AckTypes /\ "Receive" \in Operations /\ ~ IsPublishOutgoing(ack, "Receive")
    BY <2>0 DEF AckTypes, Operations, IsPublishOutgoing
  <2>2. /\ Good(r.records, InSlots, IncomingStates) /\ DOMAIN r.records = DOMAIN incoming
        /\ \/ /\ r.status # "Ok" /\ r.records = incoming
              /\ i \in IdsIn(incoming) =>
                   <<ack, found.state>> \notin
                     {<<"PubAck", "PubAckSend">>, <<"PubRec", "PubRecSend">>,
                      <<"PubRec", "PubRelPending">>, <<"PubRel", "PubRelPending">>,
                      <<"PubRel", "PubCompSend">>, <<"PubComp", "PubCompSend">>}
           \/ /\ r.status = "Ok" /\ i \in IdsIn(incoming)
              /\ \/ ack = "PubAck" /\ found.qos = 1 /\ found.state = "PubAckSend"
                 \/ ack = "PubComp" /\ found.qos = 2 /\ found.state = "PubCompSend"
              /\ Forgotten(incoming, r.records, i)
           \/ /\ r.status = "Ok" /\ i \in IdsIn(incoming) /\ found.qos = 2
              /\ r.records = incoming
              /\ \/ ack = "PubRec" /\ found.state = "PubRelPending"
                 \/ ack = "PubRel" /\ found.state = "PubCompSend"
           \/ /\ r.status = "Ok" /\ i \in IdsIn(incoming) /\ found.qos = 2
              /\ \/ /\ ack = "PubRec" /\ found.state = "PubRecSend"
                    /\ Recorded(incoming, r.records, [found EXCEPT !.state = "PubRelPending"])
                 \/ /\ ack = "PubRel" /\ found.state = "PubRelPending"
                    /\ Recorded(incoming, r.records, [found EXCEPT !.state = "PubCompSend"])
    BY <1>2, <2>1, IncomingAcks, SessionAssumption DEF Inv, GoodIn
  <2>3. received = r BY <1>2, <2>0
  <2> HIDE DEF r, found, received
  <2> QED BY <2>0, <2>2, <2>3 DEF GoodIn, found
<1> DEFINE old    == RecordOf(incoming, i)
           new    == [old EXCEPT !.state = "PubCompSend"]
           theirs == Entries(brokerOut, i)
           known  == i \in IdsIn(incoming)
<1>6. i \in IdsIn(incoming) => /\ new.packet_id = i /\ new.qos = old.qos
                              /\ new.state = "PubCompSend"
  <2>1. ASSUME i \in IdsIn(incoming) PROVE old \in Slots /\ old.packet_id = i
    BY <2>1, ById, SessionAssumption DEF Inv, GoodIn
  <2> QED BY <2>1 DEF Slots
<1>7. /\ Agree(i, theirs, known, old, toClient, toBroker, told[i]) /\ told[i] \in 0..2
      /\ toClient \in Seq(Packets)
  BY <1>2 DEF InInv, MessageFits, Inv, Peers, Links
<1> HIDE DEF received, b, acks, new, known, theirs
<1>8. CASE received.status # "Ok"
  <2>1. UNCHANGED <<status, incoming, brokerOut, told, toBroker, toClient, keptAck>>
    BY <1>4, <1>5, <1>8
  <2>2. \A id : /\ Passed(toClient, toClient', Deliveries, id)
               /\ Passed(toBroker, toBroker', Receipts, id)
    BY <2>1 DEF Passed
  <2>3. InInv' BY <2>1, <2>2, AsideIn DEF Inv
  <2>4. RecHeld => RecHeld' BY <2>1 DEF RecHeld
  <2> QED BY <2>3, <2>4
<1>9. CASE received.status = "Ok"
  <2>1. /\ i \in IdsIn(incoming) /\ old.qos = 2
        /\ \/ b = incoming /\ old.state = "PubCompSend"
           \/ old.state = "PubRelPending" /\ Recorded(incoming, b, new)
    BY <1>5, <1>9 DEF new
  <2>2. /\ i \in IdsIn(b) /\ Beside(incoming, b, i)
        /\ RecordOf(b, i).qos = 2 /\ RecordOf(b, i).state = "PubCompSend"
    BY <1>6, <2>1 DEF Recorded, Beside
  <2> DEFINE known2 == i \in IdsIn(b)
             r2     == RecordOf(b, i)
  <2>3. known /\ known2 /\ r2.qos = old.qos BY <2>1, <2>2 DEF known
  <2>4. Due("PubComp", r2) BY <2>2 DEF Due
  <2> HIDE DEF known2, r2, old
  <2>5. Agree(i, theirs, known2, r2, toClient, toBroker, told[i])
    BY <1>7, <2>3 DEF Agree, EntryFits, Delivered, Replied, ReceiptFits
  <2>6. /\ theirs # {} /\ ~ Asked(toClient, i) /\ \A e \in theirs : e.phase = "PubRel"
        /\ told[i] > 0
    <3>1. /\ theirs # {} /\ Delivered(toClient, i, theirs, known)
          /\ \A e \in theirs : EntryFits(e, known, old, Asked(toClient, i), told[i])
      BY <1>7, <2>3 DEF Agree
    <3>2. 1 \in DOMAIN toClient /\ toClient[1] = p BY <1>2, <1>7, TailPlaces
    <3>3. ~ Behind(toClient, 1, i) /\ \A e \in theirs : e.phase = "PubRel"
      BY <1>2, <2>3, <3>1, <3>2 DEF Delivered
    <3>4. ~ Asked(toClient, i) BY <1>2, <1>7, <3>1, <3>3, DeliveredTail
    <3>5. told[i] > 0 BY <3>1, <3>3 DEF EntryFits
    <3> QED BY <3>1, <3>3, <3>4, <3>5
  <2>7. /\ UNCHANGED brokerOut
        /\ \A y \in PacketIds : y # i => told'[y] = told[y]
        /\ told'[i] = told[i]
        /\ \/ incoming' = b /\ UNCHANGED <<status, toBroker, toClient>>
           \/ \E o \in AckOutcomes(b, acks, i, "PubComp") : incoming' = o.records /\ Answered(o)
    BY <1>4, <1>9
  <2>8. /\ InInv' /\ Beside(incoming, incoming', i)
    BY <1>1, <1>2, <1>5, <1>7, <2>2, <2>4, <2>5, <2>6, <2>7, AcknowledgedIn
    DEF theirs, known2, r2
  <2>9. keptAck' = acks
    <3>1. ASSUME NEW o \in AckOutcomes(b, acks, i, "PubComp") PROVE o.acks = acks
      <4>1. AckDone(o, b, acks, i, "PubComp") \/ AckNotDone(o, b, acks, i, "PubComp")
        BY AckOutcomeCases
      <4> QED BY <4>1 DEF AckDone, AckNotDone, KeptAs
    <3> QED BY <1>4, <1>9, <3>1 DEF Answered
  <2>10. ASSUME RecHeld PROVE RecHeld'
    <3>1. keptAck \in [PacketIds -> {"None", "PubRec", "PubRel"}] BY DEF Inv, Kept
    <3>2. /\ \A y \in PacketIds : y # i => keptAck'[y] = keptAck[y]
          /\ keptAck'[i] # "PubRec"
      BY <1>2, <2>9, <2>10, <3>1 DEF acks, StillKeptAck, RecHeld
    <3> QED BY <2>8, <2>10, <3>2, HeldStays
  <2> QED BY <2>8, <2>10
<1> QED BY <1>8, <1>9

---------------------------------------------------------------------------
(* A new connection. *)

\* What a resumption sends is a PUBLISH or a PUBREL of the client's own, or a
\* PUBREC that took a PUBREL's place in the store: the message that is of has
\* reached the application.
LEMMA ResentReceipts ==
  ASSUME Inv, HasStore => NoneReceived \/ NoneSent \/ RecHeld, NEW a, GoodOut(a),
         SomeOf(outgoing, a), NEW n \in 0..Len(Rels(a)) + Len(Pubs(a)), Resent(a, n)
  PROVE  \A k \in DOMAIN toBroker' : toBroker'[k].type \in Receipts =>
           /\ toBroker'[k].type = "PubRec" /\ toBroker'[k].id \in IdsIn(incoming)
           /\ RecordOf(incoming, toBroker'[k].id).qos = 2
<1>1. /\ DOMAIN toBroker' = 1..n
      /\ \A k \in 1..n :
           /\ k <= Len(Rels(a)) =>
                /\ toBroker'[k].id = Rels(a)[k] /\ toBroker'[k].id \in IdsIn(a)
                /\ RecordOf(a, toBroker'[k].id).state \in PubRelToResendStates
           /\ k > Len(Rels(a)) => toBroker'[k].type = "Publish"
  BY ResentWires DEF Inv
<1>2. ASSUME NEW k \in 1..n, toBroker'[k].type \in Receipts
      PROVE  /\ toBroker'[k].type = "PubRec" /\ toBroker'[k].id \in IdsIn(incoming)
             /\ RecordOf(incoming, toBroker'[k].id).qos = 2
  <2>1. CASE k > Len(Rels(a)) BY <1>1, <1>2, <2>1 DEF Receipts
  <2>2. CASE k <= Len(Rels(a))
    <3> DEFINE id == Rels(a)[k]
    <3>1. /\ id \in IdsIn(a) /\ RecordOf(a, id).state \in PubRelToResendStates
          /\ toBroker'[k].id = id
      BY <1>1, <2>2
    <3>2. /\ toBroker'[k] = RelPacket(id)
          /\ HasStore => keptAck[id] # "None"
      BY <2>2 DEF Resent
    <3>3. /\ id \in PacketIds /\ RecordOf(a, id).qos = 2
          /\ id \in IdsIn(outgoing) /\ RecordOf(outgoing, id).qos = 2
      BY <3>1, OutRecord DEF SomeOf
    <3>4. keptAck[id] \in {"None", "PubRec", "PubRel"} BY <3>3 DEF Inv, Kept
    <3> HIDE DEF id
    <3>5. toBroker'[k].type = IF HasStore THEN keptAck[id] ELSE "PubRel"
      BY <3>2 DEF RelPacket, Packet
    <3>6. HasStore /\ keptAck[id] = "PubRec" BY <1>2, <3>4, <3>5 DEF Receipts
    <3>7. ~ NoneSent /\ ~ NoneReceived BY <3>3, <3>6 DEF NoneSent, NoneReceived
    <3>8. RecHeld BY <3>6, <3>7
    <3> QED BY <3>1, <3>3, <3>5, <3>6, <3>8 DEF RecHeld
  <2>3. Len(Rels(a)) \in Nat
    <3>1. Rels(a) \in Seq(PacketIds) BY OwedIs, StateSets, SessionAssumption DEF GoodOut, Rels
    <3> QED BY <3>1, LenProperties
  <2> QED BY <2>1, <2>2, <2>3
<1> QED BY <1>1, <1>2

\* What the broker repeats is what it remembers to be next.
LEMMA RepeatedDeliveries ==
  ASSUME NEW t, t = [k \in DOMAIN brokerOut |->
           Packet(brokerOut[k].phase, brokerOut[k].id,
                  IF brokerOut[k].phase = "PubRel" THEN 0 ELSE brokerOut[k].qos)],
         Peers, OneOf(brokerOut), NEW id, NEW known
  PROVE  /\ Delivered(t, id, Entries(brokerOut, id), known)
         /\ Asked(t, id) => \A e \in Entries(brokerOut, id) : e.phase = "Publish"
<1> DEFINE theirs == Entries(brokerOut, id)
<1>1. brokerOut \in Seq(Entry) BY DEF Peers, Entry
<1>2. /\ DOMAIN t = DOMAIN brokerOut
      /\ \A k \in DOMAIN t : /\ t[k].id = brokerOut[k].id /\ t[k].type = brokerOut[k].phase
                             /\ t[k].type = "Publish" => t[k].qos = brokerOut[k].qos
  BY DEF Packet
<1>3. ASSUME NEW k \in DOMAIN t, t[k].id = id
      PROVE  /\ \A e \in theirs : e = brokerOut[k]
             /\ theirs # {}
             /\ \A n \in DOMAIN t : t[n].id = id => n = k
  <2>1. brokerOut[k] \in theirs /\ \A d, e \in theirs : d = e BY <1>1, <1>2, <1>3, EntryIs
  <2>2. \A n \in DOMAIN t : t[n].id = id => n = k BY <1>2, <1>3 DEF OneOf
  <2> QED BY <2>1, <2>2
<1> HIDE DEF theirs
<1>4. ASSUME NEW k \in DOMAIN t, t[k].type = "PubRel", t[k].id = id
      PROVE  ~ Behind(t, k, id) /\ \A e \in theirs : e.phase = "PubRel"
  BY <1>2, <1>3, <1>4 DEF Behind
<1>5. Delivered(t, id, theirs, known) BY <1>2, <1>3, <1>4 DEF Delivered
<1>6. Asked(t, id) => \A e \in theirs : e.phase = "Publish" BY <1>2, <1>3 DEF Asked
<1> QED BY <1>5, <1>6 DEF theirs

\* A message after a resumption.
LEMMA AgreeResumed ==
  ASSUME NEW id, NEW theirs, NEW known, NEW r, NEW c, NEW b, NEW count \in 0..2,
         Agree(id, theirs, known, r, c, b, count),
         \A e \in theirs : e.phase \in {"Publish", "PubRel"},
         NEW known2, NEW r2, known2 <=> known, known => r2 = r,
         NEW c2, Delivered(c2, id, theirs, known2),
         Asked(c2, id) => \A e \in theirs : e.phase = "Publish",
         NEW b2, \A k \in DOMAIN b2 : b2[k].type \in Receipts /\ b2[k].id = id =>
                   b2[k].type = "PubRec" /\ known /\ r.qos = 2
  PROVE  Agree(id, theirs, known2, r2, c2, b2, count)
<1>1. /\ theirs = {} => ~ known
      /\ \A e \in theirs : EntryFits(e, known, r, Asked(c, id), count)
  BY DEF Agree
<1>2. ASSUME NEW e \in theirs PROVE EntryFits(e, known2, r2, Asked(c2, id), count)
  <2>1. EntryFits(e, known, r, Asked(c, id), count) BY <1>1
  <2> QED BY <2>1 DEF EntryFits
<1>3. known /\ r.qos = 2 => \A e \in theirs : e.qos = 2 /\ count > 0 BY <1>1 DEF EntryFits
<1>4. Replied(b2, id, theirs, known2, Asked(c2, id), count)
  <2>1. ASSUME NEW k \in DOMAIN b2, b2[k].type \in Receipts, b2[k].id = id
        PROVE  theirs # {} /\ \A e \in theirs : ReceiptFits(b2[k], e, known2, Asked(c2, id), count)
    <3>1. b2[k].type = "PubRec" /\ known /\ r.qos = 2 BY <2>1
    <3> QED BY <1>1, <1>3, <3>1 DEF ReceiptFits
  <2>2. ASSUME NEW k \in DOMAIN b2, NEW n \in DOMAIN b2, k < n, b2[k].id = id, b2[n].id = id
        PROVE  ~ (b2[k].type \in {"PubAck", "PubComp"} /\ b2[n].type \in Receipts)
    BY <2>2 DEF Receipts
  <2> QED BY <2>1, <2>2 DEF Replied
<1> QED BY <1>1, <1>2, <1>4 DEF Agree

\* A clean session starts both halves anew; a resumed one cuts no record of
\* the client's and repeats what the broker remembers.
LEMMA ConnectIn ==
  ASSUME Inv, InInv, HasStore => NoneReceived \/ NoneSent \/ RecHeld, Connect
  PROVE  InInv' /\ (RecHeld /\ ~ May("CleanSession") => RecHeld')
<1>1. PICK m \in ReceiveMaxes :
        \/ May("CleanSession") /\ CleanSession(CapTo(outgoing, m))
        \/ Resumption(CapTo(outgoing, m))
  BY DEF Connect
<1>2. PICK a : a = CapTo(outgoing, m) OBVIOUS
<1>3. PICK b : b = CapTo(incoming, InQuota) OBVIOUS
<1>4. GoodOut(a) /\ SomeOf(outgoing, a)
  <2>1. m \in Nat /\ OutSlots \in Nat BY SessionAssumption
  <2> QED BY <1>2, <2>1, CapById DEF Inv, GoodOut
<1>5. /\ SomeOf(incoming, b) /\ DOMAIN b = {i \in DOMAIN incoming : i <= InQuota}
  <2>1. InQuota \in Nat /\ InSlots \in Nat BY SessionAssumption
  <2> QED BY <1>3, <2>1, CapById DEF Inv, GoodIn
<1>6. SameRecords(incoming, b)
  <2>1. CASE IdsIn(incoming) = {} BY <1>5, <2>1 DEF SomeOf, SameRecords
  <2>2. CASE IdsIn(incoming) # {}
    <3>1. \A i \in DOMAIN incoming : i <= InQuota BY <2>2 DEF InInv, Trimmed
    <3>2. b = incoming BY <1>3, <3>1, CapKeeps, SessionAssumption DEF Inv, GoodIn
    <3> QED BY <3>2 DEF SameRecords
  <2> QED BY <2>1, <2>2
<1>7. ASSUME DOMAIN incoming' = DOMAIN b PROVE Trimmed'
  BY <1>5, <1>7 DEF InInv, Trimmed
<1>8. CASE May("CleanSession") /\ CleanSession(a)
  <2>1. /\ incoming' = Clear(b) /\ brokerOut' = <<>> /\ toBroker' = <<>> /\ toClient' = <<>>
    BY <1>3, <1>8 DEF CleanSession
  <2>2. IdsIn(incoming') = {} /\ DOMAIN incoming' = DOMAIN b BY <2>1, ClearIds
  <2>3. \A id \in PacketIds : MessageFits(id)'
    BY <2>1, <2>2, NothingPassed, EntriesNone DEF MessageFits, Agree
  <2>4. OneOf(brokerOut') /\ Len(brokerOut') <= InQuota
    BY <2>1, EntriesNone, SessionAssumption
  <2> QED BY <1>7, <1>8, <2>2, <2>3, <2>4 DEF InInv
<1>9. CASE Resumption(a)
  <2>1. /\ incoming' = b /\ UNCHANGED <<brokerOut, keptAck>>
        /\ toClient' = [k \in DOMAIN brokerOut |->
             Packet(brokerOut[k].phase, brokerOut[k].id,
                    IF brokerOut[k].phase = "PubRel" THEN 0 ELSE brokerOut[k].qos)]
    BY <1>3, <1>9 DEF Resumption, broker, store
  <2>2. UNCHANGED told BY DEF Connect
  <2>3. \A k \in DOMAIN toBroker' : toBroker'[k].type \in Receipts =>
           /\ toBroker'[k].type = "PubRec" /\ toBroker'[k].id \in IdsIn(incoming)
           /\ RecordOf(incoming, toBroker'[k].id).qos = 2
    <3>1. PICK n \in 0..Len(Rels(a)) + Len(Pubs(a)) : Resumed(a, n)
      BY <1>4, <1>9, ResumedIs
    <3>2. Resent(a, n) BY <3>1 DEF Resumed
    <3> QED BY <1>4, <3>2, ResentReceipts
  <2>4. ASSUME NEW id \in PacketIds PROVE MessageFits(id)'
    <3> DEFINE known  == id \in IdsIn(incoming)
               known2 == id \in IdsIn(incoming')
               r      == RecordOf(incoming, id)
               r2     == RecordOf(incoming', id)
               theirs == Entries(brokerOut, id)
               count  == told[id]
    <3>1. PICK c2, b2 : c2 = toClient' /\ b2 = toBroker' OBVIOUS
    <3>2. Agree(id, theirs, known, r, toClient, toBroker, count) /\ count \in 0..2
      BY DEF InInv, MessageFits, Inv, Peers
    <3>3. (known2 <=> known) /\ (known => r2 = r)
      BY <1>6, <2>1 DEF SameRecords
    <3>4. /\ Delivered(c2, id, theirs, known2)
          /\ Asked(c2, id) => \A e \in theirs : e.phase = "Publish"
      BY <2>1, <3>1, RepeatedDeliveries DEF Inv, InInv
    <3>5. \A k \in DOMAIN b2 : b2[k].type \in Receipts /\ b2[k].id = id =>
                   b2[k].type = "PubRec" /\ known /\ r.qos = 2
      BY <2>3, <3>1
    <3>6. \A e \in theirs : e.phase \in {"Publish", "PubRel"}
      <4>1. brokerOut \in Seq(Entry) BY DEF Inv, Peers, Entry
      <4>2. \A e \in theirs : e \in Entry BY <4>1, EntryIs
      <4> QED BY <4>2 DEF Entry
    <3> HIDE DEF known, known2, r, r2, theirs, count
    <3>7. Agree(id, theirs, known2, r2, c2, b2, count)
      BY <3>2, <3>3, <3>4, <3>5, <3>6, AgreeResumed
    <3>8. Agree(id, Entries(brokerOut', id), known2, r2, toClient', toBroker', told'[id])
      BY <2>1, <2>2, <3>1, <3>7 DEF theirs, count
    <3> QED BY <3>8 DEF MessageFits, known2, r2
  <2>5. OneOf(brokerOut') /\ Len(brokerOut') <= InQuota BY <2>1 DEF InInv
  <2>6. InInv' BY <1>7, <2>1, <2>4, <2>5 DEF InInv
  <2>7. RecHeld => RecHeld' BY <1>6, <2>1 DEF RecHeld, SameRecords
  <2> QED BY <2>6, <2>7
<1> QED BY <1>1, <1>2, <1>8, <1>9

---------------------------------------------------------------------------
(* What holds of every behaviour. *)

\* A PUBREC is kept for none but an arriving PUBLISH.
LEMMA HeldAside ==
  ASSUME RecHeld, UNCHANGED incoming,
         \A id \in PacketIds : keptAck'[id] = "PubRec" => keptAck[id] = "PubRec"
  PROVE  RecHeld'
BY DEF RecHeld

\* Every action keeps the invariant, and the records of what is kept.
LEMMA NextIn ==
  ASSUME Inv, InInv, HasStore => NoneReceived \/ NoneSent \/ RecHeld, [Next]_vars
  PROVE  InInv' /\ (RecHeld /\ ~ May("CleanSession") => RecHeld')
<1>0. keptAck \in [PacketIds -> {"None", "PubRec", "PubRel"}] BY DEF Inv, Kept
<1>1. ASSUME NEW id \in PacketIds, NEW q \in {1, 2}, NEW dup \in BOOLEAN, Publish(id, q, dup)
      PROVE  InInv' /\ (RecHeld => RecHeld')
  <2>1. UNCHANGED <<incoming, keptAck>> BY <1>1 DEF Publish, store
  <2> QED BY <1>1, <2>1, PublishIn, HeldAside
<1>2. CASE PublishNew
  <2>1. PICK id \in PacketIds, q \in OutQoS : Publish(id, q, FALSE) BY <1>2 DEF PublishNew
  <2>2. q \in {1, 2} BY SessionAssumption
  <2> QED BY <1>1, <2>1, <2>2
<1>3. CASE PublishAgain
  <2>1. PICK id \in PacketIds, q \in {1, 2} : Publish(id, q, TRUE) BY <1>3, PublishAgainIs
  <2> QED BY <1>1, <2>1
<1>4. CASE \/ \E id \in PacketIds : Cancel(id)
           \/ Disconnect \/ HandleDisconnect \/ NoticeDrop \/ Drop \/ UNCHANGED vars
  <2>1. UNCHANGED <<incoming, keptAck>>
    BY <1>4 DEF Cancel, Disconnect, HandleDisconnect, NoticeDrop, Drop, vars, store
  <2> QED BY <1>4, <2>1, QuietIn, HeldAside
<1>5. CASE HandlePublishAck /\ Head(toClient).type # "PubRel"
  <2> DEFINE i == Head(toClient).id
  <2>1. i \in PacketIds BY <1>5, HeadIs DEF Inv, HandlePublishAck
  <2>2. AnswerStored(i, Head(toClient).type) BY <1>5, AnswerStoredIs
  <2>3. incoming' = incoming
    <3>1. Head(toClient).type \in AckTypes BY <1>5, HeadIs DEF Inv, HandlePublishAck
    <3>2. IsPublishOutgoing(Head(toClient).type, "Receive") BY <1>5, <3>1 DEF IsPublishOutgoing
    <3> QED BY <1>5, <3>2 DEF HandlePublishAck, Install
  <2> HIDE DEF i
  <2>4. \A id \in PacketIds : keptAck'[id] = "PubRec" => keptAck[id] = "PubRec"
    BY <1>0, <2>1, <2>2 DEF AnswerStored, PubRecTaken, StillKeptAck, KeptAs
  <2> QED BY <1>5, <2>3, <2>4, AnswerIn, HeldAside
<1>6. CASE BrokerStep
  <2>1. UNCHANGED <<incoming, keptAck>> BY <1>6 DEF BrokerStep, store
  <2>2. CASE BrokerReceives(Head(toBroker)) BY <1>6, <2>1, <2>2, BrokerReceivesIn, HeldAside
  <2>3. CASE BrokerIsAnswered(Head(toBroker)) BY <1>6, <2>1, <2>3, BrokerAnsweredIn, HeldAside
  <2> QED BY <1>6, <2>2, <2>3 DEF BrokerStep
<1>7. ASSUME NEW id \in PacketIds, NEW q \in InQoS, BrokerPublish(id, q)
      PROVE  InInv' /\ (RecHeld => RecHeld')
  <2>1. UNCHANGED <<incoming, keptAck>> BY <1>7 DEF BrokerPublish, store
  <2> QED BY <1>7, <2>1, BrokerPublishIn, HeldAside
<1>8. CASE HandlePublishAck /\ Head(toClient).type = "PubRel" BY <1>8, HandlePubRelIn
<1> QED
  BY <1>2, <1>3, <1>4, <1>5, <1>6, <1>7, <1>8, ConnectIn, HandlePublishIn DEF Next

\* Nothing is kept at first.
LEMMA InitHeld == Init => RecHeld
BY DEF Init, RecHeld

\* What the theorems ask: no clean session leaves a PUBREC in the store that is
\* sent, in a PUBREL's place, for a message that has just been published (README).
NoStrayPubRec == ~ HasStore \/ OneWayQoS2 \/ ~ May("CleanSession")

\* So the invariant holds.
LEMMA InHolds ==
  ASSUME NoStrayPubRec
  PROVE  Spec => [](Inv /\ InInv)
<1>1. Init => Inv /\ InInv /\ NoneReceived /\ NoneSent /\ RecHeld
  BY InitInv, InitIn, InitReceived, InitSent, InitHeld
<1>2. CASE ~ HasStore
  <2>1. Inv /\ InInv /\ [Next]_vars => (Inv /\ InInv)' BY <1>2, NextInv, NextIn
  <2> QED BY <1>1, <2>1, PTL DEF Spec
<1>3. CASE InQoS \subseteq {1}
  <2>1. Inv /\ InInv /\ NoneReceived /\ [Next]_vars => (Inv /\ InInv /\ NoneReceived)'
    BY <1>3, NextInv, NextIn, NextReceived
  <2> QED BY <1>1, <2>1, PTL DEF Spec
<1>4. CASE OutQoS \subseteq {1}
  <2>1. Inv /\ InInv /\ NoneSent /\ [Next]_vars => (Inv /\ InInv /\ NoneSent)'
    BY <1>4, NextInv, NextIn, NextSent
  <2> QED BY <1>1, <2>1, PTL DEF Spec
<1>5. CASE ~ May("CleanSession")
  <2>1. Inv /\ InInv /\ RecHeld /\ [Next]_vars => (Inv /\ InInv /\ RecHeld)'
    BY <1>5, NextInv, NextIn
  <2> QED BY <1>1, <2>1, PTL DEF Spec
<1> QED BY <1>2, <1>3, <1>4, <1>5 DEF NoStrayPubRec, OneWayQoS2

\* The broker is never released from a message the application has not had,
\* and no QoS 2 message reaches the application twice: after any losses, failed
\* sends, refusals of the application or the store, duplicates and resumptions,
\* with QoS 2 both ways, and after clean sessions too without a store or with
\* QoS 2 one way (loop_.rs 310-413, session.rs 455-546).
THEOREM ToldBeforeAcked ==
  ASSUME NoStrayPubRec
  PROVE  Spec => []AckedMeansTold
<1>1. Inv /\ InInv => AckedMeansTold
  <2> SUFFICES ASSUME Inv, InInv, NEW k \in DOMAIN brokerOut, NEW e, e = brokerOut[k]
               PROVE  /\ e.qos = 2 => told[e.id] < 2
                      /\ \/ e.phase = "PubRel"
                         \/ \E n \in DOMAIN toBroker :
                              /\ toBroker[n].id = e.id
                              /\ toBroker[n].type \in {"PubAck", "PubRec"}
                         => told[e.id] > 0
    BY DEF AckedMeansTold
  <2> DEFINE id    == e.id
             known == id \in IdsIn(incoming)
             r     == RecordOf(incoming, id)
             asked == Asked(toClient, id)
  <2>1. brokerOut \in Seq(Entry) BY DEF Inv, Peers, Entry
  <2>2. e \in Entries(brokerOut, id) /\ e \in Entry BY <2>1, EntryIs
  <2>3. id \in PacketIds /\ e.qos \in {1, 2} /\ e.phase \in {"Publish", "PubRel"}
    BY <2>2 DEF Entry
  <2>4. /\ EntryFits(e, known, r, asked, told[id])
        /\ \A n \in DOMAIN toBroker : toBroker[n].type \in Receipts /\ toBroker[n].id = id =>
             ReceiptFits(toBroker[n], e, known, asked, told[id])
    BY <2>2, <2>3 DEF InInv, MessageFits, Agree, Replied
  <2>5. told[id] \in 0..2 BY <2>3 DEF Inv, Peers
  <2> HIDE DEF known, r, asked, id
  <2>6. ASSUME NEW n \in DOMAIN toBroker, toBroker[n].id = id,
               toBroker[n].type \in {"PubAck", "PubRec"}
        PROVE  told[id] > 0
    BY <2>4, <2>5, <2>6 DEF ReceiptFits, Receipts
  <2>7. e.qos = 2 => told[id] < 2 BY <2>3, <2>4 DEF EntryFits
  <2>8. e.phase = "PubRel" => told[id] > 0 BY <2>4 DEF EntryFits
  <2> QED BY <2>6, <2>7, <2>8 DEF id
<1> QED BY <1>1, InHolds, PTL

\* A broker that keeps to the client's Receive Maximum finds a record for every
\* message, if the array is made as long as that: the handshakes the client
\* still holds records for are all ones the broker still counts, after any
\* losses and resumptions (loop_.rs 341-361).
THEOREM AlwaysRoom ==
  ASSUME NoStrayPubRec, InQuota <= InSlots
  PROVE  Spec => []RoomForIncoming
<1>1. Inv /\ InInv => RoomForIncoming
  <2> DEFINE i == Head(toClient).id
             q == Head(toClient).qos
  <2> SUFFICES ASSUME Inv, InInv, Receiving({"Publish"}),
                      UpdatePublishReceive(incoming, i, q).status = "NoMemory"
               PROVE  FALSE
    BY DEF RoomForIncoming
  <2>1. status # "NotConnected" /\ i \in PacketIds /\ Head(toClient).type = "Publish"
    BY HeadIs DEF Inv
  <2>2. toClient # <<>> /\ toClient \in Seq(Packets) /\ brokerOut \in Seq(Entry)
    BY DEF Receiving, Inv, Links, Peers, Entry
  <2>3. PICK e \in Entries(brokerOut, i) : e.qos = q
    <3>1. 1 \in DOMAIN toClient /\ toClient[1] = Head(toClient) BY <2>2, TailPlaces
    <3> QED BY <2>1, <3>1 DEF InInv, MessageFits, Agree, Delivered
  <2>4. q \in {1, 2}
    <3>1. e \in Entry BY <2>2, EntryIs
    <3> QED BY <2>3, <3>1 DEF Entry
  <2> HIDE DEF i, q
  <2>5. i \notin IdsIn(incoming) /\ Occupied(incoming) = DOMAIN incoming
    BY <2>1, <2>4, ReceiveCases, SessionAssumption DEF Inv, GoodIn
  <2>6. 1..InQuota \subseteq DOMAIN incoming
    BY SessionAssumption DEF InInv, Trimmed
  <2> DEFINE id(j) == IF j = 0 THEN i ELSE incoming[j].packet_id
             at    == [j \in 0..InQuota |-> CHOOSE k \in DOMAIN brokerOut : brokerOut[k].id = id(j)]
  <2>7. ASSUME NEW j \in 0..InQuota
        PROVE  at[j] \in DOMAIN brokerOut /\ brokerOut[at[j]].id = id(j)
    <3>1. \E k \in DOMAIN brokerOut : brokerOut[k].id = id(j)
      <4>1. CASE j = 0 BY <2>3, <4>1 DEF Entries
      <4>2. CASE j # 0
        <5>1. j \in Occupied(incoming) BY <2>5, <2>6, <4>2, SessionAssumption
        <5>2. id(j) \in IdsIn(incoming) /\ id(j) \in PacketIds
          BY <4>2, <5>1, ById, SessionAssumption DEF Inv, GoodIn
        <5>3. Entries(brokerOut, id(j)) # {} BY <5>2 DEF InInv, MessageFits, Agree
        <5> QED BY <5>3 DEF Entries
      <4> QED BY <4>1, <4>2
    <3> QED BY <3>1
  <2>8. ASSUME NEW x \in 0..InQuota, NEW y \in 0..InQuota, id(x) = id(y) PROVE x = y
    <3>1. \A j \in 0..InQuota : j # 0 => j \in Occupied(incoming)
      BY <2>5, <2>6, SessionAssumption
    <3>2. \A j \in 0..InQuota : j # 0 => incoming[j].packet_id \in IdsIn(incoming)
      BY <3>1 DEF IdsIn
    <3> QED BY <2>5, <2>8, <3>1, <3>2 DEF Inv, GoodIn, Good, UniqueIds
  <2>9. /\ DOMAIN brokerOut = 1..Len(brokerOut) /\ Len(brokerOut) \in Nat
        /\ Len(brokerOut) <= InQuota
    BY Elements DEF Inv, InInv, Peers
  <2> HIDE DEF at, id
  <2>10. at \in [0..InQuota -> 1..Len(brokerOut)] BY <2>7, <2>9 DEF at
  <2>11. /\ IsFiniteSet(0..InQuota) /\ Cardinality(0..InQuota) = InQuota + 1
         /\ IsFiniteSet(1..Len(brokerOut)) /\ Cardinality(1..Len(brokerOut)) = Len(brokerOut)
    <3>1. /\ 0 \in Int /\ 1 \in Int /\ InQuota \in Int /\ Len(brokerOut) \in Int
          /\ InQuota \in Nat
      BY <2>9, SessionAssumption
    <3>2. /\ IsFiniteSet(0..InQuota)
          /\ Cardinality(0..InQuota) = IF 0 > InQuota THEN 0 ELSE InQuota - 0 + 1
      BY <3>1, FS_Interval
    <3>3. /\ IsFiniteSet(1..Len(brokerOut))
          /\ Cardinality(1..Len(brokerOut)) =
               IF 1 > Len(brokerOut) THEN 0 ELSE Len(brokerOut) - 1 + 1
      BY <3>1, FS_Interval
    <3> QED BY <2>9, <3>1, <3>2, <3>3
  <2>12. \E x, y \in 0..InQuota : x # y /\ at[x] = at[y]
    <3>1. Cardinality(1..Len(brokerOut)) < Cardinality(0..InQuota)
      BY <2>9, <2>11, SessionAssumption
    <3> DEFINE S == 0..InQuota
               T == 1..Len(brokerOut)
    <3>2. /\ IsFiniteSet(S) /\ IsFiniteSet(T) /\ Cardinality(T) < Cardinality(S)
          /\ at \in [S -> T]
      BY <2>10, <2>11, <3>1
    <3> HIDE DEF S, T
    <3>3. \E x, y \in S : x # y /\ at[x] = at[y] BY <3>2, FS_PigeonHole
    <3> QED BY <3>3 DEF S
  <2> QED BY <2>7, <2>8, <2>12
<1> QED BY <1>1, InHolds, PTL

\* The store holds nothing that is no longer in flight: a PUBLISH or a PUBREL is
\* kept for a record that a resumption will ask for, a PUBREC for one the
\* client still has.  No failed send, refusal, loss or cut short resumption
\* leaves anything behind; a clean session, a cancelled publish and a smaller
\* Receive Maximum do (loop_.rs 450-458, 780-784, client.rs 1700-1717).
THEOREM StoreReleased ==
  ASSUME Unbroken
  PROVE  Spec => []StoreIsReleased
<1>1. Init => Inv /\ InInv /\ RecHeld /\ NeededInv
  <2>1. Init => NeededInv
    <3> SUFFICES ASSUME Init PROVE NeededInv
      OBVIOUS
    <3>1. Settled BY InitOut DEF OutInv
    <3>2. owed = {} /\ NothingKept /\ \A id \in PacketIds : NeededFor(id)
      BY DEF Init, NothingKept, NeededFor
    <3> QED BY <3>1, <3>2 DEF NeededInv
  <2> QED BY <2>1, InitInv, InitIn, InitHeld
<1>2. Inv /\ InInv /\ RecHeld /\ NeededInv /\ [Next]_vars
        => (Inv /\ InInv /\ RecHeld /\ NeededInv)'
  BY NextInv, NextIn, NextNeeded DEF Unbroken
<1>3. Inv /\ RecHeld /\ NeededInv => StoreIsReleased
  <2> SUFFICES ASSUME Inv, RecHeld, NeededInv PROVE StoreIsReleased
    OBVIOUS
  <2>1. ASSUME NEW id \in IdsIn(outgoing), NEW wanted, RecordOf(outgoing, id).state \in wanted
        PROVE  id \in InFlightIds(wanted)
    <3> DEFINE k == FindInRecord(outgoing, id)
    <3>1. /\ k \in Occupied(outgoing) /\ RecordOf(outgoing, id) = outgoing[k]
          /\ RecordOf(outgoing, id).packet_id = id
      BY ById, SessionAssumption DEF Inv, GoodOut
    <3> HIDE DEF k
    <3> QED BY <2>1, <3>1 DEF InFlightIds, InState, Occupied
  <2>2. keptPublish \subseteq PacketIds BY DEF Inv, Kept
  <2>3. \A id \in PacketIds : NeededFor(id) BY DEF NeededInv
  <2>4. keptPublish \subseteq InFlightIds(PublishToResendStates)
    BY <2>1, <2>2, <2>3 DEF NeededFor
  <2>5. ASSUME NEW id \in PacketIds
        PROVE  /\ keptAck[id] = "PubRel" => id \in InFlightIds(PubRelToResendStates)
               /\ keptAck[id] = "PubRec" => id \in IdsIn(incoming)
    BY <2>1, <2>3 DEF NeededFor, RecHeld
  <2> QED BY <2>4, <2>5 DEF StoreIsReleased
<1> QED BY <1>1, <1>2, <1>3, PTL DEF Spec
=============================================================================
