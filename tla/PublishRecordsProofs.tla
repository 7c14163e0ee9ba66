----------------------- MODULE PublishRecordsProofs -----------------------
(***************************************************************************)
(* Theorems about PublishRecords, for every array size and every set of    *)
(* packet ids.  The inductive invariant is the conjunction of the type     *)
(* invariant and RecordsWellFormed; neither is inductive alone.  The second *)
(* part shows that each array implements InFlight.                         *)
(***************************************************************************)
EXTENDS PublishRecords, PublishStateProofs

GoodOut(a) == Good(a, OutSlots, OutgoingStates)
GoodIn(a)  == Good(a, InSlots, IncomingStates)

Inv == TypeOK /\ RecordsWellFormed

\* The invariant says the same of each array by itself.
LEMMA InvIsGood == Inv <=> GoodOut(outgoing) /\ GoodIn(incoming)
BY DEF Inv, TypeOK, RecordsWellFormed, GoodOut, GoodIn, Good

\* And the same after a step.
LEMMA InvIsGoodNext == Inv' <=> GoodOut(outgoing') /\ GoodIn(incoming')
BY DEF Inv, TypeOK, RecordsWellFormed, GoodOut, GoodIn, Good

\* The empty arrays of PublishRecords::new satisfy the invariant.
LEMMA InitInv == Init => Inv
<1>. SUFFICES ASSUME Init PROVE Inv
  OBVIOUS
<1>1. /\ outgoing \in [1..OutSlots -> Slots] /\ \A i \in 1..OutSlots : outgoing[i] = Empty
      /\ incoming \in [1..InSlots -> Slots] /\ \A i \in 1..InSlots : incoming[i] = Empty
  BY SlotTypes DEF Init
<1>2. Occupied(outgoing) = {} /\ Occupied(incoming) = {}
  BY <1>1 DEF Occupied, Empty, Record
<1>3. OutSlots \in 0..OutSlots /\ InSlots \in 0..InSlots
  BY SlotsAssumption
<1>. QED BY <1>1, <1>2, <1>3
         DEF Inv, TypeOK, RecordsWellFormed, IsArray, WellFormed, UniqueIds

\* Every operation, with any arguments and in any order, keeps the invariant.
LEMMA NextInv == Inv /\ [Next]_vars => Inv'
<1>. SUFFICES ASSUME Inv, [Next]_vars PROVE GoodOut(outgoing') /\ GoodIn(incoming')
  BY InvIsGoodNext
<1>0. GoodOut(outgoing) /\ GoodIn(incoming)
  BY InvIsGood
<1>1. ASSUME NEW id \in AnyId, NEW q \in QoS, Reserve(id, q)
      PROVE  GoodOut(outgoing') /\ GoodIn(incoming')
  BY <1>0, <1>1, ReserveGood, SlotsAssumption DEF Reserve, GoodOut
<1>2. ASSUME NEW id \in AnyId, NEW q \in QoS, NEW op \in Operations, UpdatePublish(id, op, q)
      PROVE  GoodOut(outgoing') /\ GoodIn(incoming')
  BY <1>0, <1>2, UpdatePublishSendGood, UpdatePublishReceiveGood, SlotsAssumption
     DEF UpdatePublish, GoodOut, GoodIn
<1>3. ASSUME NEW id \in AnyId, NEW ack \in AckTypes, NEW op \in Operations,
             UpdateAck(id, ack, op)
      PROVE  GoodOut(outgoing') /\ GoodIn(incoming')
  BY <1>0, <1>3, UpdateAckOut, UpdateAckInGood, SlotsAssumption
     DEF UpdateAck, GoodOut, GoodIn
<1>4. ASSUME NEW id \in AnyId, Remove(id)
      PROVE  GoodOut(outgoing') /\ GoodIn(incoming')
  BY <1>0, <1>4, RemoveGood, SlotsAssumption DEF Remove, GoodOut
<1>5. CASE ClearOutgoing
  BY <1>0, <1>5, ClearGood, SlotsAssumption DEF ClearOutgoing, GoodOut
<1>6. CASE ClearIncoming
  BY <1>0, <1>6, ClearGood, SlotsAssumption DEF ClearIncoming, GoodIn
<1>7. ASSUME NEW out \in 0..OutSlots, NEW in \in 0..InSlots, Cap(out, in)
      PROVE  GoodOut(outgoing') /\ GoodIn(incoming')
  <2>1. out \in Nat /\ in \in Nat
    BY SlotsAssumption
  <2>. QED BY <1>0, <1>7, <2>1, CapGood, SlotsAssumption DEF Cap, GoodOut, GoodIn
<1>8. CASE UNCHANGED vars
  BY <1>0, <1>8 DEF vars
<1>. QED BY <1>1, <1>2, <1>3, <1>4, <1>5, <1>6, <1>7, <1>8 DEF Next

\* So it holds in every reachable state.
LEMMA InvHolds == Spec => []Inv
BY InitInv, NextInv, PTL DEF Spec

\* The arrays always have the shape the application gave them, or less.
THEOREM TypeCorrect == Spec => []TypeOK
<1>1. Inv => TypeOK
  BY DEF Inv
<1>. QED BY <1>1, InvHolds, PTL

\* No packet id is ever in flight twice in one direction, and no record is in
\* a state its direction and QoS do not have, for every array size, every set
\* of packet ids and every sequence of calls.
THEOREM WellFormedAlways == Spec => []RecordsWellFormed
<1>1. Inv => RecordsWellFormed
  BY DEF Inv
<1>. QED BY <1>1, InvHolds, PTL

\* A publish is refused for want of room only when the outgoing array is full.
THEOREM RoomAlwaysFound == Spec => []RoomIsFound
<1>1. Inv => RoomIsFound
  <2>. SUFFICES ASSUME Inv, NEW id \in PacketIds \ IdsIn(outgoing), NEW q \in QoS \ {0}
                PROVE  ReserveState(outgoing, id, q).status = "NoMemory"
                         <=> Occupied(outgoing) = DOMAIN outgoing
    BY DEF RoomIsFound
  <2>1. ReserveState(outgoing, id, q) = AddRecord(outgoing, id, q, "PublishSend")
    BY InvalidAssumption DEF ReserveState
  <2>2. "PublishSend" \in OutgoingStates[q] /\ "PublishSend" \in PublishStates
    BY DEF OutgoingStates, PublishStates, QoS
  <2>3. Good(outgoing, OutSlots, OutgoingStates)
    BY InvIsGood DEF GoodOut
  <2>. QED BY <2>1, <2>2, <2>3, AddRecordGood, SlotsAssumption
<1>. QED BY <1>1, InvHolds, PTL

\* The cursor passed from call to call stands at the k-th matching record after
\* k calls, and behind the array when there are no more (state.rs 387-402).
LEMMA SweepAnswers ==
  ASSUME NEW n \in Nat, NEW a \in [1..n -> Slots], NEW wanted, "StateNull" \notin wanted
  PROVE  LET answers == Sweep(a, wanted)
             owed    == {i \in DOMAIN a : a[i].state \in wanted}
         IN  /\ \A i \in owed : answers[Cardinality({j \in owed : j <= i})] = a[i].packet_id
             /\ \A k \in DOMAIN answers : k > Cardinality(owed) => answers[k] = PACKET_ID_INVALID
<1>. DEFINE owed    == {i \in DOMAIN a : a[i].state \in wanted}
            Upto(c) == {j \in owed : j <= c}
            start   == [packet_id |-> PACKET_ID_INVALID, cursor |-> 0]
            A       == [packet_id : PacketIds \cup {PACKET_ID_INVALID}, cursor : 0..n]
            F       == [x \in A |-> StateSelect(a, wanted, x.cursor)]
            Body(g) == [k \in 0..Cardinality(DOMAIN a) + 1 |->
                          IF k = 0 THEN [packet_id |-> PACKET_ID_INVALID, cursor |-> 0]
                                   ELSE StateSelect(a, wanted, g[k-1].cursor)]
            step    == CHOOSE g : g = Body(g)
<1>0. DOMAIN a = 1..n /\ \A i \in 1..n : a[i] \in Slots OBVIOUS
<1>1. Cardinality(DOMAIN a) = n
  BY <1>0, FS_Interval
<1>2. Sweep(a, wanted) = [k \in 1..n |-> step[k].packet_id]
  <2>1. Sweep(a, wanted) = [k \in 1..Cardinality(DOMAIN a) |-> step[k].packet_id]
    BY Zenon DEF Sweep
  <2>. HIDE DEF step
  <2>. QED BY <1>1, <2>1
<1>3. ASSUME NEW c \in 0..n PROVE
        LET r == StateSelect(a, wanted, c)
        IN  /\ r \in A
            /\ Ahead(a, wanted, c) = {} =>
                 r = [packet_id |-> PACKET_ID_INVALID, cursor |-> n]
            /\ Ahead(a, wanted, c) # {} =>
                 /\ r.cursor \in owed /\ r.packet_id = a[r.cursor].packet_id
                 /\ r.cursor > c /\ \A j \in owed : j <= c \/ r.cursor <= j
  <2>. DEFINE ahead == Ahead(a, wanted, c)
  <2>1. CASE ahead = {} BY <1>1, <2>1 DEF StateSelect
  <2>2. CASE ahead # {}
    <3>1. ahead \in SUBSET owed /\ \A j \in ahead : j > c BY DEF Ahead
    <3>2. \A j \in owed : j <= c \/ j \in ahead BY <1>0 DEF Ahead
    <3>3. ahead \in SUBSET Nat BY <1>0, <3>1
    <3>. HIDE DEF ahead
    <3>4. FirstOf(ahead) \in ahead /\ \A j \in ahead : FirstOf(ahead) <= j
      BY <2>2, <3>3, FirstOfLeast
    <3>5. FirstOf(ahead) \in 1..n /\ a[FirstOf(ahead)].packet_id \in PacketIds \cup {PACKET_ID_INVALID}
      BY <1>0, <3>1, <3>4 DEF Slots
    <3>6. StateSelect(a, wanted, c) = [packet_id |-> a[FirstOf(ahead)].packet_id, cursor |-> FirstOf(ahead)]
      BY <2>2 DEF StateSelect, ahead
    <3>. HIDE DEF owed
    <3>. QED BY <2>2, <3>1, <3>2, <3>4, <3>5, <3>6 DEF ahead
  <2>. QED BY <2>1, <2>2
<1>4. step = Body(step)
  <2>1. start \in A /\ F \in [A -> A] BY <1>3
  <2>2. PICK g \in [0..(n+1) -> A] : g[0] = start /\ \A k \in 1..(n+1) : g[k] = F[g[k-1]]
    <3>. HIDE DEF start, A, F
    <3>. DEFINE m == n + 1
    <3>1. m \in Nat OBVIOUS
    <3>. HIDE DEF m
    <3>2. \E g : Iteration(g, A, start, F, m) BY <2>1, <3>1, Iterates
    <3>. QED BY <3>2 DEF m, Iteration
  <2>3. ASSUME NEW k \in 1..(n+1) PROVE g[k] = StateSelect(a, wanted, g[k-1].cursor)
    <3>1. k - 1 \in 0..(n+1) /\ k \in 1..(n+1) OBVIOUS
    <3>2. g[k-1] \in A
      <4>. HIDE DEF A
      <4>. QED BY <3>1, <2>2
    <3>3. g[k] = F[g[k-1]] BY <2>2, <3>1
    <3>. HIDE DEF A
    <3>. QED BY <3>2, <3>3
  <2>4. g = Body(g)
    <3>1. DOMAIN g = 0..(Cardinality(DOMAIN a) + 1) BY <1>1, <2>2
    <3>2. \A k \in DOMAIN g : g[k] = Body(g)[k] BY <1>1, <2>2, <2>3
    <3>3. g = [k \in DOMAIN g |-> g[k]] BY <2>2
    <3>. QED BY <3>1, <3>2, <3>3
  <2>. HIDE DEF Body
  <2>. QED BY <2>4
<1>5. \A k \in 0..(n+1) : step[k] = IF k = 0 THEN start ELSE StateSelect(a, wanted, step[k-1].cursor)
  <2>. HIDE DEF step
  <2>. QED BY <1>1, <1>4
<1>. HIDE DEF step
<1>6. IsFiniteSet(owed) /\ owed \in SUBSET (1..n) /\ Cardinality(owed) \in 0..n
  <2>1. owed \in SUBSET (1..n) BY <1>0
  <2>2. IsFiniteSet(1..n) /\ Cardinality(1..n) = n BY FS_Interval
  <2>. HIDE DEF owed
  <2>3. IsFiniteSet(owed) /\ Cardinality(owed) <= n BY <2>1, <2>2, FS_Subset
  <2>4. Cardinality(owed) \in Nat BY <2>3, FS_CardinalityType
  <2>. QED BY <2>1, <2>3, <2>4
<1>7. \A c \in Int : IsFiniteSet(Upto(c)) /\ Upto(c) \in SUBSET owed
  <2>1. \A c \in Int : Upto(c) \in SUBSET owed OBVIOUS
  <2>. HIDE DEF owed, Upto
  <2>. QED BY <1>6, <2>1, FS_Subset
<1>. DEFINE At(k) == LET r == step[k] IN
              /\ r \in A
              /\ \/ /\ k <= Cardinality(owed) /\ Cardinality(Upto(r.cursor)) = k
                    /\ k # 0 => r.cursor \in owed /\ r.packet_id = a[r.cursor].packet_id
                 \/ /\ k > Cardinality(owed)
                    /\ r = [packet_id |-> PACKET_ID_INVALID, cursor |-> n]
            S == {k \in Nat : k <= n + 1 => At(k)}
<1>8. 0 \in S
  <2>1. step[0] = start BY <1>5
  <2>2. start \in A OBVIOUS
  <2>3. Upto(0) = {} BY <1>6
  <2>4. Cardinality({}) = 0 BY FS_EmptySet
  <2>5. step[0].cursor = 0 BY <2>1
  <2>. HIDE DEF Upto, owed
  <2>6. Cardinality(Upto(step[0].cursor)) = 0 BY <2>3, <2>4, <2>5
  <2>7. 0 <= Cardinality(owed) BY <1>6
  <2>. HIDE DEF A
  <2>8. step[0] \in A BY <2>1, <2>2
  <2>9. At(0) BY <2>6, <2>7, <2>8
  <2>. HIDE DEF At
  <2>. QED BY <2>9
<1>9. ASSUME NEW k \in S PROVE k + 1 \in S
  <2>1. k \in Nat OBVIOUS
  <2>. SUFFICES ASSUME k + 1 <= n + 1 PROVE At(k + 1) BY <2>1
  <2>2. At(k) BY <2>1
  <2>. DEFINE c == step[k].cursor
              ahead == Ahead(a, wanted, c)
              d == step[k + 1].cursor
  <2>3. c \in 0..n BY <2>2
  <2>4. step[k + 1] = StateSelect(a, wanted, c) BY <1>5, <2>1
  <2>5. ahead = {j \in owed : j > c} BY DEF Ahead
  <2>6. step[k + 1] \in A
    <3>. HIDE DEF A, c
    <3>. QED BY <1>3, <2>3, <2>4
  <2>7. CASE ahead = {}
    <3>1. step[k + 1] = [packet_id |-> PACKET_ID_INVALID, cursor |-> n]
      <4>. HIDE DEF c, A
      <4>. QED BY <1>3, <2>3, <2>4, <2>7
    <3>2. Upto(c) = owed
      <4>. HIDE DEF c
      <4>. QED BY <1>6, <2>3, <2>5, <2>7
    <3>3. k + 1 > Cardinality(owed)
      <4>. HIDE DEF A, Upto, owed
      <4>. QED BY <1>6, <2>1, <2>2, <3>2
    <3>. HIDE DEF A
    <3>. QED BY <2>6, <3>1, <3>3
  <2>8. CASE ahead # {}
    <3>1. /\ d \in owed /\ step[k + 1].packet_id = a[d].packet_id
          /\ d > c /\ \A j \in owed : j <= c \/ d <= j
      <4>. HIDE DEF c, A, owed
      <4>. QED BY <1>3, <2>3, <2>4, <2>8
    <3>2. d \in 1..n BY <1>6, <3>1
    <3>3. Upto(d) = Upto(c) \cup {d} /\ d \notin Upto(c)
      <4>. HIDE DEF c, d
      <4>. QED BY <1>6, <2>3, <3>1, <3>2
    <3>4. IsFiniteSet(Upto(c)) /\ Upto(c) \in SUBSET owed
      <4>. HIDE DEF c, owed, Upto
      <4>. QED BY <1>7, <2>3
    <3>5. Cardinality(Upto(d)) = Cardinality(Upto(c)) + 1
      <4>. HIDE DEF c, d, owed, Upto
      <4>. QED BY <3>3, <3>4, FS_AddElement
    <3>6. k <= Cardinality(owed) /\ Cardinality(Upto(c)) = k
      <4>1. c # n BY <2>5, <2>8, <1>6
      <4>2. step[k] # [packet_id |-> PACKET_ID_INVALID, cursor |-> n] BY <4>1
      <4>. HIDE DEF A, owed, Upto
      <4>. QED BY <2>2, <4>2
    <3>7. k + 1 <= Cardinality(owed)
      <4>1. IsFiniteSet(Upto(d)) /\ Upto(d) \in SUBSET owed
        <5>. HIDE DEF d, owed, Upto
        <5>. QED BY <1>7, <3>2
      <4>2. Cardinality(Upto(d)) <= Cardinality(owed)
        <5>. HIDE DEF d, owed, Upto
        <5>. QED BY <1>6, <4>1, FS_Subset
      <4>. HIDE DEF c, d, owed, Upto
      <4>. QED BY <3>5, <3>6, <4>2
    <3>. HIDE DEF A, owed, Upto, c
    <3>. QED BY <2>6, <3>1, <3>5, <3>6, <3>7
  <2>. QED BY <2>7, <2>8
<1>10. \A k \in 0..(n+1) : At(k)
  <2>. HIDE DEF At
  <2>1. S \in SUBSET Nat OBVIOUS
  <2>2. S = Nat
    <3>. HIDE DEF S
    <3>. QED BY <1>8, <1>9, <2>1, SetInduction
  <2>. QED BY <2>2
<1>11. ASSUME NEW i \in owed PROVE Sweep(a, wanted)[Cardinality(Upto(i))] = a[i].packet_id
  <2>. DEFINE k == Cardinality(Upto(i))
              c == step[k].cursor
  <2>1. i \in 1..n BY <1>6
  <2>2. IsFiniteSet(Upto(i)) /\ Upto(i) \in SUBSET owed /\ Upto(i) # {}
    <3>1. Upto(i) # {} BY <2>1
    <3>. HIDE DEF Upto, owed
    <3>. QED BY <1>7, <2>1, <3>1
  <2>3. k \in Nat /\ k # 0 /\ k <= Cardinality(owed)
    <3>. HIDE DEF Upto, owed
    <3>. QED BY <1>6, <2>2, FS_CardinalityType, FS_EmptySet, FS_Subset
  <2>4. k \in 1..n
    <3>. HIDE DEF k, owed
    <3>. QED BY <1>6, <2>3
  <2>5. At(k)
    <3>. HIDE DEF k, At
    <3>. QED BY <1>10, <2>4
  <2>6. Cardinality(Upto(c)) = k /\ c \in owed /\ step[k].packet_id = a[c].packet_id
    <3>. HIDE DEF k, owed, Upto, A
    <3>. QED BY <1>6, <2>3, <2>4, <2>5
  <2>7. c \in 1..n
    <3>. HIDE DEF c, owed
    <3>. QED BY <1>6, <2>6
  <2>8. c = i
    <3>. HIDE DEF c
    <3>1. ~(c < i)
      <4>1. ASSUME c < i PROVE Cardinality(Upto(c)) # Cardinality(Upto(i))
        <5>. HIDE DEF owed
        <5>1. c \in Int BY <2>7
        <5>. QED BY <1>6, <4>1, <5>1, CountGrows
      <4>. HIDE DEF Upto, owed
      <4>. QED BY <4>1, <2>6
    <3>2. ~(i < c)
      <4>1. ASSUME i < c PROVE Cardinality(Upto(i)) # Cardinality(Upto(c))
        <5>. HIDE DEF owed
        <5>1. i \in Int /\ c \in owed BY <2>1, <2>6
        <5>. QED BY <1>6, <4>1, <5>1, CountGrows
      <4>. HIDE DEF Upto, owed
      <4>. QED BY <4>1, <2>6
    <3>. QED BY <2>1, <2>7, <3>1, <3>2
  <2>. HIDE DEF k, owed, Upto
  <2>9. Sweep(a, wanted)[k] = step[k].packet_id BY <1>2, <2>4
  <2>. QED BY <2>6, <2>8, <2>9 DEF k
<1>12. ASSUME NEW k \in DOMAIN Sweep(a, wanted), k > Cardinality(owed)
       PROVE  Sweep(a, wanted)[k] = PACKET_ID_INVALID
  <2>1. k \in 1..n /\ Sweep(a, wanted)[k] = step[k].packet_id BY <1>2
  <2>2. At(k)
    <3>. HIDE DEF At
    <3>. QED BY <1>10, <2>1
  <2>. HIDE DEF owed, Upto, A
  <2>. QED BY <1>6, <1>12, <2>1, <2>2
<1>. HIDE DEF At, S, A, F, Body
<1>. QED BY <1>11, <1>12

\* A resumption that passes the cursor on is answered every record that is owed,
\* each once and in array order, for every array (state.rs 387-402, 615-686).
THEOREM SweepMissesNothing == Spec => []SweepsComplete
<1>1. TypeOK => SweepsComplete
  <2> SUFFICES ASSUME TypeOK PROVE SweepsComplete OBVIOUS
  <2>1. PICK n \in 0..OutSlots : outgoing \in [1..n -> Slots] BY DEF TypeOK, IsArray
  <2>2. n \in Nat BY SlotsAssumption
  <2>3. "StateNull" \notin PublishToResendStates /\ "StateNull" \notin PubRelToResendStates
    BY DEF PublishToResendStates, PubRelToResendStates
  <2> QED BY <2>1, <2>2, <2>3, SweepAnswers DEF SweepsComplete
<1> QED BY <1>1, TypeCorrect, PTL

\* An outgoing record leaves only when its handshake is over or the caller
\* asked for it: the PUBREC move in particular never loses the record.
THEOREM OutgoingLeavesOnlyWhenDone == Spec => OutgoingLeavesWhenDone
<1>. DEFINE Gone(r) ==
       \/ r.state \in {"PubAckPending", "PubCompPending"}
       \/ Remove(r.packet_id)
       \/ ClearOutgoing
       \/ \E out \in 0..OutSlots, in \in 0..InSlots : Cap(out, in)
            Leaves ==
       \A r \in {outgoing[i] : i \in Occupied(outgoing)} :
         r.packet_id \notin IdsIn(outgoing') => Gone(r)
<1>1. Inv /\ [Next]_vars => [Leaves]_vars
  <2>. SUFFICES ASSUME Inv, Next,
                       NEW i \in Occupied(outgoing),
                       outgoing[i].packet_id \notin IdsIn(outgoing')
                PROVE  Gone(outgoing[i])
    OBVIOUS
  <2>0. GoodOut(outgoing) /\ outgoing[i].packet_id \in IdsIn(outgoing)
    BY InvIsGood DEF IdsIn
  <2>1. ASSUME NEW id \in AnyId, NEW q \in QoS, Reserve(id, q)
        PROVE  FALSE
    BY <2>0, <2>1, ReserveGood, SlotsAssumption DEF Reserve, GoodOut
  <2>2. ASSUME NEW id \in AnyId, NEW q \in QoS, NEW op \in Operations, UpdatePublish(id, op, q)
        PROVE  FALSE
    BY <2>0, <2>2, UpdatePublishSendGood, SlotsAssumption DEF UpdatePublish, GoodOut
  <2>3. ASSUME NEW id \in AnyId, NEW ack \in AckTypes, NEW op \in Operations,
               UpdateAck(id, ack, op)
        PROVE  outgoing[i].state \in {"PubAckPending", "PubCompPending"}
    BY <2>0, <2>3, UpdateAckOut, SlotsAssumption DEF UpdateAck, GoodOut
  <2>4. ASSUME NEW id \in AnyId, Remove(id)
        PROVE  Remove(outgoing[i].packet_id)
    <3>1. CASE RemoveState(outgoing, id).records = outgoing
      BY <2>0, <2>4, <3>1 DEF Remove
    <3>2. CASE RemoveState(outgoing, id).records # outgoing
      <4>1. id \in IdsIn(outgoing)
            /\ RemoveState(outgoing, id).records = DeleteRecord(outgoing, FindInRecord(outgoing, id))
        BY <3>2 DEF RemoveState, Result
      <4>2. PICK n \in 0..OutSlots : outgoing \in [1..n -> Slots]
        BY <2>0 DEF GoodOut, Good, IsArray
      <4>3. FindInRecord(outgoing, id) \in Occupied(outgoing)
            /\ outgoing[FindInRecord(outgoing, id)].packet_id = id
        BY <4>1, <4>2, FoundInRecord, SlotsAssumption
      <4>4. IdsIn(outgoing') = IdsIn(outgoing) \ {id}
        BY <2>0, <2>4, <4>1, <4>3, DeleteGood, SlotsAssumption DEF GoodOut, Remove
      <4>5. outgoing[i].packet_id = id
        BY <2>0, <4>4
      <4>. QED BY <2>4, <4>5
    <3>. QED BY <3>1, <3>2
  <2>5. CASE ClearIncoming
    BY <2>0, <2>5 DEF ClearIncoming
  <2>. QED BY <2>1, <2>2, <2>3, <2>4, <2>5 DEF Next
<1>. QED BY <1>1, InvHolds, PTL DEF Spec, OutgoingLeavesWhenDone

---------------------------------------------------------------------------
(* Each record array implements InFlight: slots, holes and compaction are   *)
(* invisible, and the order of the records is the order the specification   *)
(* keeps.  PublishStateProofs says what each function on arrays does to the *)
(* set of records and to their order; here each operation is mapped to a    *)
(* step of InFlight or to a stutter.                                        *)

---------------------------------------------------------------------------
(* The outgoing array.                                                     *)

\* The ids InFlight sees in the outgoing array are the ids in it.
LEMMA OutgoingIds == \A a : Outgoing!IdsOf(Flight(a)) = IdsIn(a)
BY DEF Outgoing!IdsOf, Flight, IdsIn

\* A new record goes last.
LEMMA OutgoingAdmits ==
  ASSUME NEW id \in PacketIds, NEW q \in {1, 2}, id \notin IdsIn(outgoing),
         Appended(outgoing, outgoing', Record(id, q, "PublishSend"))
  PROVE  Outgoing!Next
<1>1. id \notin Outgoing!IdsOf(Flight(outgoing)) BY OutgoingIds
<1>2. /\ Flight(outgoing)' = Flight(outgoing) \cup {[packet_id |-> id, qos |-> q, state |-> "PublishSend"]}
      /\ Before(outgoing)' = Before(outgoing) \cup (Outgoing!IdsOf(Flight(outgoing)) \X {id})
  BY OutgoingIds DEF Appended, Record, Flight, Before, Occupied
<1>3. <<q, "PublishSend">> \in {<<1, "PublishSend">>, <<2, "PublishSend">>} OBVIOUS
<1>4. Outgoing!Admit(id)
  <2>1. \E s \in {<<1, "PublishSend">>, <<2, "PublishSend">>} :
          Flight(outgoing)' = Flight(outgoing) \cup {[packet_id |-> id, qos |-> s[1], state |-> s[2]]}
    <3>1. <<q, "PublishSend">>[1] = q /\ <<q, "PublishSend">>[2] = "PublishSend" OBVIOUS
    <3> QED BY <1>2, <1>3, <3>1
  <2> QED BY <1>1, <1>2, <2>1 DEF Outgoing!Admit
<1> QED BY <1>4 DEF Outgoing!Next

\* A record that leaves, with the order of the others kept.
LEMMA OutgoingDrops ==
  ASSUME NEW S, Dropped(outgoing, outgoing', S)
  PROVE  Outgoing!Drop(S)
<1>1. /\ Flight(outgoing)' = Flight(outgoing) \ S
      /\ Before(outgoing)' = {p \in Before(outgoing) : p[1] \in IdsIn(outgoing') /\ p[2] \in IdsIn(outgoing')}
  BY DEF Dropped, Flight, Before, Occupied
<1>2. Outgoing!IdsOf(Flight(outgoing) \ S) = IdsIn(outgoing')
  <2>1. Flight(outgoing') = Flight(outgoing) \ S BY DEF Dropped
  <2> QED BY <2>1, OutgoingIds
<1> QED BY <1>1, <1>2 DEF Outgoing!Drop, Outgoing!Among

\* A step of a handshake, in place.
LEMMA OutgoingAdvances ==
  ASSUME NEW i \in Occupied(outgoing), NEW new,
         <<outgoing[i].state, new>> \in
            {<<"PublishSend", "PubAckPending">>, <<"PublishSend", "PubRecPending">>,
             <<"PubRelSend", "PubCompPending">>},
         Flight(outgoing') = (Flight(outgoing) \ {outgoing[i]})
                             \cup {[outgoing[i] EXCEPT !.state = new]},
         Before(outgoing') = Before(outgoing)
  PROVE  Outgoing!Advance(outgoing[i])
<1>1. /\ Flight(outgoing)' = Flight(outgoing') /\ Before(outgoing)' = Before(outgoing')
  BY DEF Flight, Before, Occupied
<1> DEFINE e == <<outgoing[i].state, new>>
<1>2. e[1] = outgoing[i].state /\ e[2] = new OBVIOUS
<1>3. /\ e \in {<<"PublishSend", "PubAckPending">>, <<"PublishSend", "PubRecPending">>,
                <<"PubRecPending", "PubRelSend">>, <<"PubRelSend", "PubCompPending">>}
      /\ e \notin {<<"PubRecPending", "PubRelSend">>}
  OBVIOUS
<1> HIDE DEF e
<1> QED BY <1>1, <1>2, <1>3 DEF Outgoing!Advance

\* An acknowledgement is a step of the record's handshake, or its end.
LEMMA OutgoingAcked ==
  ASSUME GoodOut(outgoing), NEW id \in AnyId, NEW ack \in AckTypes, NEW op \in Operations,
         IsPublishOutgoing(ack, op), outgoing' = UpdateAckIn(outgoing, id, ack, op).records
  PROVE  Outgoing!Next \/ UNCHANGED <<Flight(outgoing), Before(outgoing)>>
<1>1. CASE SameFlight(outgoing, outgoing')
  BY <1>1 DEF SameFlight, Flight, Before, Occupied
<1>2. ASSUME ~SameFlight(outgoing, outgoing') PROVE Outgoing!Next
  <2>1. PICK i \in Occupied(outgoing) :
          LET new == CalculateStateAck(ack, op, outgoing[i].qos)
          IN  /\ ValidateTransitionAck(outgoing[i].state, new) /\ new # outgoing[i].state
              /\ AckSteps(outgoing, outgoing', i, new)
    BY <1>2, UpdateAckSeen, SlotsAssumption DEF GoodOut
  <2> DEFINE r   == outgoing[i]
             new == CalculateStateAck(ack, op, r.qos)
  <2>2. /\ r \in Slots /\ r \in Flight(outgoing) /\ r.qos \in QoS
        /\ r.state \in OutgoingStates[r.qos] /\ r.packet_id \in IdsIn(outgoing)
    BY RecordShape, SlotsAssumption DEF GoodOut
  <2>3. \/ new = "PublishDone" /\ r.state \in {"PubAckPending", "PubCompPending"}
        \/ new = "PubRelSend" /\ r.state = "PubRecPending" /\ r.qos = 2
        \/ new = "PubCompPending" /\ r.state = "PubRelSend"
    BY <2>1, <2>2 DEF IsPublishOutgoing, AckTypes, Operations, QoS, OutgoingStates,
                      ValidateTransitionAck, AckTransitions, CalculateStateAck
  <2>4. AckSteps(outgoing, outgoing', i, new) BY <2>1
  <2> HIDE DEF new
  <2>5. CASE new = "PublishDone" /\ r.state \in {"PubAckPending", "PubCompPending"}
    <3>1. Dropped(outgoing, outgoing', {r}) BY <2>4, <2>5 DEF AckSteps
    <3>2. Outgoing!Complete(r) BY <2>5, <3>1, OutgoingDrops DEF Outgoing!Complete
    <3> QED BY <2>2, <3>2 DEF Outgoing!Next
  <2>6. CASE new = "PubRelSend" /\ r.state = "PubRecPending" /\ r.qos = 2
    <3> DEFINE e      == <<"PubRecPending", "PubRelSend">>
               others == Outgoing!IdsOf(Flight(outgoing)) \ {r.packet_id}
    <3>1. others = IdsIn(outgoing) \ {r.packet_id} BY OutgoingIds
    <3>2. Record(r.packet_id, 2, "PubRelSend") = [r EXCEPT !.state = "PubRelSend"]
      BY <2>2, <2>6 DEF Record, Slots
    <3>3. Flight(outgoing)' = (Flight(outgoing) \ {r}) \cup {[r EXCEPT !.state = "PubRelSend"]}
      BY <2>4, <2>6, <3>2 DEF AckSteps, Flight, Occupied
    <3>4. Before(outgoing)' = {p \in Before(outgoing) : p[1] \in others /\ p[2] \in others}
                              \cup (others \X {r.packet_id})
      BY <2>4, <2>6, <3>1 DEF AckSteps, Before, Occupied
    <3>5. /\ e \in {<<"PublishSend", "PubAckPending">>, <<"PublishSend", "PubRecPending">>,
                    <<"PubRecPending", "PubRelSend">>, <<"PubRelSend", "PubCompPending">>}
          /\ e \in {<<"PubRecPending", "PubRelSend">>}
          /\ e[1] = r.state /\ e[2] = "PubRelSend"
      BY <2>6
    <3> HIDE DEF e
    <3>6. Outgoing!Advance(r) BY <3>3, <3>4, <3>5 DEF Outgoing!Advance, Outgoing!Among
    <3> QED BY <2>2, <3>6 DEF Outgoing!Next
  <2>7. CASE new = "PubCompPending" /\ r.state = "PubRelSend"
    <3>1. /\ Flight(outgoing') = (Flight(outgoing) \ {r}) \cup {[r EXCEPT !.state = new]}
          /\ Before(outgoing') = Before(outgoing)
      BY <2>4, <2>7 DEF AckSteps
    <3>2. Outgoing!Advance(r) BY <2>7, <3>1, OutgoingAdvances
    <3> QED BY <2>2, <3>2 DEF Outgoing!Next
  <2> QED BY <2>3, <2>5, <2>6, <2>7
<1> QED BY <1>1, <1>2

\* A PUBLISH sent moves its record on, or finds it there already.
LEMMA OutgoingSent ==
  ASSUME GoodOut(outgoing), NEW id \in AnyId, NEW q \in QoS,
         outgoing' = UpdatePublishSend(outgoing, id, q).records
  PROVE  Outgoing!Next \/ UNCHANGED <<Flight(outgoing), Before(outgoing)>>
<1> DEFINE new == CalculateStatePublish("Send", q)
           i   == FindInRecord(outgoing, id)
           r   == outgoing[i]
<1>1. CASE outgoing' = outgoing BY <1>1 DEF Flight, Before, Occupied
<1>2. ASSUME outgoing' # outgoing PROVE Outgoing!Next \/ UNCHANGED <<Flight(outgoing), Before(outgoing)>>
  <2>1. /\ q # 0 /\ id \in IdsIn(outgoing) /\ RecordOf(outgoing, id).qos = q
        /\ ValidateTransitionPublish(RecordOf(outgoing, id).state, new, "Send", q)
        /\ outgoing' = UpdateRecord(outgoing, i, new)
    BY <1>2 DEF UpdatePublishSend, Result
  <2>2. i \in Occupied(outgoing) /\ RecordOf(outgoing, id) = r
    <3>1. PICK n \in 0..OutSlots : outgoing \in [1..n -> Slots] BY DEF GoodOut, Good, IsArray
    <3> QED BY <2>1, <3>1, FoundInRecord, SlotsAssumption
  <2> HIDE DEF i
  <2>3. r \in Slots /\ r \in Flight(outgoing)
    BY <2>2, RecordShape, SlotsAssumption DEF GoodOut
  <2>4. /\ Flight(outgoing') = (Flight(outgoing) \ {r}) \cup {[r EXCEPT !.state = new]}
        /\ Before(outgoing') = Before(outgoing)
    BY <2>1, <2>2, ChangeInPlace, SlotsAssumption DEF GoodOut
  <2>5. \/ <<r.state, new>> \in {<<"PublishSend", "PubAckPending">>, <<"PublishSend", "PubRecPending">>}
        \/ new = r.state
    BY <2>1, <2>2 DEF ValidateTransitionPublish, CalculateStatePublish
  <2> HIDE DEF new
  <2>6. CASE <<r.state, new>> \in {<<"PublishSend", "PubAckPending">>, <<"PublishSend", "PubRecPending">>}
    <3>1. Outgoing!Advance(r) BY <2>2, <2>4, <2>6, OutgoingAdvances
    <3> QED BY <2>3, <3>1 DEF Outgoing!Next
  <2>7. CASE new = r.state
    <3>1. [r EXCEPT !.state = new] = r BY <2>3, <2>7 DEF Slots
    <3> QED BY <2>3, <2>4, <3>1 DEF Flight, Before, Occupied
  <2> QED BY <2>5, <2>6, <2>7
<1> QED BY <1>1, <1>2

\* A publish reserved goes last, or nothing is seen of the attempt.
LEMMA OutgoingReserved ==
  ASSUME GoodOut(outgoing), NEW id \in AnyId, NEW q \in QoS,
         outgoing' = ReserveState(outgoing, id, q).records
  PROVE  Outgoing!Next \/ UNCHANGED <<Flight(outgoing), Before(outgoing)>>
<1>1. CASE q = 0 \/ id = PACKET_ID_INVALID
  <2>1. outgoing' = outgoing BY <1>1 DEF ReserveState, Result
  <2> QED BY <2>1 DEF Flight, Before, Occupied
<1>2. CASE q # 0 /\ id # PACKET_ID_INVALID
  <2>1. outgoing' = AddRecord(outgoing, id, q, "PublishSend").records
    BY <1>2 DEF ReserveState
  <2>2. id \in PacketIds /\ q \in {1, 2} /\ "PublishSend" \in PublishStates
    BY <1>2 DEF AnyId, QoS, PublishStates
  <2>3. \/ SameFlight(outgoing, outgoing')
        \/ id \notin IdsIn(outgoing) /\ Appended(outgoing, outgoing', Record(id, q, "PublishSend"))
    BY <2>1, <2>2, AddRecordSeen, SlotsAssumption DEF GoodOut
  <2>4. CASE SameFlight(outgoing, outgoing')
    BY <2>4 DEF SameFlight, Flight, Before, Occupied
  <2>5. CASE id \notin IdsIn(outgoing) /\ Appended(outgoing, outgoing', Record(id, q, "PublishSend"))
    BY <2>2, <2>5, OutgoingAdmits
  <2> QED BY <2>3, <2>4, <2>5
<1> QED BY <1>1, <1>2

\* The application takes one record out.
LEMMA OutgoingRemoved ==
  ASSUME GoodOut(outgoing), NEW id \in AnyId, outgoing' = RemoveState(outgoing, id).records
  PROVE  Outgoing!Next \/ UNCHANGED <<Flight(outgoing), Before(outgoing)>>
<1> DEFINE i == FindInRecord(outgoing, id)
<1>1. CASE outgoing' = outgoing BY <1>1 DEF Flight, Before, Occupied
<1>2. ASSUME outgoing' # outgoing PROVE Outgoing!Next
  <2>1. id \in IdsIn(outgoing) /\ outgoing' = DeleteRecord(outgoing, i)
    BY <1>2 DEF RemoveState, Result
  <2>2. PICK n \in 0..OutSlots : outgoing \in [1..n -> Slots] BY DEF GoodOut, Good, IsArray
  <2>3. i \in Occupied(outgoing) BY <2>1, <2>2, FoundInRecord, SlotsAssumption
  <2> HIDE DEF i
  <2>4. Dropped(outgoing, outgoing', {outgoing[i]})
    BY <2>1, <2>3, DeleteDrops, SlotsAssumption DEF GoodOut
  <2>5. Outgoing!Withdraw(outgoing[i]) BY <2>4, OutgoingDrops DEF Outgoing!Withdraw
  <2>6. outgoing[i] \in Flight(outgoing) BY <2>3 DEF Flight
  <2> QED BY <2>5, <2>6 DEF Outgoing!Next
<1> QED BY <1>1, <1>2

\* A clean session takes everything.
LEMMA OutgoingCleared ==
  ASSUME outgoing' = Clear(outgoing)
  PROVE  Outgoing!Next
<1> DEFINE S == Flight(outgoing)
<1>1. Outgoing!Drop(S) BY ClearDrops, OutgoingDrops
<1>2. \A p \in Before(outgoing) : p[2] \in Outgoing!IdsOf(S) BY BeforeIs, OutgoingIds
<1>3. Outgoing!Truncate(S) BY <1>1, <1>2 DEF Outgoing!Truncate
<1> QED BY <1>3 DEF Outgoing!Next

\* Receive Maximum takes the end of the order.
LEMMA OutgoingCut ==
  ASSUME GoodOut(outgoing), NEW m \in Nat, outgoing' = CapTo(outgoing, m)
  PROVE  Outgoing!Next
<1> DEFINE b == CapTo(outgoing, m)
           S == Flight(outgoing) \ Flight(b)
<1>1. /\ Dropped(outgoing, b, S)
      /\ \A p \in Before(outgoing) : p[1] \notin IdsIn(b) => p[2] \notin IdsIn(b)
  BY CapDrops, SlotsAssumption DEF GoodOut
<1>2. Flight(b) \subseteq Flight(outgoing) BY <1>1 DEF Dropped
<1> HIDE DEF b
<1>3. ASSUME NEW x \in IdsIn(outgoing)
      PROVE  x \in Outgoing!IdsOf(S) <=> x \notin IdsIn(b)
  <2>1. PICK r \in Flight(outgoing) : x = r.packet_id BY DEF IdsIn, Flight
  <2> QED BY <1>2, <2>1, LostIds, SlotsAssumption DEF GoodOut, Outgoing!IdsOf
<1> HIDE DEF S
<1>4. Outgoing!Drop(S) BY <1>1, OutgoingDrops DEF b
<1>5. \A p \in Before(outgoing) : p[1] \in IdsIn(outgoing) /\ p[2] \in IdsIn(outgoing) BY BeforeIs
<1>6. Outgoing!Truncate(S) BY <1>1, <1>3, <1>4, <1>5 DEF Outgoing!Truncate
<1>7. S \in SUBSET Flight(outgoing) BY DEF S
<1> QED BY <1>6, <1>7 DEF Outgoing!Next

\* Every step is one of InFlight, or is not seen in the outgoing array.
LEMMA OutgoingStep ==
  ASSUME Inv, [Next]_vars
  PROVE  Outgoing!Next \/ UNCHANGED <<Flight(outgoing), Before(outgoing)>>
<1>0. GoodOut(outgoing) BY InvIsGood
<1>1. CASE UNCHANGED outgoing BY <1>1 DEF Flight, Before, Occupied
<1>2. ASSUME NEW id \in AnyId, NEW q \in QoS, Reserve(id, q)
      PROVE  Outgoing!Next \/ UNCHANGED <<Flight(outgoing), Before(outgoing)>>
  BY <1>0, <1>2, OutgoingReserved DEF Reserve
<1>3. ASSUME NEW id \in AnyId, NEW q \in QoS, NEW op \in Operations, UpdatePublish(id, op, q)
      PROVE  Outgoing!Next \/ UNCHANGED <<Flight(outgoing), Before(outgoing)>>
  BY <1>0, <1>1, <1>3, OutgoingSent DEF UpdatePublish
<1>4. ASSUME NEW id \in AnyId, NEW ack \in AckTypes, NEW op \in Operations, UpdateAck(id, ack, op)
      PROVE  Outgoing!Next \/ UNCHANGED <<Flight(outgoing), Before(outgoing)>>
  BY <1>0, <1>1, <1>4, OutgoingAcked DEF UpdateAck
<1>5. ASSUME NEW id \in AnyId, Remove(id)
      PROVE  Outgoing!Next \/ UNCHANGED <<Flight(outgoing), Before(outgoing)>>
  BY <1>0, <1>5, OutgoingRemoved DEF Remove
<1>6. CASE ClearOutgoing BY <1>6, OutgoingCleared DEF ClearOutgoing
<1>7. CASE ClearIncoming BY <1>1, <1>7 DEF ClearIncoming
<1>8. ASSUME NEW out \in 0..OutSlots, NEW in \in 0..InSlots, Cap(out, in) PROVE Outgoing!Next
  <2>1. out \in Nat BY SlotsAssumption
  <2> QED BY <1>0, <1>8, <2>1, OutgoingCut DEF Cap
<1>9. CASE UNCHANGED vars BY <1>1, <1>9 DEF vars
<1> QED BY <1>2, <1>3, <1>4, <1>5, <1>6, <1>7, <1>8, <1>9 DEF Next

\* For every array size and every set of packet ids the outgoing array is an
\* ordered set of handshakes (state.rs 15-26): a new publish goes last, only a
\* PUBREC reorders, and only the end of the order can be cut off.
THEOREM OutgoingRefines == Spec => OutgoingImplementsInFlight
<1>1. Init => Outgoing!Init BY EmptyFlight DEF Init, Outgoing!Init
<1>2. Inv /\ [Next]_vars => [Outgoing!Next]_<<Flight(outgoing), Before(outgoing)>>
  BY OutgoingStep
<1> QED BY <1>1, <1>2, InvHolds, PTL
        DEF Spec, OutgoingImplementsInFlight, Outgoing!Spec, Outgoing!vars

---------------------------------------------------------------------------
(* The incoming array.                                                     *)

\* The ids InFlight sees in the incoming array are the ids in it.
LEMMA IncomingIds == \A a : Incoming!IdsOf(Flight(a)) = IdsIn(a)
BY DEF Incoming!IdsOf, Flight, IdsIn

\* A PUBLISH received goes last, or nothing is seen of it.
LEMMA IncomingReceived ==
  ASSUME GoodIn(incoming), NEW id \in AnyId, NEW q \in QoS,
         incoming' = UpdatePublishReceive(incoming, id, q).records
  PROVE  Incoming!Next \/ UNCHANGED <<Flight(incoming), Before(incoming)>>
<1> DEFINE first == CalculateStatePublish("Receive", q)
<1>1. CASE q = 0 \/ id = PACKET_ID_INVALID
  <2>1. incoming' = incoming BY <1>1 DEF UpdatePublishReceive, Result
  <2> QED BY <2>1 DEF Flight, Before, Occupied
<1>2. CASE q # 0 /\ id # PACKET_ID_INVALID
  <2>1. incoming' = AddRecord(incoming, id, q, first).records
    BY <1>2 DEF UpdatePublishReceive
  <2>2. id \in PacketIds /\ first \in PublishStates
        /\ <<q, first>> \in {<<1, "PubAckSend">>, <<2, "PubRecSend">>}
    BY <1>2 DEF AnyId, QoS, PublishStates, CalculateStatePublish
  <2> HIDE DEF first
  <2>3. \/ SameFlight(incoming, incoming')
        \/ id \notin IdsIn(incoming) /\ Appended(incoming, incoming', Record(id, q, first))
    BY <2>1, <2>2, AddRecordSeen, SlotsAssumption DEF GoodIn
  <2>4. CASE SameFlight(incoming, incoming')
    BY <2>4 DEF SameFlight, Flight, Before, Occupied
  <2>5. CASE id \notin IdsIn(incoming) /\ Appended(incoming, incoming', Record(id, q, first))
    <3>1. id \notin Incoming!IdsOf(Flight(incoming)) BY <2>5, IncomingIds
    <3>2. /\ Flight(incoming)' = Flight(incoming) \cup {[packet_id |-> id, qos |-> q, state |-> first]}
          /\ Before(incoming)' = Before(incoming) \cup (Incoming!IdsOf(Flight(incoming)) \X {id})
      BY <2>5, IncomingIds DEF Appended, Record, Flight, Before, Occupied
    <3>3. \E s \in {<<1, "PubAckSend">>, <<2, "PubRecSend">>} :
            Flight(incoming)' = Flight(incoming) \cup {[packet_id |-> id, qos |-> s[1], state |-> s[2]]}
      <4>1. <<q, first>>[1] = q /\ <<q, first>>[2] = first OBVIOUS
      <4> QED BY <2>2, <3>2, <4>1
    <3>4. Incoming!Admit(id) BY <3>1, <3>2, <3>3 DEF Incoming!Admit
    <3> QED BY <2>2, <3>4 DEF Incoming!Next
  <2> QED BY <2>3, <2>4, <2>5
<1> QED BY <1>1, <1>2

\* A record that leaves, with the order of the others kept.
LEMMA IncomingDrops ==
  ASSUME NEW S, Dropped(incoming, incoming', S)
  PROVE  Incoming!Drop(S)
<1>1. /\ Flight(incoming)' = Flight(incoming) \ S
      /\ Before(incoming)' = {p \in Before(incoming) : p[1] \in IdsIn(incoming') /\ p[2] \in IdsIn(incoming')}
  BY DEF Dropped, Flight, Before, Occupied
<1>2. Incoming!IdsOf(Flight(incoming) \ S) = IdsIn(incoming')
  <2>1. Flight(incoming') = Flight(incoming) \ S BY DEF Dropped
  <2> QED BY <2>1, IncomingIds
<1> QED BY <1>1, <1>2 DEF Incoming!Drop, Incoming!Among

\* An acknowledgement is a step of the record's handshake, or its end, and
\* moves nothing.
LEMMA IncomingAcked ==
  ASSUME GoodIn(incoming), NEW id \in AnyId, NEW ack \in AckTypes, NEW op \in Operations,
         ~IsPublishOutgoing(ack, op), incoming' = UpdateAckIn(incoming, id, ack, op).records
  PROVE  Incoming!Next \/ UNCHANGED <<Flight(incoming), Before(incoming)>>
<1>1. CASE SameFlight(incoming, incoming')
  BY <1>1 DEF SameFlight, Flight, Before, Occupied
<1>2. ASSUME ~SameFlight(incoming, incoming') PROVE Incoming!Next
  <2>1. PICK i \in Occupied(incoming) :
          LET new == CalculateStateAck(ack, op, incoming[i].qos)
          IN  /\ ValidateTransitionAck(incoming[i].state, new) /\ new # incoming[i].state
              /\ AckSteps(incoming, incoming', i, new)
    BY <1>2, UpdateAckSeen, SlotsAssumption DEF GoodIn
  <2> DEFINE r   == incoming[i]
             new == CalculateStateAck(ack, op, r.qos)
             e   == <<r.state, new>>
  <2>2. /\ r \in Slots /\ r \in Flight(incoming) /\ r.qos \in QoS
        /\ r.state \in IncomingStates[r.qos] /\ r.packet_id \in IdsIn(incoming)
    BY RecordShape, SlotsAssumption DEF GoodIn
  <2>3. \/ new = "PublishDone" /\ r.state \in {"PubAckSend", "PubCompSend"}
        \/ new = "PubRelPending" /\ r.state = "PubRecSend"
        \/ new = "PubCompSend" /\ r.state = "PubRelPending"
    BY <2>1, <2>2 DEF IsPublishOutgoing, AckTypes, Operations, QoS, IncomingStates,
                      ValidateTransitionAck, AckTransitions, CalculateStateAck
  <2>4. AckSteps(incoming, incoming', i, new) BY <2>1
  <2> HIDE DEF new
  <2>5. CASE new = "PublishDone"
    <3>1. Dropped(incoming, incoming', {r}) BY <2>4, <2>5 DEF AckSteps
    <3>2. Incoming!Complete(r) BY <2>3, <2>5, <3>1, IncomingDrops DEF Incoming!Complete
    <3> QED BY <2>2, <3>2 DEF Incoming!Next
  <2>6. CASE new \in {"PubRelPending", "PubCompSend"}
    <3>1. /\ Flight(incoming)' = (Flight(incoming) \ {r}) \cup {[r EXCEPT !.state = new]}
          /\ Before(incoming)' = Before(incoming)
      BY <2>4, <2>6 DEF AckSteps, Flight, Before, Occupied
    <3>2. /\ e \in {<<"PubRecSend", "PubRelPending">>, <<"PubRelPending", "PubCompSend">>}
          /\ e[1] = r.state /\ e[2] = new
      BY <2>3, <2>6
    <3> HIDE DEF e
    <3>3. Incoming!Advance(r) BY <3>1, <3>2 DEF Incoming!Advance
    <3> QED BY <2>2, <3>3 DEF Incoming!Next
  <2> QED BY <2>3, <2>5, <2>6
<1> QED BY <1>1, <1>2

\* A clean session takes everything.
LEMMA IncomingCleared ==
  ASSUME incoming' = Clear(incoming)
  PROVE  Incoming!Next
<1> DEFINE S == Flight(incoming)
<1>1. Incoming!Drop(S) BY ClearDrops, IncomingDrops
<1>2. \A p \in Before(incoming) : p[2] \in Incoming!IdsOf(S) BY BeforeIs, IncomingIds
<1>3. Incoming!Truncate(S) BY <1>1, <1>2 DEF Incoming!Truncate
<1> QED BY <1>3 DEF Incoming!Next

\* Receive Maximum takes the end of the order.
LEMMA IncomingCut ==
  ASSUME GoodIn(incoming), NEW m \in Nat, incoming' = CapTo(incoming, m)
  PROVE  Incoming!Next
<1> DEFINE b == CapTo(incoming, m)
           S == Flight(incoming) \ Flight(b)
<1>1. /\ Dropped(incoming, b, S)
      /\ \A p \in Before(incoming) : p[1] \notin IdsIn(b) => p[2] \notin IdsIn(b)
  BY CapDrops, SlotsAssumption DEF GoodIn
<1>2. Flight(b) \subseteq Flight(incoming) BY <1>1 DEF Dropped
<1> HIDE DEF b
<1>3. ASSUME NEW x \in IdsIn(incoming)
      PROVE  x \in Incoming!IdsOf(S) <=> x \notin IdsIn(b)
  <2>1. PICK r \in Flight(incoming) : x = r.packet_id BY DEF IdsIn, Flight
  <2> QED BY <1>2, <2>1, LostIds, SlotsAssumption DEF GoodIn, Incoming!IdsOf
<1> HIDE DEF S
<1>4. Incoming!Drop(S) BY <1>1, IncomingDrops DEF b
<1>5. \A p \in Before(incoming) : p[1] \in IdsIn(incoming) /\ p[2] \in IdsIn(incoming) BY BeforeIs
<1>6. Incoming!Truncate(S) BY <1>1, <1>3, <1>4, <1>5 DEF Incoming!Truncate
<1>7. S \in SUBSET Flight(incoming) BY DEF S
<1> QED BY <1>6, <1>7 DEF Incoming!Next

\* Every step is one of InFlight, or is not seen in the incoming array.
LEMMA IncomingStep ==
  ASSUME Inv, [Next]_vars
  PROVE  Incoming!Next \/ UNCHANGED <<Flight(incoming), Before(incoming)>>
<1>0. GoodIn(incoming) BY InvIsGood
<1>1. CASE UNCHANGED incoming BY <1>1 DEF Flight, Before, Occupied
<1>2. ASSUME NEW id \in AnyId, NEW q \in QoS, Reserve(id, q)
      PROVE  Incoming!Next \/ UNCHANGED <<Flight(incoming), Before(incoming)>>
  BY <1>1, <1>2 DEF Reserve
<1>3. ASSUME NEW id \in AnyId, NEW q \in QoS, NEW op \in Operations, UpdatePublish(id, op, q)
      PROVE  Incoming!Next \/ UNCHANGED <<Flight(incoming), Before(incoming)>>
  BY <1>0, <1>1, <1>3, IncomingReceived DEF UpdatePublish
<1>4. ASSUME NEW id \in AnyId, NEW ack \in AckTypes, NEW op \in Operations, UpdateAck(id, ack, op)
      PROVE  Incoming!Next \/ UNCHANGED <<Flight(incoming), Before(incoming)>>
  BY <1>0, <1>1, <1>4, IncomingAcked DEF UpdateAck
<1>5. ASSUME NEW id \in AnyId, Remove(id)
      PROVE  Incoming!Next \/ UNCHANGED <<Flight(incoming), Before(incoming)>>
  BY <1>1, <1>5 DEF Remove
<1>6. CASE ClearOutgoing BY <1>1, <1>6 DEF ClearOutgoing
<1>7. CASE ClearIncoming BY <1>7, IncomingCleared DEF ClearIncoming
<1>8. ASSUME NEW out \in 0..OutSlots, NEW in \in 0..InSlots, Cap(out, in) PROVE Incoming!Next
  <2>1. in \in Nat BY SlotsAssumption
  <2> QED BY <1>0, <1>8, <2>1, IncomingCut DEF Cap
<1>9. CASE UNCHANGED vars BY <1>1, <1>9 DEF vars
<1> QED BY <1>2, <1>3, <1>4, <1>5, <1>6, <1>7, <1>8, <1>9 DEF Next

\* For every array size and every set of packet ids the incoming array is an
\* ordered set of handshakes too: there nothing reorders, and a record leaves
\* only by completing, by a clean session or by being cut off.
THEOREM IncomingRefines == Spec => IncomingImplementsInFlight
<1>1. Init => Incoming!Init BY EmptyFlight DEF Init, Incoming!Init
<1>2. Inv /\ [Next]_vars => [Incoming!Next]_<<Flight(incoming), Before(incoming)>>
  BY IncomingStep
<1> QED BY <1>1, <1>2, InvHolds, PTL
        DEF Spec, IncomingImplementsInFlight, Incoming!Spec, Incoming!vars

\* Both at once, as the runs check it.
THEOREM ArraysRefine == Spec => ArraysImplementInFlight
BY OutgoingRefines, IncomingRefines DEF ArraysImplementInFlight
=============================================================================
