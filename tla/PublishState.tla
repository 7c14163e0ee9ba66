--------------------------- MODULE PublishState ---------------------------
(***************************************************************************)
(* The pure half of crates/rusty_rtos_mqtt-core/src/state.rs: the two      *)
(* transition tables of the MQTT publish handshakes and the functions on   *)
(* a record array.  A record array is a function from 1..n to slots; an    *)
(* operation that may fail returns the array it leaves behind together     *)
(* with the status it answers, because an array can change on an error     *)
(* path too (compaction happens before a collision is noticed).            *)
(*                                                                         *)
(* The operators whose names begin with Slip_ are what a slip in the code   *)
(* would make of the definition after them: each breaks a property that    *)
(* the definition keeps (README, "What the checks can see").               *)
(*                                                                         *)
(* No operator here is RECURSIVE: PublishStateProofs proves facts about    *)
(* these definitions for every array size and every set of packet ids.     *)
(***************************************************************************)
EXTENDS Integers, FiniteSets

CONSTANTS
  PacketIds,          \* the non-zero packet ids in use
  PACKET_ID_INVALID   \* zero, the id of an empty slot

ASSUME InvalidAssumption == PACKET_ID_INVALID \notin PacketIds

QoS == 0..2

AckTypes == {"PubAck", "PubRec", "PubRel", "PubComp"}

Operations == {"Send", "Receive"}

PublishStates ==
  {"Null", "PublishSend", "PubAckSend", "PubRecSend", "PubRelSend",
   "PubCompSend", "PubAckPending", "PubRecPending", "PubRelPending",
   "PubCompPending", "PublishDone"}

AnyId == PacketIds \cup {PACKET_ID_INVALID}

Record(id, qos, state) == [packet_id |-> id, qos |-> qos, state |-> state]

Empty == Record(PACKET_ID_INVALID, 0, "Null")

Slots == [packet_id : PacketIds \cup {PACKET_ID_INVALID},
          qos       : QoS,
          state     : PublishStates]

---------------------------------------------------------------------------
(* The transition tables. *)

ValidateTransitionPublish(current, new, op, qos) ==
  \/ /\ current = "Null"
     /\ op = "Receive"
     /\ new \in {"PubAckSend", "PubRecSend"}
  \/ /\ current = "PublishSend"
     /\ \/ qos = 1 /\ new = "PubAckPending"
        \/ qos = 2 /\ new = "PubRecPending"
  \/ /\ current \in {"PubAckPending", "PubRecPending"}
     /\ new = current

AckTransitions ==
  { <<"PubAckSend",     "PublishDone">>,
    <<"PubAckPending",  "PublishDone">>,
    <<"PubRecSend",     "PubRelPending">>,
    <<"PubRelPending",  "PubCompSend">>,
    <<"PubRelPending",  "PubRelPending">>,
    <<"PubCompSend",    "PublishDone">>,
    <<"PubCompSend",    "PubCompSend">>,
    <<"PubRecPending",  "PubRelSend">>,
    <<"PubRelSend",     "PubCompPending">>,
    <<"PubCompPending", "PublishDone">>,
    <<"PubCompPending", "PubCompPending">> }

ValidateTransitionAck(current, new) == <<current, new>> \in AckTransitions

\* Which array an acknowledgement is about.
IsPublishOutgoing(ack, op) == (ack = "PubRel") = (op = "Send")

CalculateStatePublish(op, qos) ==
  IF qos = 0 THEN "PublishDone"
  ELSE IF op = "Send" THEN (IF qos = 1 THEN "PubAckPending" ELSE "PubRecPending")
                      ELSE (IF qos = 1 THEN "PubAckSend" ELSE "PubRecSend")

\* "Null" when the acknowledgement and the QoS disagree: no transition leads
\* there, so the caller answers IllegalState.
CalculateStateAck(ack, op, qos) ==
  IF qos # (IF ack = "PubAck" THEN 1 ELSE 2) THEN "Null"
  ELSE IF ack \in {"PubAck", "PubComp"} THEN "PublishDone"
  ELSE IF ack = "PubRec" THEN (IF op = "Send" THEN "PubRelPending" ELSE "PubRelSend")
                         ELSE (IF op = "Send" THEN "PubCompPending" ELSE "PubCompSend")

---------------------------------------------------------------------------
(* The record array. *)

Occupied(records) ==
  {i \in DOMAIN records : records[i].packet_id # PACKET_ID_INVALID}

IdsIn(records) == {records[i].packet_id : i \in Occupied(records)}

\* Slip: the slot itself is not counted, so the first record goes nowhere.
Slip_Rank(records, i) == Cardinality({j \in Occupied(records) : j < i})

\* How many of the first i slots are occupied: where compaction puts slot i.
Rank(records, i) == Cardinality({j \in Occupied(records) : j <= i})

\* Slide the occupied slots down, keeping their order.
Compact(records) ==
  [k \in DOMAIN records |->
     IF \E i \in Occupied(records) : Rank(records, i) = k
     THEN records[CHOOSE i \in Occupied(records) : Rank(records, i) = k]
     ELSE Empty]

\* The free slots after the last occupied one.  A hole is never among them.
FreeTail(records) ==
  {i \in DOMAIN records : \A j \in Occupied(records) : j < i}

FirstOf(S) == CHOOSE i \in S : \A j \in S : i <= j

\* What an operation leaves in the array, and what it answers.
Result(records, status) == [records |-> records, status |-> status]

\* Slip: no collision check.
Slip_AddUnchecked(records, id, qos, state) ==
  LET packed == IF FreeTail(records) = {} THEN Compact(records) ELSE records
  IN  IF FreeTail(packed) = {} THEN Result(packed, "NoMemory")
      ELSE Result([packed EXCEPT ![FirstOf(FreeTail(packed))] = Record(id, qos, state)], "Ok")

\* Slip: no compaction, so a hole before the last record is lost.
Slip_AddUncompacted(records, id, qos, state) ==
  IF id \in IdsIn(records) THEN Result(records, "StateCollision")
  ELSE IF FreeTail(records) = {} THEN Result(records, "NoMemory")
  ELSE Result([records EXCEPT ![FirstOf(FreeTail(records))] = Record(id, qos, state)], "Ok")

\* Slip: the array used as a free list.
Slip_AddFirstHole(records, id, qos, state) ==
  LET holes == DOMAIN records \ Occupied(records)
  IN  IF id \in IdsIn(records) THEN Result(records, "StateCollision")
      ELSE IF holes = {} THEN Result(records, "NoMemory")
      ELSE Result([records EXCEPT ![FirstOf(holes)] = Record(id, qos, state)], "Ok")

AddRecord(records, id, qos, state) ==
  LET packed == IF FreeTail(records) = {} THEN Compact(records) ELSE records
      free   == FirstOf(FreeTail(packed))
  IN  IF id \in IdsIn(packed) THEN Result(packed, "StateCollision")
      ELSE IF FreeTail(packed) = {} THEN Result(packed, "NoMemory")
      ELSE Result([packed EXCEPT ![free] = Record(id, qos, state)], "Ok")

FindInRecord(records, id) ==
  FirstOf({i \in DOMAIN records : records[i].packet_id = id})

RecordOf(records, id) == records[FindInRecord(records, id)]

\* updateRecord, with and without its delete flag.
UpdateRecord(records, i, new) == [records EXCEPT ![i].state = new]

\* Slip: the packet id stays behind.
Slip_DeleteRecord(records, i) == [records EXCEPT ![i].state = "Null"]

DeleteRecord(records, i) == [records EXCEPT ![i] = Empty]

---------------------------------------------------------------------------
(* The operations of PublishRecords, as functions of the array they touch. *)

ReserveState(records, id, qos) ==
  IF qos = 0 THEN Result(records, "Ok")
  ELSE IF id = PACKET_ID_INVALID THEN Result(records, "BadParameter")
  ELSE AddRecord(records, id, qos, "PublishSend")

\* Slip: the record is not told that the PUBLISH went out.
Slip_UpdatePublishSend(records, id, qos) == Result(records, "Ok")

\* Operation Send: the outgoing array.
UpdatePublishSend(records, id, qos) ==
  LET found == RecordOf(records, id)
      new   == CalculateStatePublish("Send", qos)
  IN  IF qos = 0 THEN Result(records, "Ok")
      ELSE IF id \notin IdsIn(records) \/ found.qos # qos THEN Result(records, "BadParameter")
      ELSE IF ~ValidateTransitionPublish(found.state, new, "Send", qos)
      THEN Result(records, "IllegalState")
      ELSE Result(UpdateRecord(records, FindInRecord(records, id), new), "Ok")

\* Operation Receive: the incoming array, where the record is created.
UpdatePublishReceive(records, id, qos) ==
  IF qos = 0 THEN Result(records, "Ok")
  ELSE IF id = PACKET_ID_INVALID THEN Result(records, "BadParameter")
  ELSE AddRecord(records, id, qos, CalculateStatePublish("Receive", qos))

\* A PUBREC for an outgoing publish takes the record out and puts it back at
\* the end, so that PUBRELs are resent in the order the PUBRECs came.
UpdateAckIn(records, id, ack, op) ==
  LET found   == RecordOf(records, id)
      new     == CalculateStateAck(ack, op, found.qos)
      at      == FindInRecord(records, id)
      deleted == DeleteRecord(records, at)
  IN  IF id = PACKET_ID_INVALID THEN Result(records, "BadParameter")
      ELSE IF id \notin IdsIn(records) THEN Result(records, "BadResponse")
      ELSE IF ~ValidateTransitionAck(found.state, new) THEN Result(records, "IllegalState")
      ELSE IF new = found.state THEN Result(records, "Ok")
      ELSE IF new = "PublishDone" THEN Result(deleted, "Ok")
      ELSE IF new = "PubRelSend" THEN AddRecord(deleted, id, 2, "PubRelSend")
      ELSE Result(UpdateRecord(records, at, new), "Ok")

RemoveState(records, id) ==
  IF \/ id \notin IdsIn(records)
     \/ RecordOf(records, id).state = "Null"
     \/ RecordOf(records, id).qos = 0
  THEN Result(records, "BadParameter")
  ELSE Result(DeleteRecord(records, FindInRecord(records, id)), "Ok")

Clear(records) == [i \in DOMAIN records |-> Empty]

\* Slip: the wrong end of the array is kept.
Slip_CapTo(records, n) == [i \in {j \in DOMAIN records : j >= n} |-> records[i]]

\* Receive Maximum: the array loses its tail, whatever is in it.
CapTo(records, n) == [i \in {j \in DOMAIN records : j <= n} |-> records[i]]

---------------------------------------------------------------------------
(* Resending. A cursor is the number of slots already looked at. *)

\* Slips: a QoS 2 PUBLISH is forgotten, or repeated after its PUBREL.
Slip_PublishToResendForgets == {"PublishSend", "PubAckPending"}
Slip_PublishToResendRepeats == {"PublishSend", "PubAckPending", "PubRecPending", "PubCompPending"}

PublishToResendStates == {"PublishSend", "PubAckPending", "PubRecPending"}

\* Slip: a PUBREL that went out once is not sent again.
Slip_PubRelToResend == {"PubRelSend"}

PubRelToResendStates == {"PubCompPending", "PubRelSend"}

\* stateSelect: the slots still ahead of the cursor that match.
Ahead(records, wanted, cursor) ==
  {i \in DOMAIN records : i > cursor /\ records[i].state \in wanted}

\* Slip: the cursor is left one slot too far.
Slip_StateSelect(records, wanted, cursor) ==
  LET ahead == Ahead(records, wanted, cursor)
  IN  IF ahead = {}
      THEN [packet_id |-> PACKET_ID_INVALID, cursor |-> Cardinality(DOMAIN records)]
      ELSE [packet_id |-> records[FirstOf(ahead)].packet_id, cursor |-> FirstOf(ahead) + 1]

StateSelect(records, wanted, cursor) ==
  LET ahead == Ahead(records, wanted, cursor)
  IN  IF ahead = {}
      THEN [packet_id |-> PACKET_ID_INVALID, cursor |-> Cardinality(DOMAIN records)]
      ELSE [packet_id |-> records[FirstOf(ahead)].packet_id, cursor |-> FirstOf(ahead)]

---------------------------------------------------------------------------
(* What an array may look like, and what its users see of it. *)

\* The states a record may be in, by direction and QoS.
OutgoingStates == [q \in QoS |->
  IF q = 0 THEN {}
  ELSE {"PublishSend"} \cup
       IF q = 1 THEN {"PubAckPending"} ELSE {"PubRecPending", "PubRelSend", "PubCompPending"}]

IncomingStates == [q \in QoS |->
  IF q = 0 THEN {}
  ELSE IF q = 1 THEN {"PubAckSend"} ELSE {"PubRecSend", "PubRelPending", "PubCompSend"}]

\* An array of at most max slots.
IsArray(records, max) == \E n \in 0..max : records \in [1..n -> Slots]

\* A slot is entirely empty, or holds a handshake this direction can be in.
WellFormed(records, states) ==
  \A i \in DOMAIN records :
    \/ records[i] = Empty
    \/ /\ records[i].packet_id \in PacketIds
       /\ records[i].state \in states[records[i].qos]

UniqueIds(records) ==
  \A i, j \in Occupied(records) :
    records[i].packet_id = records[j].packet_id => i = j

\* The records in an array, and the order they stand in.
Flight(records) == {records[i] : i \in Occupied(records)}

Before(records) ==
  {<<records[p[1]].packet_id, records[p[2]].packet_id>> :
     p \in {q \in Occupied(records) \X Occupied(records) : q[1] < q[2]}}
=============================================================================
