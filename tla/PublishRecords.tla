-------------------------- MODULE PublishRecords --------------------------
(***************************************************************************)
(* The two record arrays of state.rs as a state machine: any operation,    *)
(* with any packet id, QoS and acknowledgement, in any order.  This is     *)
(* the environment the differential drivers and the no-panic sweep of the  *)
(* repository put the module in; MqttSession restricts it to the calls the *)
(* client really makes.                                                    *)
(***************************************************************************)
EXTENDS PublishState

CONSTANTS
  OutSlots,   \* the size of the outgoing array the application supplies
  InSlots     \* the size of the incoming one

ASSUME SlotsAssumption == OutSlots \in Nat /\ InSlots \in Nat

VARIABLES outgoing, incoming

vars == <<outgoing, incoming>>

---------------------------------------------------------------------------
Init ==
  /\ outgoing = [i \in 1..OutSlots |-> Empty]
  /\ incoming = [i \in 1..InSlots |-> Empty]

Reserve(id, qos) ==
  /\ outgoing' = ReserveState(outgoing, id, qos).records
  /\ UNCHANGED incoming

UpdatePublish(id, op, qos) ==
  \/ /\ op = "Send"
     /\ outgoing' = UpdatePublishSend(outgoing, id, qos).records
     /\ UNCHANGED incoming
  \/ /\ op = "Receive"
     /\ incoming' = UpdatePublishReceive(incoming, id, qos).records
     /\ UNCHANGED outgoing

UpdateAck(id, ack, op) ==
  \/ /\ IsPublishOutgoing(ack, op)
     /\ outgoing' = UpdateAckIn(outgoing, id, ack, op).records
     /\ UNCHANGED incoming
  \/ /\ ~IsPublishOutgoing(ack, op)
     /\ incoming' = UpdateAckIn(incoming, id, ack, op).records
     /\ UNCHANGED outgoing

Remove(id) ==
  /\ outgoing' = RemoveState(outgoing, id).records
  /\ UNCHANGED incoming

ClearOutgoing ==
  /\ outgoing' = Clear(outgoing)
  /\ UNCHANGED incoming

ClearIncoming ==
  /\ incoming' = Clear(incoming)
  /\ UNCHANGED outgoing

Cap(out, in) ==
  /\ outgoing' = CapTo(outgoing, out)
  /\ incoming' = CapTo(incoming, in)

Next ==
  \/ \E id \in AnyId, qos \in QoS :
       \/ Reserve(id, qos)
       \/ \E op \in Operations : UpdatePublish(id, op, qos)
  \/ \E id \in AnyId, ack \in AckTypes, op \in Operations : UpdateAck(id, ack, op)
  \/ \E id \in AnyId : Remove(id)
  \/ ClearOutgoing
  \/ ClearIncoming
  \/ \E out \in 0..OutSlots, in \in 0..InSlots : Cap(out, in)

Spec == Init /\ [][Next]_vars

---------------------------------------------------------------------------
(* Invariants. *)

\* Type invariant: the arrays never grow past what the application supplied.
TypeOK ==
  /\ IsArray(outgoing, OutSlots)
  /\ IsArray(incoming, InSlots)

\* Whatever is called in whatever order, no packet id is in flight twice in
\* one direction and no record is in a state its handshake does not have.
\* The tables, the collision check of addRecord and the delete-and-re-add of
\* updateAck have to agree for this (state.rs 162-221, 316-361, 532-575).
RecordsWellFormed ==
  /\ WellFormed(outgoing, OutgoingStates)
  /\ WellFormed(incoming, IncomingStates)
  /\ UniqueIds(outgoing)
  /\ UniqueIds(incoming)

\* A publish is refused for lack of room only when every slot is in use:
\* compaction finds any hole, wherever it is (state.rs 323-327, 349-351).
RoomIsFound ==
  \A id \in PacketIds \ IdsIn(outgoing), q \in QoS \ {0} :
    ReserveState(outgoing, id, q).status = "NoMemory"
      <=> Occupied(outgoing) = DOMAIN outgoing

\* The resend cursor started at the front and passed to successive calls
\* answers every record that is owed, each once and in array order
\* (state.rs 387-402, 615-626, 679-686).
Sweep(records, wanted) ==
  LET n == Cardinality(DOMAIN records)
      step[k \in 0..n+1] ==
        IF k = 0 THEN [packet_id |-> PACKET_ID_INVALID, cursor |-> 0]
                 ELSE StateSelect(records, wanted, step[k-1].cursor)
  IN  [k \in 1..n |-> step[k].packet_id]

SweepsComplete ==
  \A wanted \in {PublishToResendStates, PubRelToResendStates} :
    LET answers == Sweep(outgoing, wanted)
        owed    == {i \in DOMAIN outgoing : outgoing[i].state \in wanted}
    IN  /\ \A i \in owed : answers[Cardinality({j \in owed : j <= i})]
                          = outgoing[i].packet_id
        /\ \A k \in DOMAIN answers :
             k > Cardinality(owed) => answers[k] = PACKET_ID_INVALID

---------------------------------------------------------------------------
(* Action properties. *)

\* An outgoing record disappears only at the end of its handshake, unless the
\* application removes it, the session is cleared, or Receive Maximum cuts it
\* off.  In particular the PUBREC move never loses the record it moves
\* (state.rs 556-571: the error of the second addRecord is unreachable).
OutgoingLeavesWhenDone ==
  [][ \A r \in {outgoing[i] : i \in Occupied(outgoing)} :
        r.packet_id \notin IdsIn(outgoing') =>
          \/ r.state \in {"PubAckPending", "PubCompPending"}
          \/ Remove(r.packet_id)
          \/ ClearOutgoing
          \/ \E out \in 0..OutSlots, in \in 0..InSlots : Cap(out, in)
    ]_vars

---------------------------------------------------------------------------
(* Refinement: each array implements InFlight. *)

Outgoing == INSTANCE InFlight WITH
  Ids         <- PacketIds,
  flight      <- Flight(outgoing),
  before      <- Before(outgoing),
  Starts      <- {<<1, "PublishSend">>, <<2, "PublishSend">>},
  Edges       <- {<<"PublishSend", "PubAckPending">>, <<"PublishSend", "PubRecPending">>,
                  <<"PubRecPending", "PubRelSend">>, <<"PubRelSend", "PubCompPending">>},
  Requeues    <- {<<"PubRecPending", "PubRelSend">>},
  Finals      <- {"PubAckPending", "PubCompPending"},
  MayWithdraw <- TRUE

Incoming == INSTANCE InFlight WITH
  Ids         <- PacketIds,
  flight      <- Flight(incoming),
  before      <- Before(incoming),
  Starts      <- {<<1, "PubAckSend">>, <<2, "PubRecSend">>},
  Edges       <- {<<"PubRecSend", "PubRelPending">>, <<"PubRelPending", "PubCompSend">>},
  Requeues    <- {},
  Finals      <- {"PubAckSend", "PubCompSend"},
  MayWithdraw <- FALSE

\* The outgoing array is an ordered set of handshakes: holes, compaction and
\* the end-first search are invisible, a new publish always goes last, and
\* only a PUBREC reorders (state.rs 15-26).
OutgoingImplementsInFlight == Outgoing!Spec

\* The incoming array too: and there nothing reorders, and a record leaves
\* only by completing, by a clean session or by being cut off.
IncomingImplementsInFlight == Incoming!Spec

\* Neither array gets into the other's way.
ArraysImplementInFlight == OutgoingImplementsInFlight /\ IncomingImplementsInFlight
=============================================================================
