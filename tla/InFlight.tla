----------------------------- MODULE InFlight -----------------------------
(***************************************************************************)
(* What one direction of the publish records promises, with no slots, no   *)
(* holes and no compaction: a set of in-flight messages, at most one per   *)
(* packet id, each moving along the edges of its handshake, and a strict   *)
(* total order on them which is the order they will be resent in.          *)
(*                                                                         *)
(* PublishRecords implements two copies of this specification, one with    *)
(* the outgoing and one with the incoming handshake (see there).           *)
(***************************************************************************)
EXTENDS Integers

CONSTANTS
  Ids,            \* packet ids
  Starts,         \* the <<qos, state>> pairs a new record may have
  Edges,          \* the <<state, state>> steps of the handshake
  Requeues,       \* the edges that move the message to the end of the order
  Finals,         \* the states a message completes from
  MayWithdraw     \* TRUE if the application may drop a single message

VARIABLES
  flight,         \* the set of records in flight
  before          \* <<x, y>> \in before: x is resent before y

vars == <<flight, before>>

IdsOf(S) == {r.packet_id : r \in S}

\* The order restricted to a set of ids.
Among(S) == {p \in before : p[1] \in S /\ p[2] \in S}

Init == flight = {} /\ before = {}

Admit(id) ==
  /\ id \notin IdsOf(flight)
  /\ \E s \in Starts :
       flight' = flight \cup {[packet_id |-> id, qos |-> s[1], state |-> s[2]]}
  /\ before' = before \cup (IdsOf(flight) \X {id})

Advance(r) ==
  \E e \in Edges :
    /\ r.state = e[1]
    /\ flight' = (flight \ {r}) \cup {[r EXCEPT !.state = e[2]]}
    /\ LET others == IdsOf(flight) \ {r.packet_id}
       IN  before' = IF e \in Requeues
                     THEN Among(others) \cup (others \X {r.packet_id})
                     ELSE before

Drop(S) ==
  /\ flight' = flight \ S
  /\ before' = Among(IdsOf(flight \ S))

Complete(r) == r.state \in Finals /\ Drop({r})

Withdraw(r) == MayWithdraw /\ Drop({r})

\* Everything from some point of the order on is lost.
Truncate(S) ==
  /\ \A p \in before : p[1] \in IdsOf(S) => p[2] \in IdsOf(S)
  /\ Drop(S)

Next ==
  \/ \E id \in Ids : Admit(id)
  \/ \E r \in flight : Advance(r) \/ Complete(r) \/ Withdraw(r)
  \/ \E S \in SUBSET flight : Truncate(S)

Spec == Init /\ [][Next]_vars
=============================================================================
