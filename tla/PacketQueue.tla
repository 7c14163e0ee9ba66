---------------------------- MODULE PacketQueue ----------------------------
(***************************************************************************)
(* The packets of a connection as their receiver is to see them: a queue,  *)
(* in which a packet is named by where it ends in the stream.              *)
(***************************************************************************)
EXTENDS Integers

VARIABLES waiting, open

Init == waiting = {} /\ ~open

Put ==
  /\ \E n \in waiting' : (\A w \in waiting : w < n) /\ waiting' = waiting \cup {n}
  /\ UNCHANGED open

HandOver ==
  /\ \E n \in waiting : (\A w \in waiting : n <= w) /\ waiting' = waiting \ {n}
  /\ UNCHANGED open

Open == open' /\ UNCHANGED waiting

\* A connection is lost with what is under way on it.
Close == ~open' /\ waiting' \in {waiting, {}}

Next == Put \/ HandOver \/ Open \/ Close

Spec == Init /\ [][Next]_<<waiting, open>>
=============================================================================
