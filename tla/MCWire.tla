------------------------------- MODULE MCWire -------------------------------
(* A small instance of Wire for TLC: lengths in base 2, so that a length of *)
(* two takes two bytes.                                                     *)
EXTENDS Wire

\* The parts of a packet by their lengths, as offsets in the packet.
Parts(lengths, from) ==
  LET start[i \in 0..Len(lengths)] == IF i = 0 THEN from ELSE start[i - 1] + lengths[i]
  IN  [i \in DOMAIN lengths |-> [k \in 1..lengths[i] |-> start[i - 1] + k]]

MCPackets == {Framed(PingRespByte, <<>>), Framed(50, <<48, 0>>), Framed(DisconnectByte, <<>>),
              Framed(PublishByte, <<48, 0, 48>>)}
MCAnswered == {50}
MCConnAckBodies == {<<0, 0>>, <<128, 1>>}
MCSendings ==
  {[what |-> "Subscribe", sender |-> "Vectors",
    gathers |-> <<Parts(<<0, 2>>, 0), Parts(<<1>>, 2)>>]}
MCConnection == Parts(<<2>>, 0)
MCPing == Parts(<<2>>, 0)
MCAck == Parts(<<1>>, 0)
=============================================================================
