--------------------------- MODULE MCMqttSession ---------------------------
(* Small instances of MqttSession for TLC; the cfg files give the packet ids *)
(* as model values.                                                          *)
EXTENDS MqttSession

\* No definition of MqttSession tells one packet id from another.
IdSymmetry == Permutations(PacketIds)
=============================================================================
