------------------------- MODULE MCPublishRecords -------------------------
(* PublishRecords on small arrays; packet ids are interchangeable. *)
EXTENDS PublishRecords, TLC

IdSymmetry == Permutations(PacketIds)
=============================================================================
