-------------------------- MODULE MCAssignmentEdit --------------------------
(* Instances of AssignmentEdit, and with it of AssignmentStore, for TLC.    *)
EXTENDS AssignmentEdit, TLC

CONSTANTS s1, s2, e1, e2, d1, r1

AllTypes ==
  (e1 :> "encoder_recorder") @@ (e2 :> "encoder_recorder") @@ (d1 :> "discord_bot")
TwoTypes == {"encoder_recorder", "discord_bot"}
EncoderOnly == {"encoder_recorder"}
ThreeServices == <<d1, e1, e2>>
Interchangeable == Permutations(Stream)
=============================================================================
