------------------------- MODULE MCAssignmentLocks -------------------------
(* Instances of AssignmentLocks for TLC.                                   *)
EXTENDS AssignmentLocks, TLC

CONSTANTS s1, s2, e1, e2, a1, a2

MCStreams == <<s1, s2>>
Encoders == <<e1, e2>>
MCTypeOf == (e1 :> "encoder_recorder") @@ (e2 :> "encoder_recorder")
OneType == {"encoder_recorder"}
StreamAgainstAll ==
  (a1 :> {"assign", "create", "claim", "deleteStream"}) @@ (a2 :> Kind)
=============================================================================
