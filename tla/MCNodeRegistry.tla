--------------------------- MODULE MCNodeRegistry ---------------------------
(* The registry with one updater and one other node.                       *)
EXTENDS NodeRegistry, TLC

MCStages == {"connecting", "succeeded", "failed"}
=============================================================================
