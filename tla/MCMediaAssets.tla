---------------------------- MODULE MCMediaAssets ----------------------------
(* The instance of MediaAssets for TLC. *)
EXTENDS MediaAssets

CONSTANTS s1, a1, a2, x1, p1, c1, w1
=============================================================================
