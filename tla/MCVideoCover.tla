---------------------------- MODULE MCVideoCover ----------------------------
(* The instance of VideoCover for TLC. *)
EXTENDS VideoCover, TLC

CONSTANTS v1, v2, k1, k2, p1, p2

Interchangeable == Permutations(Variants) \union Permutations(Keys) \union Permutations(Procs)
=============================================================================
