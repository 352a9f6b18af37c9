------------------------- MODULE MCStreamLifecycle -------------------------
(* Instances of StreamLifecycle for TLC. *)
EXTENDS StreamLifecycle, TLC

CONSTANTS r1, r2, r3, r4, p1, p2

MCReq == {r1, r2, r3}
MCReq4 == {r1, r2, r3, r4}
MCPanels == {p1, p2}
MCOnePanel == {p1}
Interchangeable == Permutations(Req) \union Permutations(Panel)
=============================================================================
