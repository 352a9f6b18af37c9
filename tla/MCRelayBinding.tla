--------------------------- MODULE MCRelayBinding ---------------------------
(* Instances of RelayBinding: streams that share the binding.              *)
EXTENDS RelayBinding, TLC

CONSTANTS s1, s2, c1

Interchangeable == Permutations(Stream)

=============================================================================
