-------------------------- MODULE MCExecutionHost --------------------------
(***************************************************************************)
(* Small instances of ExecutionHost.  Each configuration lets some kinds   *)
(* of work happen and bounds the others at zero; every kind happens beside *)
(* every other in at least one of them.                                    *)
(***************************************************************************)
EXTENDS ExecutionHost, TLC

\* Every progress status is on the same side of the grants' gates as one of
\* these two.
MCReported == {"installing", "reconciling"}
MCVersions == {1, 2}

\* Ports are only compared, and the properties are invariants.
MCSymmetry == Permutations(Ports)
=============================================================================
