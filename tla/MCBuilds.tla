------------------------------- MODULE MCBuilds -------------------------------
(***************************************************************************)
(* InstructionBuilds on small sets, for TLC.  Requests, instructions and   *)
(* versions are interchangeable: no definition orders them, and the        *)
(* properties of the runs that use the symmetry are safety properties.     *)
(***************************************************************************)
EXTENDS InstructionBuilds, TLC

Symmetry == Permutations(Requests) \cup Permutations(Ins) \cup Permutations(Ver)
=============================================================================
