------------------------------ MODULE MCIndexing ------------------------------
(***************************************************************************)
(* ConnectionIndexing on small sets, for TLC.                              *)
(***************************************************************************)
EXTENDS ConnectionIndexing, TLC

\* Only for safety: tables and requests are interchangeable.
Symmetry == Permutations(Tables) \cup Permutations(Requests)
=============================================================================
