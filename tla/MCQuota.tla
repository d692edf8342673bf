-------------------------------- MODULE MCQuota --------------------------------
(***************************************************************************)
(* UsageQuota on small sets, for TLC.                                      *)
(***************************************************************************)
EXTENDS UsageQuota, TLC

\* The token limit is raised while the others are lowered or lifted.
MCPolicies ==
  <<[tokens |-> 2, cost |-> 2, queries |-> 2, bytes |-> 2],
    [tokens |-> 3, cost |-> 1, queries |-> 1, bytes |-> NoLimit]>>

Symmetry == Permutations(Agents)
=============================================================================
