------------------------------ MODULE Snapshots ------------------------------
(***************************************************************************)
(* A snapshot of an organization's instructions: which version of each     *)
(* instruction it holds, if any.  It is the data of one InstructionBuild   *)
(* (its BuildContent rows, unique per build and instruction), abstracted   *)
(* to a function.  Versions are told apart, never looked into.             *)
(***************************************************************************)
CONSTANTS
  Ins,    \* the instructions of the organization
  Ver,    \* the instruction versions
  NoVer   \* stands for "the snapshot does not hold this instruction"

ASSUME NoVerAssumption == NoVer \notin Ver

Snapshot == [Ins -> Ver \cup {NoVer}]

Empty == [i \in Ins |-> NoVer]

Holds(s) == {i \in Ins : s[i] # NoVer}

\* What has to be written on top of `onto` so that it also carries the change
\* that leads from `from` to `to`: additions, modifications and removals win
\* over whatever `onto` holds for the same instruction.
Merge(from, to, onto) ==
  [i \in Ins |-> IF to[i] # from[i] THEN to[i] ELSE onto[i]]

\* Rows copied from `s` beside the rows `t` already has (disjoint instructions).
Beside(s, t) == [i \in Ins |-> IF s[i] # NoVer THEN s[i] ELSE t[i]]
=============================================================================
