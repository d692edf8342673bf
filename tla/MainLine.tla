------------------------------- MODULE MainLine -------------------------------
(***************************************************************************)
(* What the build system promises its users: one live snapshot per         *)
(* organization, advanced only by landing somebody's proposal on top of    *)
(* whatever is live at that moment, or by restoring an approved snapshot.  *)
(* Promoting, merging, copying and the requests in flight do not show.     *)
(***************************************************************************)
EXTENDS Snapshots

CONSTANTS
  Ids   \* identities of proposals

VARIABLES
  live,        \* the snapshot the agents read
  approved,    \* every snapshot that was approved
  proposals    \* Ids -> the open proposals as [from, to], Closed otherwise

vars == <<live, approved, proposals>>

Closed == [from |-> Empty, to |-> Empty, open |-> FALSE]

Proposal(f, t) == [from |-> f, to |-> t, open |-> TRUE]

TypeOK ==
  /\ live \in Snapshot
  /\ approved \subseteq Snapshot
  /\ proposals \in [Ids -> [from : Snapshot, to : Snapshot, open : BOOLEAN]]

Init ==
  /\ live \in Snapshot
  /\ approved = {live}
  /\ proposals = [p \in Ids |-> Closed]

\* A proposal starts as a fork of what is live.
Fork(p) ==
  /\ ~proposals[p].open
  /\ proposals' = [proposals EXCEPT ![p] = Proposal(live, live)]
  /\ UNCHANGED <<live, approved>>

\* Its author changes it; what it was forked from never moves.
Edit(p) ==
  /\ proposals[p].open
  /\ \E t \in Snapshot :
       proposals' = [proposals EXCEPT ![p] = Proposal(@.from, t)]
  /\ UNCHANGED <<live, approved>>

Reject(p) ==
  /\ proposals[p].open
  /\ proposals' = [proposals EXCEPT ![p] = Closed]
  /\ UNCHANGED <<live, approved>>

\* The whole change lands, nobody else's is undone, and the proposal is spent.
Land(p) ==
  /\ proposals[p].open
  /\ live' = Merge(proposals[p].from, proposals[p].to, live)
  /\ approved' = approved \cup {proposals[p].to, live'}
  /\ proposals' = [proposals EXCEPT ![p] = Closed]

\* Rolling back is a new landing of an old approved snapshot, as a whole.
Restore ==
  /\ live' \in approved
  /\ UNCHANGED <<approved, proposals>>

Next == Restore \/ \E p \in Ids : Fork(p) \/ Edit(p) \/ Reject(p) \/ Land(p)

Spec == Init /\ [][Next]_vars
=============================================================================
