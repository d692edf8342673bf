--------------------------- MODULE CompletionStatus ---------------------------
(***************************************************************************)
(* What the status of a completion promises to everybody who reads it, its  *)
(* writers left aside: a run settles it once, a stop that comes before is   *)
(* written even if the run settles it meanwhile, one that comes after is    *)
(* not, a failure may spoil what was settled, and nothing ever turns an     *)
(* error into a success.                                                    *)
(***************************************************************************)
CONSTANT Completions
VARIABLES row,      \* status of the completion's row, "none" before there is one
          decided,  \* status its run has last taken for final, or "none"
          pending   \* completions found in progress by a stop not yet written

Final == {"success", "stopped", "error"}
status == <<row, decided, pending>>

Init == /\ row = [c \in Completions |-> "none"]
        /\ decided = [c \in Completions |-> "none"]
        /\ pending = {}

\* The request has saved its rows.
Open(c) == /\ row[c] = "none"
           /\ row' = [row EXCEPT ![c] = "in_progress"]
           /\ UNCHANGED <<decided, pending>>

\* The run writes its first final status, over a stop it has not heard of or
\* has come to obey.
Settle(c, s) == /\ row[c] \in {"in_progress", "stopped"} /\ decided[c] = "none"
                /\ row' = [row EXCEPT ![c] = s]
                /\ UNCHANGED <<decided, pending>>

\* A failure is written over everything.
Spoil(c) == /\ row[c] # "none"
            /\ row' = [row EXCEPT ![c] = "error"]
            /\ UNCHANGED <<decided, pending>>

\* A stop finds the completion in progress.
Ask(c) == /\ row[c] = "in_progress" /\ c \notin pending
          /\ pending' = pending \cup {c}
          /\ UNCHANGED <<row, decided>>

\* It is written while the completion still is.
Stop(c) == /\ c \in pending /\ row[c] = "in_progress"
           /\ row' = [row EXCEPT ![c] = "stopped"] /\ pending' = pending \ {c}
           /\ UNCHANGED decided

\* It is written over what the run has settled meanwhile.
Overtake(c) == /\ c \in pending /\ row[c] \in Final
               /\ row' = [row EXCEPT ![c] = "stopped"] /\ pending' = pending \ {c}
               /\ UNCHANGED decided

\* The run goes by a success or a stop only after it has written it.
Decide(c, s) == /\ row[c] # "none" /\ decided[c] # "error"
                /\ s = "error" \/ (row[c] \in {s, "stopped"} /\ decided[c] = "none")
                /\ decided' = [decided EXCEPT ![c] = s]
                /\ UNCHANGED <<row, pending>>

Next == \E c \in Completions :
          \/ Open(c) \/ Spoil(c) \/ Ask(c) \/ Stop(c) \/ Overtake(c)
          \/ \E s \in Final : Settle(c, s) \/ Decide(c, s)

Spec == Init /\ [][Next]_status
==============================================================================
