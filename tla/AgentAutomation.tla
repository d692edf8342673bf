---------------------------- MODULE AgentAutomation ----------------------------
(***************************************************************************)
(* The automation runs of one agent (run_automation of                     *)
(* agent_reliability_service): background tasks that evaluate the agent,   *)
(* train it and evaluate it again.  At most one is meant to run at a time: *)
(* the set _INFLIGHT of the process and the rows with status running are   *)
(* tested at the gate, the first is added to several awaits later and the  *)
(* second written after that.  One worker process; its death ends every    *)
(* task, empties _INFLIGHT and leaves the rows.                            *)
(*                                                                         *)
(* Who calls a task, and what becomes of its outcome, is left to the       *)
(* module that extends this one.                                           *)
(***************************************************************************)
EXTENDS Naturals, FiniteSets

CONSTANTS
  MaxTasks,   \* bound: calls of run_automation
  MaxFaults   \* bound: kinds of faults that strike

ASSUME AutomationAssumption == MaxTasks \in Nat /\ MaxFaults \in Nat

VARIABLES
  task,      \* Tasks -> where each call is
  inflight,  \* the agent is in _INFLIGHT
  running,   \* the tasks whose agent_automation_runs row has the status running
  faults,    \* history: the kinds of faults that have struck
  raced      \* history: two calls have been between the gate and _INFLIGHT at once

automation == <<task, inflight, running>>
vars_automation == <<automation, faults, raced>>

Tasks == 1 .. MaxTasks
Kinds == {"run_eval", "run_training"}   \* without and with training
Callers == {"admin", "trigger"}
\* "passed" also stands for passed_pending, "failed" for gave_up, no_evals,
\* skipped and error: nobody tells those apart.
Verdicts == {"passed", "failed"}
FaultKinds == {"record", "finish", "report", "death"}

\* Where a call is; "done" hands the verdict to whoever called.
Stages == {"idle", "called", "entering", "recording", "evaluating", "finishing",
           "done", "reporting", "over"}
Task == [stage : Stages, kind : Kinds, caller : Callers, verdict : Verdicts]

At(t, s) == task[t].stage = s

\* A call keeps its kind and its caller and forgets the rest at the end.
Ended(p, s, v) == [p EXCEPT !.stage = s, !.verdict = v]
Moved(t, s) == [task EXCEPT ![t].stage = s]
Concluded(t, s, v) == [task EXCEPT ![t] = Ended(@, s, v)]

\* The calls that are at work, and those between the gate and _INFLIGHT.
Inside(t) == task[t].stage \in {"recording", "evaluating", "finishing"}
Between(t) == At(t, "entering")
Live(t) == task[t].stage \notin {"idle", "over"}

\* A fault of kind k strikes.
Strike(k) == Cardinality(faults) < MaxFaults /\ faults' = faults \cup {k}

AutomationInit ==
  /\ task = [t \in Tasks |-> [stage |-> "idle", kind |-> "run_eval", caller |-> "trigger",
                              verdict |-> "failed"]]
  /\ inflight = FALSE
  /\ running = {}
  /\ faults = {}
  /\ raced = FALSE
-----------------------------------------------------------------------------
\* create_task: the next call starts.
Called(t, kind, caller) ==
  /\ At(t, "idle") /\ \A u \in Tasks : u < t => ~At(u, "idle")
  /\ task' = [task EXCEPT ![t].stage = "called", ![t].kind = kind, ![t].caller = caller]

\* The guard: the agent is in _INFLIGHT, or a row says so.
Busy == inflight \/ running # {}

\* A call ends with a row that was never running (_record).
Refused(t) == task' = Concluded(t, "done", "failed")

\* The policy may be off for a trigger, never for an admin; a busy agent is skipped.
Gate(t) ==
  /\ At(t, "called")
  /\ \/ /\ Busy \/ task[t].caller = "trigger"
        /\ Refused(t) /\ UNCHANGED raced
     \/ /\ ~Busy
        /\ task' = Moved(t, "entering")
        /\ raced' = (raced \/ \E u \in Tasks : Between(u))
  /\ UNCHANGED <<inflight, running, faults>>

\* No active evals, nobody to attribute the run to, a statement that raises; or
\* the agent is taken.
Enter(t) ==
  /\ At(t, "entering")
  /\ \/ Refused(t) /\ UNCHANGED inflight
     \/ inflight' = TRUE /\ task' = Moved(t, "recording")
  /\ UNCHANGED <<running, faults, raced>>

\* Its row is committed as running.
Record(t) ==
  /\ At(t, "recording")
  /\ running' = running \cup {t}
  /\ task' = Moved(t, "evaluating")
  /\ UNCHANGED <<inflight, faults, raced>>

\* The baseline evaluation, with training a bounded number of rounds of training
\* and evaluation, promotion; whatever raises in between makes it a failure.
Evaluate(t) ==
  /\ At(t, "evaluating")
  /\ \E v \in Verdicts : task' = [task EXCEPT ![t].stage = "finishing", ![t].verdict = v]
  /\ UNCHANGED <<inflight, running, faults, raced>>

\* Fault: the finally clause is missing.
FinishHeld(t) ==
  /\ At(t, "finishing")
  /\ running' = running \ {t}
  /\ task' = Concluded(t, "done", task[t].verdict)
  /\ UNCHANGED <<inflight, faults, raced>>

\* _finish commits the verdict, and the finally clause takes the agent out of
\* _INFLIGHT; in between nobody finds it less busy than before.
Finish(t) ==
  /\ At(t, "finishing")
  /\ running' = running \ {t}
  /\ inflight' = FALSE
  /\ task' = Concluded(t, "done", task[t].verdict)
  /\ UNCHANGED <<faults, raced>>
-----------------------------------------------------------------------------
\* The first commit fails.  The agent stays in _INFLIGHT: the try block whose
\* finally clause would take it out has not been reached.
RecordFails(t) ==
  /\ At(t, "recording") /\ Strike("record")
  /\ task' = Concluded(t, "done", "failed")
  /\ UNCHANGED <<inflight, running, raced>>

\* The commit of the verdict fails.  The except clause finishes once more with an
\* error, unless the session is unusable: then the row stays running for ever.
FinishFails(t) ==
  /\ At(t, "finishing") /\ Strike("finish")
  /\ \/ task' = [task EXCEPT ![t].verdict = "failed"] /\ UNCHANGED inflight
     \/ task' = Concluded(t, "done", "failed") /\ inflight' = FALSE
  /\ UNCHANGED <<running, raced>>

\* The process dies.
Die ==
  /\ Strike("death")
  /\ task' = [t \in Tasks |-> IF Live(t) THEN Ended(task[t], "over", "failed") ELSE task[t]]
  /\ inflight' = FALSE
  /\ UNCHANGED <<running, raced>>

AutomationStep(t) == Gate(t) \/ Enter(t) \/ Record(t) \/ Evaluate(t) \/ Finish(t)
-----------------------------------------------------------------------------
AutomationTypeOK ==
  /\ task \in [Tasks -> Task]
  /\ inflight \in BOOLEAN
  /\ running \subseteq Tasks
  /\ faults \subseteq FaultKinds
  /\ raced \in BOOLEAN

\* _INFLIGHT is there "so two triggers for the same agent don't run concurrently
\* inside one worker": it keeps them apart unless two calls were between the gate
\* and _INFLIGHT at once.
OneAtATime == ~raced => \A t, u \in Tasks : Inside(t) /\ Inside(u) => t = u

\* Nothing blocks an agent but a call at work, except after a fault: a first
\* commit that failed leaves it in _INFLIGHT, a last one or a death its row.
NeverBlocked ==
  /\ inflight /\ "record" \notin faults => \E t \in Tasks : Inside(t)
  /\ faults \cap {"finish", "death"} = {} => \A t \in running : Inside(t)

\* The guard of an agent excludes what it should and nothing else.
GuardHolds == OneAtATime /\ NeverBlocked
=============================================================================
