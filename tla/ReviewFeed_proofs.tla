-------------------------- MODULE ReviewFeed_proofs --------------------------
(***************************************************************************)
(* Theorems about ReviewFeed for every number of emissions, requests and   *)
(* automation runs: type correctness, the guard of an agent, one item per  *)
(* condition, dismissals, and items in progress.                           *)
(***************************************************************************)
EXTENDS ReviewFeed, FiniteSetTheorems, TLAPS

\* The calls that have got past the gate.
Past(t) == Between(t) \/ Inside(t)

\* Without a race one call at a time is past the gate, and one at work is in _INFLIGHT.
GuardSound ==
  ~raced => /\ \A t, u \in Tasks : Past(t) /\ Past(u) => t = u
            /\ \A t \in Tasks : Inside(t) => inflight

\* A call whose row was written has got that far.
Fresh(t) == task[t].stage \in {"idle", "called", "entering", "recording"}
RowsLate == \A t \in running : ~Fresh(t)

AutomationInv == AutomationTypeOK /\ GuardSound /\ RowsLate /\ NeverBlocked

\* Emissions in flight together have met; one that has not inserted has no row,
\* and one that is not over is not among the sources of an item.
EmissionsMet ==
  /\ \A d, e \in Emissions : InFlight(d) /\ InFlight(e) /\ d # e => e \in met
  /\ \A e \in Emissions : emission[e].stage # "over" =>
       items[e].status = "absent" /\ \A i \in Items : e \notin sources[i]

\* Whoever works on an item works on one that exists.
Referenced ==
  /\ \A r \in Requests : Acting(r) => request[r].item \in Items /\ items[request[r].item].status # "absent"
  /\ \A t \in Tasks : subject[t].item # NoItem => items[subject[t].item].status # "absent"
  /\ \A t \in Tasks : At(t, "reporting") => subject[t].item # NoItem

\* A bump is about to write one more than it has read.
BumpSound ==
  \A e \in Emissions : emission[e].stage = "bumping" =>
    LET i == emission[e].item IN
      /\ i \in Items /\ items[i].status # "absent"
      /\ emission[e].seen <= Cardinality(sources[i])
      /\ e \notin met => emission[e].seen = items[i].count

\* An insertion has found nothing active and nothing freshly dismissed.
InsertSound ==
  \A e \in Emissions :
    /\ emission[e].stage \in {"checking", "inserting"} /\ e \notin met => ActiveItems \subseteq revived
    /\ emission[e].stage = "checking" => barred[e] \ revived \subseteq FreshlyDismissed
    /\ emission[e].stage = "inserting" => barred[e] \subseteq revived

FeedInv == EmissionsMet /\ Referenced /\ BumpSound /\ InsertSound /\ Deduplicated

IInv == TypeOK /\ GuardSound /\ RowsLate /\ NeverBlocked /\ FeedInv
-----------------------------------------------------------------------------
LEMMA TaskMoves ==
  ASSUME task \in [Tasks -> Task], NEW t \in Tasks, NEW s \in Stages, NEW v \in Verdicts
  PROVE  /\ Moved(t, s) \in [Tasks -> Task] /\ Concluded(t, s, v) \in [Tasks -> Task]
         /\ Ended(task[t], s, v) \in Task
         /\ Moved(t, s)[t].stage = s /\ Concluded(t, s, v)[t].stage = s
         /\ \A u \in Tasks \ {t} : Moved(t, s)[u] = task[u] /\ Concluded(t, s, v)[u] = task[u]
BY DEF Moved, Concluded, Ended, Task

LEMMA StageSet ==
  /\ "called" \in Stages /\ "entering" \in Stages /\ "recording" \in Stages /\ "evaluating" \in Stages
  /\ "finishing" \in Stages /\ "done" \in Stages /\ "reporting" \in Stages /\ "over" \in Stages
  /\ "passed" \in Verdicts /\ "failed" \in Verdicts
BY DEF Stages, Verdicts

\* What the steps of a call do to its stage, one disjunct at a time.
LEMMA GateMoves ==
  ASSUME task \in [Tasks -> Task], raced \in BOOLEAN, NEW t \in Tasks, Gate(t)
  PROVE  /\ UNCHANGED <<inflight, running, faults>>
         /\ \/ task' = Concluded(t, "done", "failed") /\ raced' = raced
            \/ /\ task' = Moved(t, "entering") /\ ~Busy
               /\ raced' = (raced \/ \E u \in Tasks : Between(u))
BY DEF Gate, Refused

LEMMA EnterMoves ==
  ASSUME NEW t \in Tasks, Enter(t)
  PROVE  /\ UNCHANGED <<running, faults, raced>>
         /\ \/ task' = Concluded(t, "done", "failed") /\ inflight' = inflight
            \/ task' = Moved(t, "recording") /\ inflight' = TRUE /\ At(t, "entering")
BY DEF Enter, Refused

LEMMA FinishFailsMoves ==
  ASSUME task \in [Tasks -> Task], NEW t \in Tasks, FinishFails(t)
  PROVE  /\ UNCHANGED <<running, raced>> /\ At(t, "finishing")
         /\ \/ task' = [task EXCEPT ![t].verdict = "failed"] /\ inflight' = inflight
            \/ task' = Concluded(t, "done", "failed") /\ inflight' = FALSE
BY DEF FinishFails

LEMMA StrikeType ==
  ASSUME NEW k \in FaultKinds, Strike(k), faults \subseteq FaultKinds
  PROVE  faults' \subseteq FaultKinds /\ faults' = faults \cup {k}
BY DEF Strike

\* The automation keeps its type.
LEMMA AutomationType ==
  ASSUME AutomationTypeOK, NEW t \in Tasks,
         AutomationStep(t) \/ RecordFails(t) \/ FinishFails(t) \/ Die
  PROVE  AutomationTypeOK'
<1> USE StageSet
<1>1. task \in [Tasks -> Task] /\ task[t] \in Task /\ task[t].verdict \in Verdicts
      /\ raced \in BOOLEAN /\ inflight \in BOOLEAN /\ running \subseteq Tasks /\ faults \subseteq FaultKinds
  BY DEF AutomationTypeOK, Task
<1>2. CASE Gate(t)
  <2>1. task' \in [Tasks -> Task] /\ UNCHANGED <<inflight, running, faults>>
    <3>1. CASE task' = Concluded(t, "done", "failed")
      BY <1>1, <1>2, <3>1, TaskMoves, GateMoves
    <3>2. CASE task' = Moved(t, "entering")
      BY <1>1, <1>2, <3>2, TaskMoves, GateMoves
    <3> QED BY <1>1, <1>2, <3>1, <3>2, GateMoves
  <2>2. raced' \in BOOLEAN
    BY <1>1, <1>2, GateMoves, Zenon
  <2> QED BY <1>1, <2>1, <2>2 DEF AutomationTypeOK
<1>3. CASE Enter(t)
  <2>1. CASE task' = Concluded(t, "done", "failed") /\ inflight' = inflight
    BY <1>1, <1>3, <2>1, TaskMoves, EnterMoves DEF AutomationTypeOK
  <2>2. CASE task' = Moved(t, "recording") /\ inflight' = TRUE
    BY <1>1, <1>3, <2>2, TaskMoves, EnterMoves DEF AutomationTypeOK
  <2> QED BY <1>3, <2>1, <2>2, EnterMoves
<1>4. CASE Record(t)
  BY <1>1, <1>4, TaskMoves DEF Record, AutomationTypeOK
<1>5. CASE Evaluate(t)
  BY <1>1, <1>5, ZenonT(60) DEF Evaluate, Task, AutomationTypeOK
<1>6. CASE Finish(t)
  BY <1>1, <1>6, TaskMoves DEF Finish, AutomationTypeOK
<1>7. CASE RecordFails(t)
  BY <1>1, <1>7, TaskMoves DEF RecordFails, Strike, FaultKinds, AutomationTypeOK
<1>8. CASE FinishFails(t)
  <2>1. faults' \subseteq FaultKinds /\ UNCHANGED <<running, raced>>
    BY <1>1, <1>8, StrikeType DEF FinishFails, FaultKinds
  <2>2. CASE task' = [task EXCEPT ![t].verdict = "failed"] /\ inflight' = inflight
    BY <1>1, <2>1, <2>2 DEF Task, AutomationTypeOK
  <2>3. CASE task' = Concluded(t, "done", "failed") /\ inflight' = FALSE
    BY <1>1, <2>1, <2>3, TaskMoves DEF AutomationTypeOK
  <2> QED BY <1>1, <1>8, <2>2, <2>3, FinishFailsMoves
<1>9. CASE Die
  <2>1. \A u \in Tasks : Ended(task[u], "over", "failed") \in Task
    BY <1>1, TaskMoves
  <2> QED BY <1>1, <1>9, <2>1 DEF Die, Strike, FaultKinds, AutomationTypeOK
<1> QED BY <1>2, <1>3, <1>4, <1>5, <1>6, <1>7, <1>8, <1>9 DEF AutomationStep

LEMMA CalledMoves ==
  ASSUME AutomationTypeOK, NEW t \in Tasks, NEW kind \in Kinds, NEW caller \in Callers,
         Called(t, kind, caller)
  PROVE  /\ task' \in [Tasks -> Task]
         /\ At(t, "idle") /\ task'[t].stage = "called"
         /\ \A u \in Tasks \ {t} : task'[u] = task[u]
<1> DEFINE p == [task[t] EXCEPT !.stage = "called", !.kind = kind, !.caller = caller]
<1>1. task' = [task EXCEPT ![t] = p] /\ At(t, "idle")
  BY DEF Called
<1>2. p \in Task /\ p.stage = "called"
  BY StageSet DEF Task, AutomationTypeOK
<1> HIDE DEF p
<1> QED BY <1>1, <1>2 DEF AutomationTypeOK

\* A call that moves to another stage leaves the others where they are.
LEMMA MovesOne ==
  ASSUME task \in [Tasks -> Task], NEW t \in Tasks, NEW s \in Stages,
         task' = Moved(t, s) \/ \E v \in Verdicts : task' = Concluded(t, s, v)
  PROVE  /\ Inside(t)' <=> s \in {"recording", "evaluating", "finishing"}
         /\ Past(t)' <=> s \in {"entering", "recording", "evaluating", "finishing"}
         /\ Fresh(t)' <=> s \in {"idle", "called", "entering", "recording"}
         /\ \A u \in Tasks \ {t} : /\ (Past(u)' <=> Past(u)) /\ (Inside(u)' <=> Inside(u))
                                 /\ (Fresh(u)' <=> Fresh(u))
<1>1. ASSUME task' = Moved(t, s)
      PROVE  task'[t].stage = s /\ \A u \in Tasks \ {t} : task'[u] = task[u]
  BY <1>1 DEF Moved, Task
<1>2. ASSUME NEW v \in Verdicts, task' = Concluded(t, s, v)
      PROVE  task'[t].stage = s /\ \A u \in Tasks \ {t} : task'[u] = task[u]
  BY <1>2, TaskMoves
<1>3. task'[t].stage = s /\ \A u \in Tasks \ {t} : task'[u] = task[u]
  BY <1>1, <1>2
<1> QED BY <1>3 DEF Past, Inside, Between, Fresh, At

\* Where a call is says whether it is past the gate.
LEMMA WhereIs ==
  ASSUME NEW t \in Tasks
  PROVE  /\ Inside(t) => Past(t)
         /\ At(t, "called") => ~Past(t) /\ ~Inside(t)
         /\ At(t, "entering") => Past(t) /\ ~Inside(t)
         /\ At(t, "recording") \/ At(t, "evaluating") \/ At(t, "finishing") => Past(t) /\ Inside(t)
BY DEF Past, Inside, Between, At

\* The guard of an agent, step by step: which calls it moves in or out of Past and
\* Inside.
LEMMA GuardStep ==
  ASSUME AutomationInv, NEW t \in Tasks,
         AutomationStep(t) \/ RecordFails(t) \/ FinishFails(t) \/ Die
  PROVE  GuardSound' /\ NeverBlocked'
<1> USE StageSet
<1>1. task \in [Tasks -> Task] /\ raced \in BOOLEAN /\ task[t].verdict \in Verdicts /\ running \subseteq Tasks
  BY DEF AutomationInv, AutomationTypeOK, Task
<1>0. GuardSound /\ NeverBlocked
  BY DEF AutomationInv
<1>2. CASE Gate(t)
  <2>0. UNCHANGED <<inflight, running, faults>> /\ At(t, "called") /\ \A u \in Tasks : Inside(u)' <=> Inside(u)
    <3>0. At(t, "called") /\ ~Inside(t)
      BY <1>2, WhereIs DEF Gate
    <3>1. CASE task' = Concluded(t, "done", "failed")
      BY <1>1, <1>2, <3>0, <3>1, MovesOne, GateMoves
    <3>2. CASE task' = Moved(t, "entering")
      BY <1>1, <1>2, <3>0, <3>2, MovesOne, GateMoves
    <3> QED BY <1>1, <1>2, <3>1, <3>2, GateMoves
  <2>1. NeverBlocked'
    BY <1>0, <1>1, <2>0 DEF NeverBlocked
  <2>2. CASE task' = Concluded(t, "done", "failed") /\ raced' = raced
    <3>1. \A u \in Tasks : Past(u)' => Past(u)
      BY <1>1, <2>2, MovesOne
    <3> QED BY <1>0, <2>0, <2>1, <2>2, <3>1 DEF GuardSound
  <2>3. CASE task' = Moved(t, "entering") /\ ~Busy /\ raced' = (raced \/ \E u \in Tasks : Between(u))
    <3>1. ~raced' => \A u \in Tasks : ~Past(u)
      BY <1>0, <2>3 DEF Busy, Past, GuardSound
    <3>2. \A u \in Tasks \ {t} : Past(u)' = Past(u)
      BY <1>1, <2>3, TaskMoves DEF Past, Between, Inside, At
    <3>3. ~raced' => ~raced /\ \A u \in Tasks : Inside(u) => inflight
      BY <1>0, <2>3 DEF GuardSound
    <3> QED BY <2>0, <2>1, <3>1, <3>2, <3>3 DEF GuardSound
  <2> QED BY <1>1, <1>2, <2>2, <2>3, GateMoves
<1>3. CASE Enter(t)
  <2>1. UNCHANGED <<running, faults, raced>> /\ At(t, "entering") /\ t \notin {u \in Tasks : Inside(u)}
    BY <1>3 DEF Enter, At, Inside
  <2>2. CASE task' = Concluded(t, "done", "failed") /\ inflight' = inflight
    <3>1. \A u \in Tasks : (Past(u)' => Past(u)) /\ (Inside(u)' <=> Inside(u))
      BY <1>1, <2>1, <2>2, MovesOne, WhereIs
    <3> QED BY <1>0, <1>1, <2>1, <2>2, <3>1 DEF GuardSound, NeverBlocked
  <2>3. CASE task' = Moved(t, "recording") /\ inflight' = TRUE
    <3>1. /\ \A u \in Tasks : Past(u)' <=> Past(u)
          /\ Inside(t)' /\ \A u \in Tasks : Inside(u) => Inside(u)'
      BY <1>1, <2>1, <2>3, MovesOne, WhereIs
    <3>2. GuardSound'
      BY <1>0, <2>1, <2>3, <3>1 DEF GuardSound
    <3> QED BY <1>0, <1>1, <2>1, <3>1, <3>2 DEF NeverBlocked
  <2> QED BY <1>3, <2>2, <2>3, EnterMoves
<1>4. CASE Record(t) \/ Evaluate(t)
  <2>1. /\ \A u \in Tasks : (Past(u)' <=> Past(u)) /\ (Inside(u)' <=> Inside(u))
        /\ Inside(t) /\ UNCHANGED <<inflight, faults, raced>> /\ running' \subseteq running \cup {t}
    <3>1. CASE Record(t)
      BY <1>1, <3>1, MovesOne, WhereIs DEF Record
    <3>2. CASE Evaluate(t)
      <4>1. Inside(t) /\ Past(t) /\ \E v \in Verdicts : task' = Concluded(t, "finishing", v)
        BY <3>2, WhereIs DEF Evaluate, Concluded, Ended
      <4> QED BY <1>1, <3>2, <4>1, MovesOne DEF Evaluate
    <3> QED BY <1>4, <3>1, <3>2
  <2>2. GuardSound'
    BY <1>0, <2>1 DEF GuardSound
  <2> QED BY <1>0, <1>1, <2>1, <2>2 DEF NeverBlocked
<1>5. CASE Finish(t)
  <2>1. /\ \A u \in Tasks \ {t} : Past(u)' = Past(u) /\ Inside(u)' = Inside(u)
        /\ ~Past(t)' /\ ~Inside(t)' /\ Inside(t) /\ Past(t)
        /\ UNCHANGED <<faults, raced>> /\ running' = running \ {t} /\ inflight' = FALSE
    BY <1>1, <1>5, TaskMoves DEF Finish, Past, Between, Inside, At
  <2>2. GuardSound'
    BY <1>0, <2>1 DEF GuardSound, Past
  <2> QED BY <1>0, <1>1, <2>1, <2>2 DEF NeverBlocked
<1>6. CASE RecordFails(t)
  <2>1. /\ \A u \in Tasks \ {t} : Past(u)' = Past(u) /\ Inside(u)' = Inside(u)
        /\ ~Past(t)' /\ ~Inside(t)' /\ At(t, "recording")
        /\ UNCHANGED <<inflight, running, raced>> /\ faults' = faults \cup {"record"}
    BY <1>1, <1>6, TaskMoves DEF RecordFails, Strike, Past, Between, Inside, At
  <2>2. GuardSound'
    BY <1>0, <2>1 DEF GuardSound
  <2>4. ASSUME inflight', "record" \notin faults'
        PROVE  FALSE
    BY <2>1, <2>4
  <2>5. ASSUME faults' \cap {"finish", "death"} = {}, NEW u \in running'
        PROVE  Inside(u)'
    <3>1. u \in Tasks /\ u \in running /\ u # t
      <4>1. RowsLate /\ Fresh(t)
        BY <2>1 DEF AutomationInv, Fresh, At
      <4> QED BY <1>1, <2>1, <2>5, <4>1 DEF RowsLate
    <3>2. faults \cap {"finish", "death"} = {}
      BY <2>1, <2>5
    <3> QED BY <1>0, <2>1, <3>1, <3>2 DEF NeverBlocked
  <2> QED BY <2>2, <2>4, <2>5 DEF NeverBlocked
<1>7. CASE FinishFails(t)
  <2>0. UNCHANGED <<running, raced>> /\ At(t, "finishing") /\ faults' = faults \cup {"finish"} /\ Past(t) /\ Inside(t)
    BY <1>7 DEF FinishFails, Strike, Past, Inside, At
  <2>1. \A u \in Tasks \ {t} : Past(u)' = Past(u) /\ Inside(u)' = Inside(u)
    <3>1. CASE task' = [task EXCEPT ![t].verdict = "failed"]
      BY <1>1, <3>1 DEF Task, Past, Between, Inside, At
    <3>2. CASE task' = Concluded(t, "done", "failed")
      BY <1>1, <3>2, TaskMoves DEF Past, Between, Inside, At
    <3> QED BY <1>1, <1>7, <3>1, <3>2, FinishFailsMoves
  <2>2. CASE task' = [task EXCEPT ![t].verdict = "failed"] /\ inflight' = inflight
    <3>1. Past(t)' /\ Inside(t)'
      BY <1>1, <2>0, <2>2 DEF Task, Past, Between, Inside, At
    <3> QED BY <1>0, <2>0, <2>1, <2>2, <3>1 DEF GuardSound, NeverBlocked
  <2>3. CASE task' = Concluded(t, "done", "failed") /\ inflight' = FALSE
    <3>1. ~Past(t)' /\ ~Inside(t)'
      BY <1>1, <2>0, <2>3, TaskMoves DEF Past, Between, Inside, At
    <3>2. GuardSound'
      BY <1>0, <2>0, <2>1, <3>1 DEF GuardSound, Past
    <3> QED BY <2>0, <2>3, <3>2 DEF NeverBlocked
  <2> QED BY <1>1, <1>7, <2>2, <2>3, FinishFailsMoves
<1>8. CASE Die
  <2>1. \A u \in Tasks : task'[u].stage \in {"idle", "over"}
    <3> SUFFICES ASSUME NEW u \in Tasks PROVE task'[u].stage \in {"idle", "over"}
      OBVIOUS
    <3>1. CASE Live(u)
      BY <1>1, <1>8, <3>1 DEF Die, Ended, Task
    <3>2. CASE ~Live(u)
      BY <1>1, <1>8, <3>2 DEF Die, Live
    <3> QED BY <3>1, <3>2
  <2>2. \A u \in Tasks : ~Past(u)' /\ ~Inside(u)'
    BY <2>1 DEF Past, Between, Inside, At
  <2> QED BY <1>8, <2>2 DEF Die, Strike, GuardSound, NeverBlocked
<1> QED BY <1>2, <1>3, <1>4, <1>5, <1>6, <1>7, <1>8 DEF AutomationStep

LEMMA RowsStep ==
  ASSUME AutomationInv, NEW t \in Tasks,
         AutomationStep(t) \/ RecordFails(t) \/ FinishFails(t) \/ Die
  PROVE  RowsLate'
<1> USE StageSet
<1>1. task \in [Tasks -> Task] /\ task[t].verdict \in Verdicts /\ running \subseteq Tasks /\ raced \in BOOLEAN
  BY DEF AutomationInv, AutomationTypeOK, Task
<1>0. RowsLate
  BY DEF AutomationInv
<1>2. CASE Gate(t) \/ Enter(t)
  <2>1. Fresh(t) /\ running' = running
    BY <1>2 DEF Gate, Enter, Fresh, At
  <2>2. PICK s \in {"done", "entering", "recording"} :
          task' = Moved(t, s) \/ task' = Concluded(t, s, "failed")
    BY <1>1, <1>2, GateMoves, EnterMoves
  <2>3. s \in Stages
    BY <2>2
  <2>4. \A u \in Tasks \ {t} : Fresh(u)' <=> Fresh(u)
    BY <1>1, <2>2, <2>3, MovesOne
  <2> QED BY <1>0, <1>1, <2>1, <2>4 DEF RowsLate
<1>4. CASE Record(t) \/ Evaluate(t) \/ Finish(t)
  <2>1. running' \subseteq running \cup {t}
    BY <1>4 DEF Record, Evaluate, Finish
  <2>2. PICK s \in {"evaluating", "finishing", "done"} :
          task' = Moved(t, s) \/ \E v \in Verdicts : task' = Concluded(t, s, v)
    BY <1>1, <1>4 DEF Record, Evaluate, Finish, Concluded, Ended
  <2>3. s \in Stages
    BY <2>2
  <2>4. ~Fresh(t)' /\ \A u \in Tasks \ {t} : Fresh(u)' <=> Fresh(u)
    BY <1>1, <2>2, <2>3, MovesOne
  <2> QED BY <1>0, <1>1, <2>1, <2>4 DEF RowsLate
<1>7. CASE RecordFails(t)
  <2>1. running' = running /\ task' = Concluded(t, "done", "failed")
    BY <1>7 DEF RecordFails
  <2>2. ~Fresh(t)' /\ \A u \in Tasks \ {t} : Fresh(u)' <=> Fresh(u)
    BY <1>1, <2>1, MovesOne
  <2> QED BY <1>0, <1>1, <2>1, <2>2 DEF RowsLate
<1>8. CASE FinishFails(t)
  <2>1. CASE task' = [task EXCEPT ![t].verdict = "failed"]
    <3>1. \A u \in Tasks : Fresh(u)' <=> Fresh(u)
      BY <1>1, <2>1 DEF Fresh, Task
    <3> QED BY <1>0, <1>1, <1>8, <3>1, FinishFailsMoves DEF RowsLate
  <2>2. CASE task' = Concluded(t, "done", "failed")
    <3>1. ~Fresh(t)' /\ \A u \in Tasks \ {t} : Fresh(u)' <=> Fresh(u)
      BY <1>1, <2>2, MovesOne
    <3> QED BY <1>0, <1>1, <1>8, <3>1, FinishFailsMoves DEF RowsLate
  <2> QED BY <1>1, <1>8, <2>1, <2>2, FinishFailsMoves
<1>9. CASE Die
  <2>1. \A u \in Tasks : task'[u].stage = "over" \/ task'[u] = task[u]
    <3> SUFFICES ASSUME NEW u \in Tasks PROVE task'[u].stage = "over" \/ task'[u] = task[u]
      OBVIOUS
    <3>1. CASE Live(u)
      BY <1>1, <1>9, <3>1 DEF Die, Ended, Task
    <3>2. CASE ~Live(u)
      BY <1>1, <1>9, <3>2 DEF Die
    <3> QED BY <3>1, <3>2
  <2>2. \A u \in Tasks : Fresh(u)' => Fresh(u)
    BY <2>1 DEF Fresh
  <2> QED BY <1>0, <1>1, <1>9, <2>2 DEF Die, RowsLate
<1> QED BY <1>2, <1>4, <1>7, <1>8, <1>9 DEF AutomationStep

\* What the feed does with a task does not concern the guard.
LEMMA GuardStays ==
  ASSUME AutomationInv, UNCHANGED <<inflight, running, faults, raced>>,
         \A u \in Tasks : /\ (Past(u)' <=> Past(u)) /\ (Inside(u)' <=> Inside(u))
                          /\ Fresh(u)' => Fresh(u)
  PROVE  GuardSound' /\ RowsLate' /\ NeverBlocked'
BY DEF AutomationInv, AutomationTypeOK, GuardSound, RowsLate, NeverBlocked

LEMMA GuardSuffices == AutomationInv => GuardHolds
BY DEF AutomationInv, GuardSound, GuardHolds, OneAtATime, Past
-----------------------------------------------------------------------------
(* Type correctness *)

LEMMA FeedSets ==
  /\ NoItem \notin Items /\ Items = Emissions
  /\ "idle" \in {"idle", "checking", "bumping", "inserting", "over"}
  /\ NoCopy \in Copy /\ NoRow \in Row
<1>1. \A i \in Items : i # 0
  BY DEF Items, Emissions
<1> QED BY <1>1 DEF NoItem, Items, NoCopy, Copy, NoRow, Row, Entries, ItemStatuses, Active, Closed

LEMMA LoadedType ==
  ASSUME items \in [Items -> Row], NEW i \in Items
  PROVE  Loaded(i) \in Copy
BY DEF Loaded, Copy, Row

\* What an UPDATE may do to the rows.
LEMMA UpdateMoves ==
  ASSUME items \in [Items -> Row], NEW i \in Items, items[i].status # "absent",
         NEW seen \in Copy, NEW new \in Copy, new.status # "absent", Update(i, seen, new)
  PROVE  /\ items' \in [Items -> Row]
         /\ \A j \in Items \ {i} : items'[j] = items[j]
         /\ items'[i].status \in {items[i].status, new.status} /\ items'[i].status # "absent"
         /\ items'[i].count = items[i].count
         /\ items'[i].recent = (items'[i].status = "dismissed")
<1> DEFINE status == IF new.status # seen.status THEN new.status ELSE items[i].status
           spawned == IF new.spawned # seen.spawned THEN new.spawned ELSE items[i].spawned
           recent == (status = "dismissed")
           row == [items[i] EXCEPT !.status = status, !.spawned = spawned, !.recent = recent]
<1>1. items' = [items EXCEPT ![i] = row]
  BY DEF Update
<1>2. /\ status \in ItemStatuses /\ spawned \in [Tasks -> Entries] /\ recent \in BOOLEAN
      /\ status \in {items[i].status, new.status} /\ status # "absent"
  BY DEF Copy, Row
<1>3. recent = (status = "dismissed")
  OBVIOUS
<1> HIDE DEF status, spawned, recent
<1>4. /\ row \in Row /\ row.status = status /\ row.recent = recent /\ row.count = items[i].count
  BY <1>2 DEF Row
<1> HIDE DEF row
<1> QED BY <1>1, <1>2, <1>3, <1>4

LEMMA ReportedType ==
  ASSUME NEW t \in Tasks, NEW seen \in Copy
  PROVE  Reported(t, seen) \in Copy /\ Reported(t, seen).status \in {"resolved", "open"}
<1> DEFINE status == IF task[t].verdict = "passed" THEN "resolved" ELSE "open"
           spawned == [u \in Tasks |-> IF seen.spawned[u] = "running" /\ task[u].kind = task[t].kind
                                       THEN "reported" ELSE seen.spawned[u]]
<1>1. spawned \in [Tasks -> Entries]
  BY DEF Copy, Entries
<1>2. status \in {"resolved", "open"} /\ status \in ItemStatuses
  BY DEF ItemStatuses, Active, Closed
<1>3. Reported(t, seen) = [seen EXCEPT !.status = status, !.spawned = spawned]
  BY DEF Reported, Copy
<1> HIDE DEF status, spawned
<1> QED BY <1>1, <1>2, <1>3 DEF Copy

\* The types of the feed alone.
FeedTypeOK ==
  /\ items \in [Items -> Row]
  /\ emission \in [Emissions -> [stage : {"idle", "checking", "bumping", "inserting", "over"},
                                 item : Items \cup {NoItem}, seen : Nat]]
  /\ request \in [Requests -> [stage : {"idle", "dismissing", "running", "over"},
                               item : Items \cup {NoItem}, seen : Copy]]
  /\ subject \in [Tasks -> [item : Items \cup {NoItem}, seen : Copy]]
  /\ sources \in [Items -> SUBSET Emissions]
  /\ met \subseteq Emissions
  /\ barred \in [Emissions -> SUBSET Items]
  /\ revived \subseteq Items

LEMMA TypeParts == TypeOK <=> AutomationTypeOK /\ FeedTypeOK
BY DEF TypeOK, FeedTypeOK

\* The steps that the feed adds to a call.
LEMMA CalledStays ==
  ASSUME AutomationInv, NEW t \in Tasks, NEW kind \in Kinds, NEW caller \in Callers,
         Called(t, kind, caller), UNCHANGED <<inflight, running, faults, raced>>
  PROVE  AutomationInv'
<1>1. AutomationTypeOK
  BY DEF AutomationInv
<1>2. /\ task' \in [Tasks -> Task] /\ At(t, "idle") /\ task'[t].stage = "called"
      /\ \A u \in Tasks \ {t} : task'[u] = task[u]
  BY <1>1, CalledMoves
<1>3. \A u \in Tasks : /\ (Past(u)' <=> Past(u)) /\ (Inside(u)' <=> Inside(u))
                       /\ (Fresh(u)' => Fresh(u))
  <2> SUFFICES ASSUME NEW u \in Tasks
               PROVE /\ (Past(u)' <=> Past(u)) /\ (Inside(u)' <=> Inside(u))
                     /\ (Fresh(u)' => Fresh(u))
    OBVIOUS
  <2>1. CASE u = t
    BY <1>2, <2>1 DEF Past, Inside, Between, Fresh, At
  <2>2. CASE u # t
    BY <1>2, <2>2 DEF Past, Inside, Between, Fresh, At
  <2> QED BY <2>1, <2>2
<1>4. GuardSound' /\ RowsLate' /\ NeverBlocked'
  BY <1>3, GuardStays
<1>5. AutomationTypeOK'
  BY <1>1, <1>2 DEF AutomationTypeOK
<1> QED BY <1>4, <1>5 DEF AutomationInv

LEMMA HandedStays ==
  ASSUME AutomationInv, NEW t \in Tasks, At(t, "done") \/ At(t, "reporting"),
         task' = Moved(t, "reporting") \/ task' = Concluded(t, "over", "failed"),
         UNCHANGED <<inflight, running, raced>>,
         UNCHANGED faults \/ Strike("report")
  PROVE  AutomationInv'
<1> USE StageSet
<1>1. AutomationTypeOK /\ GuardSound /\ RowsLate /\ NeverBlocked
  BY DEF AutomationInv
<1>2. task \in [Tasks -> Task] /\ ~Past(t) /\ ~Inside(t) /\ ~Fresh(t)
  BY <1>1 DEF AutomationTypeOK, Past, Inside, Between, Fresh, At
<1>3. task' \in [Tasks -> Task]
  BY <1>2, TaskMoves
<1>4. PICK s \in {"reporting", "over"} : task' = Moved(t, s) \/ task' = Concluded(t, s, "failed")
  OBVIOUS
<1>5. s \in Stages
  BY <1>4
<1>6. /\ ~Past(t)' /\ ~Inside(t)' /\ ~Fresh(t)'
      /\ \A u \in Tasks \ {t} : /\ (Past(u)' <=> Past(u)) /\ (Inside(u)' <=> Inside(u))
                                /\ (Fresh(u)' <=> Fresh(u))
  BY <1>2, <1>4, <1>5, MovesOne
<1>7. \A u \in Tasks : /\ (Past(u)' <=> Past(u)) /\ (Inside(u)' <=> Inside(u))
                       /\ (Fresh(u)' <=> Fresh(u))
  BY <1>2, <1>6
<1>8. faults' \subseteq FaultKinds /\ faults \subseteq faults' /\ faults' \subseteq faults \cup {"report"}
  BY <1>1 DEF Strike, FaultKinds, AutomationTypeOK
<1>9. GuardSound' /\ RowsLate'
  BY <1>1, <1>7 DEF GuardSound, RowsLate, AutomationTypeOK
<1>10. NeverBlocked'
  <2>1. running \subseteq Tasks
    BY <1>1 DEF AutomationTypeOK
  <2> QED BY <1>1, <1>7, <1>8, <2>1 DEF NeverBlocked
<1>11. AutomationTypeOK'
  BY <1>1, <1>3, <1>8 DEF AutomationTypeOK
<1> QED BY <1>9, <1>10, <1>11 DEF AutomationInv

LEMMA IdleStays ==
  ASSUME AutomationInv, UNCHANGED vars_automation
  PROVE  AutomationInv'
BY DEF AutomationInv, AutomationTypeOK, GuardSound, RowsLate, NeverBlocked, Past, Inside, Between,
       Fresh, At, vars_automation, automation

\* Every step keeps the guard.
LEMMA AutomationStays ==
  ASSUME AutomationInv, [Next]_vars
  PROVE  AutomationInv'
<1> USE StageSet
<1>1. ASSUME NEW t \in Tasks, AutomationStep(t) \/ RecordFails(t) \/ FinishFails(t) \/ Die
      PROVE  AutomationInv'
  <2>1. AutomationTypeOK
    BY DEF AutomationInv
  <2> QED BY <1>1, <2>1, AutomationType, GuardStep, RowsStep DEF AutomationInv
<1>2. ASSUME NEW e \in Emissions, Occur(e) \/ Check(e) \/ Bump(e) \/ Insert(e) \/ EmissionFails(e)
      PROVE  AutomationInv'
  BY <1>2, IdleStays DEF Occur, Check, Bump, Insert, EmissionFails
<1>3. ASSUME NEW i \in Items, WeekPasses(i)
      PROVE  AutomationInv'
  BY <1>3, IdleStays DEF WeekPasses
<1>4. ASSUME NEW r \in Requests, Dismiss(r) \/ Refuse(r) \/ \E i \in Items, what \in {"dismissing", "running"} : Ask(r, i, what)
      PROVE  AutomationInv'
  BY <1>4, IdleStays DEF Dismiss, Refuse, Ask
<1>5. ASSUME NEW r \in Requests, NEW t \in Tasks, NEW kind \in Kinds, Resolve(r, t, kind)
      PROVE  AutomationInv'
  <2>1. Called(t, kind, "admin") /\ UNCHANGED <<inflight, running, faults, raced>>
    BY <1>5 DEF Resolve
  <2> QED BY <2>1, CalledStays DEF Callers
<1>6. ASSUME NEW t \in Tasks, Trigger(t)
      PROVE  AutomationInv'
  <2>1. Called(t, "run_eval", "trigger") /\ UNCHANGED <<inflight, running, faults, raced>>
    BY <1>6 DEF Trigger
  <2> QED BY <2>1, CalledStays DEF Callers, Kinds
<1>7. ASSUME NEW t \in Tasks, Automate(t) \/ TaskFails(t)
      PROVE  AutomationInv'
  BY <1>1, <1>7 DEF Automate, TaskFails
<1>8. ASSUME NEW t \in Tasks, Reread(t) \/ Report(t) \/ ReportFails(t)
      PROVE  AutomationInv'
  <2>1. /\ At(t, "done") \/ At(t, "reporting")
        /\ task' = Moved(t, "reporting") \/ task' = Concluded(t, "over", "failed")
        /\ UNCHANGED <<inflight, running, raced>>
        /\ UNCHANGED faults \/ Strike("report")
    BY <1>8 DEF Reread, Report, ReportFails, TaskOver
  <2> QED BY <2>1, HandedStays
<1>9. CASE Crash
  <2>1. Die
    BY <1>9 DEF Crash
  <2>2. CASE Tasks = {}
    <3>1. task' \in [Tasks -> Task] /\ faults' \subseteq FaultKinds /\ running' \subseteq Tasks
      BY <2>1, <2>2 DEF Die, Strike, FaultKinds, AutomationInv, AutomationTypeOK
    <3> QED BY <2>1, <2>2, <3>1 DEF Die, AutomationInv, AutomationTypeOK, GuardSound, RowsLate, NeverBlocked
  <2>3. CASE Tasks # {}
    BY <1>1, <2>1, <2>3
  <2> QED BY <2>2, <2>3
<1>10. CASE UNCHANGED vars
  BY <1>10, IdleStays DEF vars
<1> QED BY <1>2, <1>3, <1>4, <1>5, <1>6, <1>7, <1>8, <1>9, <1>10 DEF Next

LEMMA AutomationStarts ==
  ASSUME Init
  PROVE  AutomationInv
<1>1. AutomationTypeOK
  BY StageSet DEF Init, AutomationInit, AutomationTypeOK, Task, Stages, Kinds, Callers
<1>2. \A t \in Tasks : ~Past(t) /\ ~Inside(t)
  BY DEF Init, AutomationInit, Past, Inside, Between, At
<1> QED BY <1>1, <1>2 DEF Init, AutomationInit, AutomationInv, GuardSound, RowsLate, NeverBlocked

\* The agent's guard, for any number of runs: at most one at work unless two calls
\* were between the gate and _INFLIGHT at once, and nothing left behind that
\* blocks the agent unless a commit has failed or the process has died.
THEOREM Guarded == Spec => []GuardHolds
<1>1. Init => AutomationInv
  BY AutomationStarts
<1>2. AutomationInv /\ [Next]_vars => AutomationInv'
  BY AutomationStays
<1>3. AutomationInv => GuardHolds
  BY GuardSuffices
<1> QED BY <1>1, <1>2, <1>3, PTL DEF Spec
-----------------------------------------------------------------------------
(* The feed, step by step *)

\* What ends an emission or a request, and what a request or a call has loaded.
LEMMA OverTypes ==
  ASSUME FeedTypeOK
  PROVE  /\ \A e \in Emissions : EmissionOver(e) =>
              /\ emission' \in [Emissions -> [stage : {"idle", "checking", "bumping", "inserting", "over"},
                                              item : Items \cup {NoItem}, seen : Nat]]
              /\ barred' \in [Emissions -> SUBSET Items]
         /\ \A r \in Requests : RequestOver(r) =>
              request' \in [Requests -> [stage : {"idle", "dismissing", "running", "over"},
                                         item : Items \cup {NoItem}, seen : Copy]]
         /\ \A t \in Tasks : TaskOver(t) =>
              subject' \in [Tasks -> [item : Items \cup {NoItem}, seen : Copy]]
<1>1. ASSUME NEW e \in Emissions, EmissionOver(e)
      PROVE  /\ emission' \in [Emissions -> [stage : {"idle", "checking", "bumping", "inserting", "over"},
                                              item : Items \cup {NoItem}, seen : Nat]]
             /\ barred' \in [Emissions -> SUBSET Items]
  BY <1>1, FeedSets DEF FeedTypeOK, EmissionOver
<1>2. ASSUME NEW r \in Requests, RequestOver(r)
      PROVE  request' \in [Requests -> [stage : {"idle", "dismissing", "running", "over"},
                                        item : Items \cup {NoItem}, seen : Copy]]
  BY <1>2, FeedSets DEF FeedTypeOK, RequestOver
<1>3. ASSUME NEW t \in Tasks, TaskOver(t)
      PROVE  subject' \in [Tasks -> [item : Items \cup {NoItem}, seen : Copy]]
  BY <1>3, FeedSets DEF FeedTypeOK, TaskOver
<1> QED
  BY <1>1, <1>2, <1>3

LEMMA FeedType ==
  ASSUME FeedTypeOK, AutomationTypeOK, Referenced, BumpSound, [Next]_vars
  PROVE  FeedTypeOK'
<1> USE FeedSets
<1>1. ASSUME NEW e \in Emissions, Occur(e)
      PROVE  FeedTypeOK'
  <2>1. FreshlyDismissed \in SUBSET Items /\ ActiveItems \subseteq Items
    BY DEF FreshlyDismissed, ActiveItems
  <2>2. barred' \in [Emissions -> SUBSET Items]
    BY <1>1, <2>1 DEF Occur, FeedTypeOK
  <2>3. met' \subseteq Emissions
    BY <1>1 DEF Occur, FeedTypeOK
  <2>4. emission' \in [Emissions -> [stage : {"idle", "checking", "bumping", "inserting", "over"},
                                     item : Items \cup {NoItem}, seen : Nat]]
    <3>1. ASSUME NEW i \in ActiveItems,
                 emission' = [emission EXCEPT ![e] = [stage |-> "bumping", item |-> i, seen |-> items[i].count]]
          PROVE  emission' \in [Emissions -> [stage : {"idle", "checking", "bumping", "inserting", "over"},
                                              item : Items \cup {NoItem}, seen : Nat]]
      <4>1. i \in Items /\ items[i].count \in Nat
        BY <2>1, <3>1 DEF FeedTypeOK, Row
      <4> QED BY <3>1, <4>1 DEF FeedTypeOK
    <3>2. CASE emission' = [emission EXCEPT ![e].stage = "checking"]
      BY <3>2 DEF FeedTypeOK
    <3> QED BY <1>1, <3>1, <3>2 DEF Occur
  <2> QED BY <1>1, <2>2, <2>3, <2>4 DEF Occur, FeedTypeOK
<1>2. ASSUME NEW e \in Emissions, Check(e)
      PROVE  FeedTypeOK'
  <2>1. CASE EmissionOver(e)
    BY <1>2, <2>1, OverTypes DEF Check, FeedTypeOK
  <2>2. CASE emission' = [emission EXCEPT ![e].stage = "inserting"] /\ UNCHANGED barred
    BY <1>2, <2>2 DEF Check, FeedTypeOK
  <2> QED BY <1>2, <2>1, <2>2 DEF Check
<1>3. ASSUME NEW e \in Emissions, Bump(e)
      PROVE  FeedTypeOK'
  <2> DEFINE i == emission[e].item
             dismissed == (items[i].status = "dismissed")
             count == emission[e].seen + 1
             row == [items[i] EXCEPT !.count = count, !.recent = dismissed]
  <2>1. i \in Items /\ dismissed \in BOOLEAN /\ count \in Nat
    BY <1>3 DEF Bump, BumpSound, FeedTypeOK
  <2>2. items' = [items EXCEPT ![i] = row] /\ sources' = [sources EXCEPT ![i] = @ \cup {e}] /\ EmissionOver(e)
    BY <1>3 DEF Bump
  <2>3. UNCHANGED <<request, subject, met, revived>>
    BY <1>3 DEF Bump
  <2> HIDE DEF i, dismissed, count
  <2>4. row \in Row
    BY <2>1 DEF FeedTypeOK, Row
  <2> HIDE DEF row
  <2> QED BY <2>1, <2>2, <2>3, <2>4, OverTypes DEF FeedTypeOK
<1>4. ASSUME NEW e \in Emissions, Insert(e)
      PROVE  FeedTypeOK'
  <2> DEFINE row == [NoRow EXCEPT !.status = "open", !.count = 1]
  <2>1. row \in Row
    BY DEF Row, NoRow, ItemStatuses, Active
  <2>2. items' = [items EXCEPT ![e] = row] /\ sources' = [sources EXCEPT ![e] = {e}] /\ EmissionOver(e)
        /\ UNCHANGED <<request, subject, met, revived>>
    BY <1>4 DEF Insert
  <2> HIDE DEF row
  <2> QED BY <2>1, <2>2, OverTypes DEF FeedTypeOK
<1>5. ASSUME NEW e \in Emissions, EmissionFails(e)
      PROVE  FeedTypeOK'
  BY <1>5, OverTypes DEF EmissionFails, FeedTypeOK
<1>6. ASSUME NEW i \in Items, WeekPasses(i)
      PROVE  FeedTypeOK'
  BY <1>6 DEF WeekPasses, FeedTypeOK, Row, history
<1>7. ASSUME NEW r \in Requests, NEW i \in Items, NEW what \in {"dismissing", "running"}, Ask(r, i, what)
      PROVE  FeedTypeOK'
  <2>1. Loaded(i) \in Copy
    BY LoadedType DEF FeedTypeOK
  <2> QED BY <1>7, <2>1 DEF Ask, FeedTypeOK, history
<1>8. ASSUME NEW r \in Requests, Dismiss(r)
      PROVE  FeedTypeOK'
  <2> DEFINE i == request[r].item
             seen == request[r].seen
             new == [seen EXCEPT !.status = "dismissed"]
  <2>1. i \in Items /\ items[i].status # "absent" /\ seen \in Copy
    BY <1>8 DEF Dismiss, Referenced, Acting, FeedTypeOK
  <2>2. new \in Copy /\ new.status = "dismissed"
    BY <2>1 DEF Copy, ItemStatuses, Closed
  <2>3. Update(i, seen, new) /\ RequestOver(r) /\ UNCHANGED <<emission, subject, history>>
    BY <1>8 DEF Dismiss
  <2> HIDE DEF i, seen, new
  <2>4. items' \in [Items -> Row]
    BY <2>1, <2>2, <2>3, UpdateMoves DEF FeedTypeOK
  <2> QED BY <2>3, <2>4, OverTypes DEF FeedTypeOK, history
<1>9. ASSUME NEW r \in Requests, NEW t \in Tasks, NEW kind \in Kinds, Resolve(r, t, kind)
      PROVE  FeedTypeOK'
  <2> DEFINE i == request[r].item
             seen == request[r].seen
             new == [seen EXCEPT !.status = "in_progress", !.spawned[t] = "running"]
  <2>1. i \in Items /\ items[i].status # "absent" /\ seen \in Copy
    BY <1>9 DEF Resolve, Referenced, Acting, FeedTypeOK
  <2>2. new \in Copy /\ new.status = "in_progress"
    BY <2>1 DEF Copy, ItemStatuses, Active, Entries
  <2>3. /\ Update(i, seen, new) /\ RequestOver(r) /\ UNCHANGED <<emission, sources, met, barred>>
        /\ subject' = [subject EXCEPT ![t].item = i] /\ Revive
    BY <1>9 DEF Resolve
  <2> HIDE DEF i, seen, new
  <2>4. items' \in [Items -> Row]
    BY <2>1, <2>2, <2>3, UpdateMoves DEF FeedTypeOK
  <2> QED BY <2>1, <2>3, <2>4, OverTypes DEF FeedTypeOK, Revive
<1>10. ASSUME NEW r \in Requests, Refuse(r)
       PROVE  FeedTypeOK'
  BY <1>10, OverTypes DEF Refuse, FeedTypeOK, history
<1>11. ASSUME NEW t \in Tasks, Trigger(t) \/ Automate(t) \/ TaskFails(t)
       PROVE  FeedTypeOK'
  BY <1>11 DEF Trigger, Automate, TaskFails, FeedTypeOK, feed, history
<1>12. ASSUME NEW t \in Tasks, Reread(t)
       PROVE  FeedTypeOK'
  <2>0. UNCHANGED <<items, emission, request, history>>
    BY <1>12 DEF Reread
  <2>1. CASE subject[t].item = NoItem
    BY <1>12, <2>0, <2>1, OverTypes DEF Reread, FeedTypeOK, history
  <2>2. CASE subject[t].item # NoItem
    <3>1. Loaded(subject[t].item) \in Copy
      BY <2>2, LoadedType DEF FeedTypeOK
    <3>2. subject' = [subject EXCEPT ![t].seen = Loaded(subject[t].item)]
      BY <1>12, <2>2 DEF Reread
    <3> QED BY <2>0, <3>1, <3>2 DEF FeedTypeOK, history
  <2> QED BY <2>1, <2>2
<1>13. ASSUME NEW t \in Tasks, Report(t)
       PROVE  FeedTypeOK'
  <2> DEFINE i == subject[t].item
             seen == subject[t].seen
             new == Reported(t, seen)
  <2>1. i \in Items /\ items[i].status # "absent" /\ seen \in Copy
    BY <1>13 DEF Report, Referenced, FeedTypeOK
  <2>2. new \in Copy /\ new.status \in {"resolved", "open"}
    BY <2>1, ReportedType
  <2>3. /\ Update(i, seen, new) /\ TaskOver(t) /\ Revive
        /\ UNCHANGED <<emission, request, sources, met, barred>>
    BY <1>13 DEF Report
  <2> HIDE DEF i, seen, new
  <2>4. items' \in [Items -> Row]
    BY <2>1, <2>2, <2>3, UpdateMoves DEF FeedTypeOK
  <2> QED BY <2>3, <2>4, OverTypes DEF FeedTypeOK, Revive
<1>14. ASSUME NEW t \in Tasks, ReportFails(t)
       PROVE  FeedTypeOK'
  BY <1>14, OverTypes DEF ReportFails, FeedTypeOK, history
<1>15. CASE Crash
  BY <1>15 DEF Crash, FeedTypeOK
<1>16. CASE UNCHANGED vars
  BY <1>16 DEF vars, feed, history, FeedTypeOK
<1> QED BY <1>1, <1>2, <1>3, <1>4, <1>5, <1>6, <1>7, <1>8, <1>9, <1>10, <1>11, <1>12, <1>13, <1>14,
           <1>15, <1>16 DEF Next

\* A step that ends or starts no emission, counts nothing, and makes nothing active
\* and no dismissal undone without history knowing it.
Quiet ==
  /\ UNCHANGED <<emission, sources, met, barred>>
  /\ revived \subseteq revived'
  /\ \A j \in Items :
       /\ items'[j].status = "absent" <=> items[j].status = "absent"
       /\ items'[j].count = items[j].count
       /\ j \in ActiveItems' => j \in ActiveItems \cup revived'
       /\ j \in FreshlyDismissed => j \in FreshlyDismissed' \cup revived'

LEMMA QuietStep ==
  ASSUME FeedTypeOK, FeedInv, Quiet
  PROVE  EmissionsMet' /\ BumpSound' /\ InsertSound' /\ Deduplicated'
<1>1. EmissionsMet'
  <2>1. \A d, e \in Emissions : InFlight(d)' /\ InFlight(e)' /\ d # e => e \in met'
    BY DEF FeedInv, EmissionsMet, Quiet, InFlight
  <2>2. \A e \in Emissions : emission'[e].stage # "over" =>
          items'[e].status = "absent" /\ \A i \in Items : e \notin sources'[i]
    BY FeedSets DEF FeedInv, EmissionsMet, Quiet
  <2> QED BY <2>1, <2>2 DEF EmissionsMet
<1>2. BumpSound'
  BY DEF FeedInv, BumpSound, Quiet
<1>3. InsertSound'
  <2>1. ActiveItems' \subseteq Items /\ FreshlyDismissed \subseteq Items
    BY DEF ActiveItems, FreshlyDismissed
  <2> SUFFICES ASSUME NEW e \in Emissions
               PROVE  /\ emission[e].stage \in {"checking", "inserting"} /\ e \notin met => ActiveItems' \subseteq revived'
                      /\ emission[e].stage = "checking" => barred[e] \ revived' \subseteq FreshlyDismissed'
                      /\ emission[e].stage = "inserting" => barred[e] \subseteq revived'
    BY DEF InsertSound, Quiet
  <2> QED BY <2>1 DEF FeedInv, InsertSound, Quiet
<1>4. OneItem'
  <2>1. ActiveItems' \subseteq Items
    BY DEF ActiveItems
  <2> QED BY <2>1 DEF FeedInv, Deduplicated, OneItem, Quiet
<1>5. CountIsOccurrences'
  BY DEF FeedInv, Deduplicated, CountIsOccurrences, Quiet
<1> QED BY <1>1, <1>2, <1>3, <1>4, <1>5 DEF Deduplicated

\* An UPDATE of a loaded row is quiet, provided that it dismisses or is in history.
LEMMA UpdateQuiet ==
  ASSUME FeedTypeOK, NEW i \in Items, items[i].status # "absent",
         NEW seen \in Copy, NEW new \in Copy, new.status # "absent", Update(i, seen, new),
         (new.status = "dismissed" /\ revived' = revived) \/ Revive,
         UNCHANGED <<emission, sources, met, barred>>
  PROVE  Quiet
<1>1. /\ \A j \in Items \ {i} : items'[j] = items[j]
      /\ items'[i].status \in {items[i].status, new.status} /\ items'[i].status # "absent"
      /\ items'[i].count = items[i].count
      /\ items'[i].recent = (items'[i].status = "dismissed")
      /\ items' \in [Items -> Row]
  BY UpdateMoves DEF FeedTypeOK
<1>2. items[i].status \in ItemStatuses
  BY DEF FeedTypeOK, Row
<1>3. revived \subseteq revived'
  BY DEF Revive
<1>4. \A j \in Items \ {i} : (j \in ActiveItems' => j \in ActiveItems) /\ (j \in FreshlyDismissed => j \in FreshlyDismissed')
  BY <1>1 DEF ActiveItems, FreshlyDismissed
<1>5. i \in ActiveItems' => i \in ActiveItems \cup revived'
  <2> HAVE i \in ActiveItems'
  <2>1. items'[i].status \in Active
    BY DEF ActiveItems
  <2>2. CASE items[i].status \in Active
    BY <2>2 DEF ActiveItems
  <2>3. CASE items[i].status \notin Active
    <3>1. items[i].status \in Closed /\ items'[i].status \notin {items[i].status, "dismissed"}
      BY <1>2, <2>1, <2>3 DEF ItemStatuses, Active, Closed
    <3>2. new.status # "dismissed"
      BY <1>1, <3>1
    <3> QED BY <3>1, <3>2 DEF Revive
  <2> QED BY <2>2, <2>3
<1>6. i \in FreshlyDismissed => i \in FreshlyDismissed' \cup revived'
  <2> HAVE i \in FreshlyDismissed
  <2>1. items[i].status = "dismissed" /\ items[i].status \in Closed
    BY DEF FreshlyDismissed, Closed
  <2>2. CASE items'[i].status = "dismissed"
    BY <1>1, <2>2 DEF FreshlyDismissed
  <2>3. CASE items'[i].status # "dismissed"
    <3>1. new.status # "dismissed"
      BY <1>1, <2>1, <2>3
    <3> QED BY <2>1, <2>3, <3>1 DEF Revive
  <2> QED BY <2>2, <2>3
<1> QED BY <1>1, <1>3, <1>4, <1>5, <1>6 DEF Quiet

\* Nothing happens to the rows.
LEMMA StillQuiet ==
  ASSUME UNCHANGED <<items, emission, sources, met, barred, revived>>
  PROVE  Quiet
BY DEF Quiet, ActiveItems, FreshlyDismissed

\* The sources of an item can be counted.
LEMMA SourcesFinite ==
  ASSUME FeedTypeOK, NEW i \in Items
  PROVE  /\ IsFiniteSet(sources[i]) /\ Cardinality(sources[i]) \in Nat
         /\ \A e \in Emissions : e \notin sources[i] =>
              Cardinality(sources[i] \cup {e}) = Cardinality(sources[i]) + 1
<1>1. IsFiniteSet(Emissions)
  BY FeedAssumption, FS_Interval DEF Emissions
<1>2. IsFiniteSet(sources[i])
  BY <1>1, FS_Subset DEF FeedTypeOK
<1> QED BY <1>2, FS_CardinalityType, FS_AddElement

LEMMA OverEmission ==
  ASSUME FeedTypeOK, NEW e \in Emissions, EmissionOver(e)
  PROVE  /\ emission'[e].stage = "over" /\ ~InFlight(e)'
         /\ \A d \in Emissions \ {e} : emission'[d] = emission[d] /\ barred'[d] = barred[d]
         /\ barred'[e] = {}
BY DEF EmissionOver, FeedTypeOK, InFlight

\* An emission that ends without a trace.
LEMMA GivesUp ==
  ASSUME FeedTypeOK, FeedInv, NEW e \in Emissions, EmissionOver(e),
         UNCHANGED <<items, sources, met, revived>>
  PROVE  EmissionsMet' /\ BumpSound' /\ InsertSound' /\ Deduplicated'
<1> USE OverEmission
<1>1. EmissionsMet'
  BY DEF FeedInv, EmissionsMet, InFlight
<1>2. BumpSound'
  BY DEF FeedInv, BumpSound
<1>3. InsertSound'
  BY DEF FeedInv, InsertSound, ActiveItems, FreshlyDismissed
<1>4. Deduplicated'
  BY DEF FeedInv, Deduplicated, OneItem, CountIsOccurrences, ActiveItems
<1> QED BY <1>1, <1>2, <1>3, <1>4

LEMMA OccurStep ==
  ASSUME FeedTypeOK, FeedInv, NEW e \in Emissions, Occur(e)
  PROVE  EmissionsMet' /\ BumpSound' /\ InsertSound' /\ Deduplicated'
<1>1. /\ emission[e].stage = "idle" /\ ~InFlight(e)
      /\ UNCHANGED <<items, sources, revived>>
      /\ met \subseteq met'
      /\ \A d \in Emissions : InFlight(d) => d \in met' /\ e \in met'
  BY DEF Occur, InFlight
<1>2. /\ barred'[e] = FreshlyDismissed
      /\ \A d \in Emissions \ {e} : barred'[d] = barred[d]
  BY DEF Occur, FeedTypeOK
<1>3. /\ \A d \in Emissions \ {e} : emission'[d] = emission[d]
      /\ \/ /\ emission'[e].stage = "checking" /\ ActiveItems = {}
         \/ /\ emission'[e].stage = "bumping" /\ emission'[e].item \in ActiveItems
            /\ emission'[e].seen = items[emission'[e].item].count
  <2>1. ASSUME NEW i \in ActiveItems,
               emission' = [emission EXCEPT ![e] = [stage |-> "bumping", item |-> i, seen |-> items[i].count]]
        PROVE  /\ \A d \in Emissions \ {e} : emission'[d] = emission[d]
               /\ emission'[e].stage = "bumping" /\ emission'[e].item \in ActiveItems
               /\ emission'[e].seen = items[emission'[e].item].count
    BY <2>1 DEF FeedTypeOK
  <2>2. ASSUME ActiveItems = {}, emission' = [emission EXCEPT ![e].stage = "checking"]
        PROVE  /\ \A d \in Emissions \ {e} : emission'[d] = emission[d]
               /\ emission'[e].stage = "checking"
    BY <2>2 DEF FeedTypeOK
  <2> QED BY <2>1, <2>2 DEF Occur
<1>4. \A i \in ActiveItems : i \in Items /\ items[i].status # "absent"
  BY DEF ActiveItems, Active
<1>5. EmissionsMet'
  <2>1. \A c, d \in Emissions : InFlight(c)' /\ InFlight(d)' /\ c # d => d \in met'
    <3> SUFFICES ASSUME NEW c \in Emissions, NEW d \in Emissions, InFlight(c)', InFlight(d)', c # d
                 PROVE  d \in met'
      OBVIOUS
    <3>1. CASE c # e /\ d # e
      BY <1>1, <1>3, <3>1 DEF FeedInv, EmissionsMet, InFlight
    <3>2. CASE c = e
      BY <1>1, <1>3, <3>2 DEF InFlight
    <3>3. CASE d = e
      BY <1>1, <1>3, <3>3 DEF InFlight
    <3> QED BY <3>1, <3>2, <3>3
  <2>2. \A d \in Emissions : emission'[d].stage # "over" =>
          items'[d].status = "absent" /\ \A i \in Items : d \notin sources'[i]
    BY <1>1, <1>3 DEF FeedInv, EmissionsMet
  <2> QED BY <2>1, <2>2 DEF EmissionsMet
<1>6. BumpSound'
  <2> SUFFICES ASSUME NEW d \in Emissions, emission'[d].stage = "bumping"
               PROVE  /\ emission'[d].item \in Items /\ items[emission'[d].item].status # "absent"
                      /\ emission'[d].seen <= Cardinality(sources[emission'[d].item])
                      /\ d \notin met' => emission'[d].seen = items[emission'[d].item].count
    BY <1>1 DEF BumpSound
  <2>1. CASE d = e
    BY <1>3, <1>4, <2>1 DEF FeedInv, Deduplicated, CountIsOccurrences
  <2>2. CASE d # e
    BY <1>1, <1>3, <2>2 DEF FeedInv, BumpSound
  <2> QED BY <2>1, <2>2
<1>7. InsertSound'
  <2>1. ActiveItems' = ActiveItems /\ FreshlyDismissed' = FreshlyDismissed
    BY <1>1 DEF ActiveItems, FreshlyDismissed
  <2> SUFFICES ASSUME NEW d \in Emissions
               PROVE  /\ emission'[d].stage \in {"checking", "inserting"} /\ d \notin met' => ActiveItems \subseteq revived
                      /\ emission'[d].stage = "checking" => barred'[d] \ revived \subseteq FreshlyDismissed
                      /\ emission'[d].stage = "inserting" => barred'[d] \subseteq revived
    BY <1>1, <2>1 DEF InsertSound
  <2>2. CASE d = e
    BY <1>2, <1>3, <2>2
  <2>3. CASE d # e
    BY <1>1, <1>2, <1>3, <2>3 DEF FeedInv, InsertSound
  <2> QED BY <2>2, <2>3
<1>8. OneItem'
  BY <1>1 DEF FeedInv, Deduplicated, OneItem, ActiveItems
<1>9. CountIsOccurrences'
  BY <1>1 DEF FeedInv, Deduplicated, CountIsOccurrences
<1> QED BY <1>5, <1>6, <1>7, <1>8, <1>9 DEF Deduplicated

LEMMA CheckStep ==
  ASSUME FeedTypeOK, FeedInv, NEW e \in Emissions, Check(e)
  PROVE  EmissionsMet' /\ BumpSound' /\ InsertSound' /\ Deduplicated'
<1>1. UNCHANGED <<items, sources, met, revived>> /\ emission[e].stage = "checking"
  BY DEF Check
<1>2. CASE EmissionOver(e)
  BY <1>1, <1>2, GivesUp
<1>3. CASE FreshlyDismissed = {} /\ emission' = [emission EXCEPT ![e].stage = "inserting"] /\ UNCHANGED barred
  <2>1. emission'[e].stage = "inserting" /\ \A d \in Emissions \ {e} : emission'[d] = emission[d]
    BY <1>3 DEF FeedTypeOK
  <2>2. EmissionsMet'
    BY <1>1, <2>1 DEF FeedInv, EmissionsMet, InFlight
  <2>3. BumpSound'
    BY <1>1, <2>1 DEF FeedInv, BumpSound
  <2>4. barred[e] \subseteq revived
    BY <1>1, <1>3 DEF FeedInv, InsertSound
  <2>5. InsertSound'
    BY <1>1, <1>3, <2>1, <2>4 DEF FeedInv, InsertSound, ActiveItems, FreshlyDismissed
  <2>6. Deduplicated'
    BY <1>1 DEF FeedInv, Deduplicated, OneItem, CountIsOccurrences, ActiveItems
  <2> QED BY <2>2, <2>3, <2>5, <2>6
<1> QED BY <1>2, <1>3 DEF Check

LEMMA BumpStep ==
  ASSUME FeedTypeOK, FeedInv, NEW e \in Emissions, Bump(e)
  PROVE  EmissionsMet' /\ BumpSound' /\ InsertSound' /\ Deduplicated'
<1> DEFINE i == emission[e].item
           dismissed == (items[i].status = "dismissed")
           count == emission[e].seen + 1
           row == [items[i] EXCEPT !.count = count, !.recent = dismissed]
<1>0. /\ emission[e].stage = "bumping" /\ InFlight(e)
      /\ items' = [items EXCEPT ![i] = row] /\ sources' = [sources EXCEPT ![i] = @ \cup {e}]
      /\ EmissionOver(e) /\ UNCHANGED <<met, revived>>
  BY DEF Bump, InFlight
<1>1. /\ i \in Items /\ items[i].status # "absent" /\ emission[e].seen <= Cardinality(sources[i])
      /\ e \notin met => emission[e].seen = items[i].count
      /\ emission[e].seen \in Nat
  BY <1>0 DEF FeedInv, BumpSound, FeedTypeOK
<1>2. count \in Nat /\ dismissed = (items[i].status = "dismissed")
      /\ count = emission[e].seen + 1
  BY <1>1
<1>3. \A j \in Items : e \notin sources[j]
  BY <1>0 DEF FeedInv, EmissionsMet
<1> HIDE DEF i, dismissed, count
<1>4. row \in [status : ItemStatuses, count : Nat, spawned : [Tasks -> Entries], recent : {dismissed}]
      /\ row.status = items[i].status /\ row.count = count /\ row.recent = dismissed
  BY <1>1, <1>2, ZenonT(60) DEF FeedTypeOK, Row
<1> HIDE DEF row
<1>5. /\ items'[i] = row /\ \A j \in Items \ {i} : items'[j] = items[j]
      /\ sources'[i] = sources[i] \cup {e} /\ \A j \in Items \ {i} : sources'[j] = sources[j]
  BY <1>0, <1>1 DEF FeedTypeOK
<1>6. \A d \in Emissions : InFlight(d)' => d # e /\ InFlight(d) /\ d \in met /\ e \in met
  BY <1>0, OverEmission DEF FeedInv, EmissionsMet, InFlight
<1>7. \A d \in Emissions \ {e} : emission'[d] = emission[d] /\ barred'[d] = barred[d]
  BY <1>0, OverEmission
<1>8. emission'[e].stage = "over"
  BY <1>0, OverEmission
<1>9. Cardinality(sources'[i]) = Cardinality(sources[i]) + 1 /\ Cardinality(sources[i]) \in Nat
  BY <1>1, <1>3, <1>5, SourcesFinite
<1>10. \A j \in Items : items'[j].status = items[j].status
  BY <1>4, <1>5
<1>11. ActiveItems' = ActiveItems /\ FreshlyDismissed \subseteq FreshlyDismissed'
  <2>1. ActiveItems' = ActiveItems
    BY <1>10 DEF ActiveItems
  <2>2. ASSUME NEW j \in FreshlyDismissed PROVE j \in FreshlyDismissed'
    <3>1. j \in Items /\ items[j].status = "dismissed" /\ items[j].recent
      BY DEF FreshlyDismissed
    <3>2. CASE j = i
      BY <1>2, <1>4, <1>5, <3>1, <3>2 DEF FreshlyDismissed
    <3>3. CASE j # i
      BY <1>5, <3>1, <3>3 DEF FreshlyDismissed
    <3> QED BY <3>2, <3>3
  <2> QED BY <2>1, <2>2
<1>12. EmissionsMet'
  <2>1. \A c, d \in Emissions : InFlight(c)' /\ InFlight(d)' /\ c # d => d \in met'
    BY <1>0, <1>6
  <2>2. \A d \in Emissions : emission'[d].stage # "over" => items'[d].status = "absent"
    BY <1>7, <1>8, <1>10, FeedSets DEF FeedInv, EmissionsMet
  <2>3. \A d \in Emissions : emission'[d].stage # "over" => \A j \in Items : d \notin sources'[j]
    BY <1>5, <1>7, <1>8 DEF FeedInv, EmissionsMet
  <2> QED BY <2>1, <2>2, <2>3 DEF EmissionsMet
<1>13. BumpSound'
  <2> SUFFICES ASSUME NEW d \in Emissions, emission'[d].stage = "bumping"
               PROVE  /\ emission'[d].item \in Items /\ items'[emission'[d].item].status # "absent"
                      /\ emission'[d].seen <= Cardinality(sources'[emission'[d].item])
                      /\ d \notin met' => emission'[d].seen = items'[emission'[d].item].count
    BY DEF BumpSound
  <2>1. d # e /\ d \in met' /\ emission'[d] = emission[d]
    BY <1>0, <1>6, <1>7, <1>8 DEF InFlight
  <2>2. /\ emission[d].item \in Items /\ items[emission[d].item].status # "absent"
        /\ emission[d].seen <= Cardinality(sources[emission[d].item])
        /\ emission[d].seen \in Nat
    BY <2>1 DEF FeedInv, BumpSound, FeedTypeOK
  <2>3. emission[d].seen <= Cardinality(sources'[emission[d].item])
    <3>1. CASE emission[d].item = i
      BY <1>9, <2>2, <3>1
    <3>2. CASE emission[d].item # i
      BY <1>5, <2>2, <3>2
    <3> QED BY <3>1, <3>2
  <2> QED BY <1>10, <2>1, <2>2, <2>3
<1>14. InsertSound'
  <2> SUFFICES ASSUME NEW d \in Emissions, emission'[d].stage # "over"
               PROVE  /\ emission'[d].stage \in {"checking", "inserting"} /\ d \notin met' => ActiveItems' \subseteq revived'
                      /\ emission'[d].stage = "checking" => barred'[d] \ revived' \subseteq FreshlyDismissed'
                      /\ emission'[d].stage = "inserting" => barred'[d] \subseteq revived'
    BY DEF InsertSound
  <2> QED BY <1>0, <1>7, <1>8, <1>11 DEF FeedInv, InsertSound
<1>15. OneItem'
  BY <1>0, <1>11 DEF FeedInv, Deduplicated, OneItem
<1>16. CountIsOccurrences'
  <2> SUFFICES ASSUME NEW j \in Items
               PROVE  /\ items'[j].count <= Cardinality(sources'[j])
                      /\ sources'[j] \cap met = {} => items'[j].count = Cardinality(sources'[j])
    BY <1>0 DEF CountIsOccurrences
  <2>1. CASE j = i
    <3>1. items'[j].count = emission[e].seen + 1 /\ items'[j].count <= Cardinality(sources'[j])
      <4>1. items'[j].count = emission[e].seen + 1
        BY <1>2, <1>4, <1>5, <2>1
      <4>2. emission[e].seen + 1 <= Cardinality(sources[i]) + 1
        BY <1>1, <1>9
      <4> QED BY <1>9, <2>1, <4>1, <4>2
    <3>2. ASSUME sources'[j] \cap met = {}
          PROVE  items'[j].count = Cardinality(sources'[j])
      <4>1. e \notin met /\ sources[j] \cap met = {}
        BY <1>5, <2>1, <3>2
      <4>2. items[j].count = Cardinality(sources[j])
        BY <4>1 DEF FeedInv, Deduplicated, CountIsOccurrences
      <4> QED BY <1>1, <1>9, <2>1, <3>1, <4>1, <4>2
    <3> QED BY <3>1, <3>2
  <2>2. CASE j # i
    BY <1>5, <2>2 DEF FeedInv, Deduplicated, CountIsOccurrences
  <2> QED BY <2>1, <2>2
<1> QED BY <1>12, <1>13, <1>14, <1>15, <1>16 DEF Deduplicated

LEMMA InsertStep ==
  ASSUME FeedTypeOK, FeedInv, NEW e \in Emissions, Insert(e)
  PROVE  EmissionsMet' /\ BumpSound' /\ InsertSound' /\ Deduplicated'
<1> DEFINE row == [NoRow EXCEPT !.status = "open", !.count = 1]
<1>0. /\ emission[e].stage = "inserting" /\ InFlight(e) /\ e \in Items
      /\ items' = [items EXCEPT ![e] = row] /\ sources' = [sources EXCEPT ![e] = {e}]
      /\ EmissionOver(e) /\ UNCHANGED <<met, revived>>
  BY FeedSets DEF Insert, InFlight
<1>1. row.status = "open" /\ row.count = 1
  BY DEF NoRow
<1> HIDE DEF row
<1>2. /\ items'[e] = row /\ \A j \in Items \ {e} : items'[j] = items[j]
      /\ sources'[e] = {e} /\ \A j \in Items \ {e} : sources'[j] = sources[j]
  BY <1>0 DEF FeedTypeOK
<1>3. items[e].status = "absent"
  BY <1>0 DEF FeedInv, EmissionsMet
<1>4. \A d \in Emissions : InFlight(d)' => d # e /\ InFlight(d) /\ d \in met /\ e \in met
  BY <1>0, OverEmission DEF FeedInv, EmissionsMet, InFlight
<1>5. /\ \A d \in Emissions \ {e} : emission'[d] = emission[d] /\ barred'[d] = barred[d]
      /\ emission'[e].stage = "over"
  BY <1>0, OverEmission
<1>6. ActiveItems' = ActiveItems \cup {e} /\ FreshlyDismissed' = FreshlyDismissed
  <2>1. e \in ActiveItems' /\ e \notin FreshlyDismissed /\ e \notin FreshlyDismissed'
    BY <1>0, <1>1, <1>2, <1>3 DEF ActiveItems, FreshlyDismissed, Active
  <2>2. \A j \in Items \ {e} : (j \in ActiveItems' <=> j \in ActiveItems) /\ (j \in FreshlyDismissed' <=> j \in FreshlyDismissed)
    BY <1>2 DEF ActiveItems, FreshlyDismissed
  <2>3. ActiveItems \subseteq Items /\ FreshlyDismissed \subseteq Items /\ ActiveItems' \subseteq Items /\ FreshlyDismissed' \subseteq Items
    BY DEF ActiveItems, FreshlyDismissed
  <2> QED BY <1>0, <2>1, <2>2, <2>3
<1>7. EmissionsMet'
  <2>1. \A c, d \in Emissions : InFlight(c)' /\ InFlight(d)' /\ c # d => d \in met'
    BY <1>0, <1>4
  <2>2. \A d \in Emissions : emission'[d].stage # "over" => items'[d].status = "absent"
    BY <1>2, <1>5, FeedSets DEF FeedInv, EmissionsMet
  <2>3. \A d \in Emissions : emission'[d].stage # "over" => \A j \in Items : d \notin sources'[j]
    BY <1>2, <1>5 DEF FeedInv, EmissionsMet
  <2> QED BY <2>1, <2>2, <2>3 DEF EmissionsMet
<1>8. BumpSound'
  <2> SUFFICES ASSUME NEW d \in Emissions, emission'[d].stage = "bumping"
               PROVE  /\ emission'[d].item \in Items /\ items'[emission'[d].item].status # "absent"
                      /\ emission'[d].seen <= Cardinality(sources'[emission'[d].item])
                      /\ d \notin met' => emission'[d].seen = items'[emission'[d].item].count
    BY DEF BumpSound
  <2>1. d # e /\ emission'[d] = emission[d] /\ d \in met'
    BY <1>0, <1>4, <1>5 DEF InFlight
  <2>2. /\ emission[d].item \in Items /\ items[emission[d].item].status # "absent"
        /\ emission[d].seen <= Cardinality(sources[emission[d].item])
    BY <2>1 DEF FeedInv, BumpSound
  <2>3. emission[d].item # e
    BY <1>3, <2>2
  <2> QED BY <1>2, <2>1, <2>2, <2>3
<1>9. InsertSound'
  <2> SUFFICES ASSUME NEW d \in Emissions, emission'[d].stage \in {"checking", "inserting"}
               PROVE  /\ d \notin met' => ActiveItems' \subseteq revived'
                      /\ emission'[d].stage = "checking" => barred'[d] \ revived' \subseteq FreshlyDismissed'
                      /\ emission'[d].stage = "inserting" => barred'[d] \subseteq revived'
    BY DEF InsertSound
  <2>1. d # e /\ emission'[d] = emission[d] /\ barred'[d] = barred[d] /\ d \in met'
    BY <1>0, <1>4, <1>5 DEF InFlight
  <2> QED BY <1>0, <1>6, <2>1 DEF FeedInv, InsertSound
<1>10. OneItem'
  <2>1. e \in met \/ ActiveItems \subseteq revived
    BY <1>0 DEF FeedInv, InsertSound
  <2> QED BY <1>0, <1>6, <2>1 DEF FeedInv, Deduplicated, OneItem
<1>11. CountIsOccurrences'
  <2>1. Cardinality({e}) = 1
    BY FS_Singleton
  <2>2. items'[e].count = 1 /\ Cardinality(sources'[e]) = 1
    BY <1>1, <1>2, <2>1
  <2>4. UNCHANGED met
    BY <1>0
  <2>5. items'[e].count <= Cardinality(sources'[e]) /\ items'[e].count = Cardinality(sources'[e])
    BY <2>2
  <2> SUFFICES ASSUME NEW j \in Items
               PROVE  /\ items'[j].count <= Cardinality(sources'[j])
                      /\ sources'[j] \cap met' = {} => items'[j].count = Cardinality(sources'[j])
    BY DEF CountIsOccurrences
  <2>6. CASE j = e
    BY <2>5, <2>6
  <2>7. CASE j # e
    <3>1. items'[j] = items[j] /\ sources'[j] = sources[j] /\ met' = met
      BY <1>2, <2>4, <2>7
    <3>2. /\ items[j].count <= Cardinality(sources[j])
          /\ sources[j] \cap met = {} => items[j].count = Cardinality(sources[j])
      BY DEF FeedInv, Deduplicated, CountIsOccurrences
    <3> QED BY <3>1, <3>2, Zenon
  <2> QED BY <2>6, <2>7
<1> QED BY <1>7, <1>8, <1>9, <1>10, <1>11 DEF Deduplicated

\* An automation run never writes to an item itself.
LEMMA AutomationNeverReports ==
  ASSUME AutomationTypeOK, NEW t \in Tasks, AutomationStep(t) \/ RecordFails(t) \/ FinishFails(t)
  PROVE  \A u \in Tasks : (At(u, "reporting")' => At(u, "reporting")) /\ (Live(u) => Live(u)')
<1> USE StageSet
<1>1. task \in [Tasks -> Task] /\ task[t].verdict \in Verdicts
  BY DEF AutomationTypeOK, Task
<1>2. ASSUME NEW s \in Stages, s \notin {"idle", "reporting", "over"},
             task' = Moved(t, s) \/ \E v \in Verdicts : task' = Concluded(t, s, v)
      PROVE  \A u \in Tasks : (At(u, "reporting")' => At(u, "reporting")) /\ (Live(u) => Live(u)')
  <2>1. ASSUME task' = Moved(t, s)
        PROVE  task'[t].stage = s /\ \A u \in Tasks \ {t} : task'[u] = task[u]
    BY <1>1, <2>1 DEF Moved, Task
  <2>2. ASSUME NEW v \in Verdicts, task' = Concluded(t, s, v)
        PROVE  task'[t].stage = s /\ \A u \in Tasks \ {t} : task'[u] = task[u]
    BY <1>1, <2>2, TaskMoves
  <2>3. task'[t].stage = s /\ \A u \in Tasks \ {t} : task'[u] = task[u]
    BY <1>2, <2>1, <2>2
  <2> QED BY <1>2, <2>3 DEF At, Live
<1>3. CASE Gate(t) \/ Enter(t)
  <2>1. PICK s \in {"done", "entering", "recording"} :
          task' = Moved(t, s) \/ task' = Concluded(t, s, "failed")
    BY <1>3 DEF Gate, Enter, Refused
  <2> QED BY <1>2, <2>1
<1>4. CASE Record(t) \/ Evaluate(t) \/ Finish(t) \/ RecordFails(t)
  <2>1. PICK s \in {"evaluating", "finishing", "done"} :
          task' = Moved(t, s) \/ \E v \in Verdicts : task' = Concluded(t, s, v)
    BY <1>1, <1>4 DEF Record, Evaluate, Finish, RecordFails, Concluded, Ended
  <2> QED BY <1>2, <2>1
<1>5. CASE FinishFails(t)
  <2>1. CASE task' = [task EXCEPT ![t].verdict = "failed"]
    BY <1>1, <2>1 DEF At, Live, Task
  <2>2. CASE task' = Concluded(t, "done", "failed")
    BY <1>2, <2>2
  <2> QED BY <1>1, <1>5, <2>1, <2>2, FinishFailsMoves
<1> QED BY <1>3, <1>4, <1>5 DEF AutomationStep

\* Whatever is worked on goes on existing.
LEMMA ReferencedStep ==
  ASSUME FeedTypeOK, AutomationTypeOK, FeedInv, [Next]_vars
  PROVE  Referenced'
<1> USE FeedSets
<1>0. Referenced
  BY DEF FeedInv
<1>1. ASSUME \A j \in Items : items[j].status # "absent" => items'[j].status # "absent",
             \A r \in Requests : Acting(r)' => Acting(r) /\ request'[r].item = request[r].item,
             \A t \in Tasks : subject'[t].item \in {subject[t].item, NoItem},
             \A t \in Tasks : At(t, "reporting")' => subject'[t].item # NoItem
      PROVE  Referenced'
  BY <1>0, <1>1 DEF Referenced, FeedTypeOK
<1>2. ASSUME NEW r \in Requests, RequestOver(r)
      PROVE  \A s \in Requests : Acting(s)' => Acting(s) /\ request'[s] = request[s]
  BY <1>2 DEF RequestOver, Acting, FeedTypeOK
<1>3. ASSUME NEW t \in Tasks, TaskOver(t)
      PROVE  /\ \A u \in Tasks : subject'[u].item \in {subject[u].item, NoItem}
             /\ \A u \in Tasks : At(u, "reporting")' => subject'[u].item # NoItem
  <2>1. /\ subject'[t].item = NoItem /\ \A u \in Tasks \ {t} : subject'[u] = subject[u]
        /\ task'[t].stage = "over" /\ \A u \in Tasks \ {t} : task'[u] = task[u]
    BY <1>3, StageSet, TaskMoves DEF TaskOver, FeedTypeOK, AutomationTypeOK
  <2> QED BY <1>0, <2>1 DEF Referenced, At
<1>4. ASSUME NEW i \in Items, items[i].status # "absent", NEW seen \in Copy, NEW new \in Copy,
             new.status # "absent", Update(i, seen, new)
      PROVE  \A j \in Items : items[j].status # "absent" => items'[j].status # "absent"
  BY <1>4, UpdateMoves DEF FeedTypeOK
<1>5. ASSUME NEW e \in Emissions, Occur(e) \/ Check(e) \/ EmissionFails(e)
      PROVE  Referenced'
  <2>1. UNCHANGED <<vars_automation, items, request, subject>>
    BY <1>5 DEF Occur, Check, EmissionFails
  <2> QED BY <1>0, <2>1 DEF Referenced, Acting, At, vars_automation, automation
<1>6. ASSUME NEW e \in Emissions, Bump(e)
      PROVE  Referenced'
  <2>1. UNCHANGED <<vars_automation, request, subject>>
    BY <1>6 DEF Bump
  <2>2. \A j \in Items : items[j].status # "absent" => items'[j].status # "absent"
    BY <1>6 DEF Bump, FeedTypeOK, Row
  <2> QED BY <1>0, <2>1, <2>2 DEF Referenced, Acting, At, vars_automation, automation, FeedTypeOK
<1>7. ASSUME NEW e \in Emissions, Insert(e)
      PROVE  Referenced'
  <2>1. UNCHANGED <<vars_automation, request, subject>>
    BY <1>7 DEF Insert
  <2>2. \A j \in Items : items[j].status # "absent" => items'[j].status # "absent"
    BY <1>7 DEF Insert, FeedTypeOK, NoRow
  <2> QED BY <1>0, <2>1, <2>2 DEF Referenced, Acting, At, vars_automation, automation, FeedTypeOK
<1>8. ASSUME NEW i \in Items, WeekPasses(i)
      PROVE  Referenced'
  <2>1. UNCHANGED <<vars_automation, request, subject>>
    BY <1>8 DEF WeekPasses
  <2>2. \A j \in Items : items[j].status # "absent" => items'[j].status # "absent"
    BY <1>8 DEF WeekPasses, FeedTypeOK, Row
  <2> QED BY <1>0, <2>1, <2>2 DEF Referenced, Acting, At, vars_automation, automation, FeedTypeOK
<1>9. ASSUME NEW r \in Requests, NEW i \in Items, NEW what \in {"dismissing", "running"}, Ask(r, i, what)
      PROVE  Referenced'
  <2>1. UNCHANGED <<vars_automation, items, subject>> /\ items[i].status # "absent"
        /\ request'[r].item = i /\ \A s \in Requests \ {r} : request'[s] = request[s]
    BY <1>9 DEF Ask, FeedTypeOK
  <2> QED BY <1>0, <2>1 DEF Referenced, Acting, At, vars_automation, automation
<1>10. ASSUME NEW r \in Requests, Refuse(r)
       PROVE  Referenced'
  <2>1. UNCHANGED <<vars_automation, items, subject>> /\ RequestOver(r)
    BY <1>10 DEF Refuse
  <2> QED BY <1>0, <1>2, <2>1 DEF Referenced, At, vars_automation, automation
<1>11. ASSUME NEW r \in Requests, Dismiss(r)
       PROVE  Referenced'
  <2> DEFINE i == request[r].item
             seen == request[r].seen
             new == [seen EXCEPT !.status = "dismissed"]
  <2>1. i \in Items /\ items[i].status # "absent" /\ seen \in Copy
    BY <1>0, <1>11 DEF Dismiss, Referenced, Acting, FeedTypeOK
  <2>2. new \in Copy /\ new.status = "dismissed"
    BY <2>1 DEF Copy, ItemStatuses, Closed
  <2>3. Update(i, seen, new) /\ RequestOver(r) /\ UNCHANGED <<vars_automation, subject>>
    BY <1>11 DEF Dismiss
  <2> HIDE DEF i, seen, new
  <2>4. \A j \in Items : items[j].status # "absent" => items'[j].status # "absent"
    BY <1>4, <2>1, <2>2, <2>3
  <2> QED BY <1>0, <1>2, <2>3, <2>4 DEF Referenced, At, vars_automation, automation, FeedTypeOK
<1>12. ASSUME NEW r \in Requests, NEW t \in Tasks, NEW kind \in Kinds, Resolve(r, t, kind)
       PROVE  Referenced'
  <2> DEFINE i == request[r].item
             seen == request[r].seen
             new == [seen EXCEPT !.status = "in_progress", !.spawned[t] = "running"]
  <2>1. i \in Items /\ items[i].status # "absent" /\ seen \in Copy
    BY <1>0, <1>12 DEF Resolve, Referenced, Acting, FeedTypeOK
  <2>2. new \in Copy /\ new.status = "in_progress"
    BY <2>1 DEF Copy, ItemStatuses, Active, Entries
  <2>3. /\ Update(i, seen, new) /\ RequestOver(r) /\ Called(t, kind, "admin")
        /\ subject' = [subject EXCEPT ![t].item = i]
    BY <1>12 DEF Resolve
  <2> HIDE DEF i, seen, new
  <2>4. \A j \in Items : items[j].status # "absent" => items'[j].status # "absent"
    BY <1>4, <2>1, <2>2, <2>3
  <2>5. \A s \in Requests : Acting(s)' => Acting(s) /\ request'[s] = request[s]
    BY <1>2, <2>3
  <2>6. subject'[t].item = i /\ \A u \in Tasks \ {t} : subject'[u] = subject[u]
    BY <2>3 DEF FeedTypeOK
  <2>7. task'[t].stage = "called" /\ \A u \in Tasks \ {t} : task'[u] = task[u]
    BY <2>3, CalledMoves DEF Callers
  <2>8. \A u \in Tasks : subject'[u].item # NoItem =>
          subject'[u].item \in Items /\ items'[subject'[u].item].status # "absent"
    BY <1>0, <2>1, <2>4, <2>6 DEF Referenced, FeedTypeOK
  <2>9. \A u \in Tasks : At(u, "reporting")' => subject'[u].item # NoItem
    BY <1>0, <2>6, <2>7 DEF Referenced, At
  <2> QED BY <1>0, <2>4, <2>5, <2>8, <2>9 DEF Referenced, FeedTypeOK
<1>13. ASSUME NEW t \in Tasks, Trigger(t)
       PROVE  Referenced'
  <2>1. task'[t].stage = "called" /\ \A u \in Tasks \ {t} : task'[u] = task[u]
    BY <1>13, CalledMoves DEF Trigger, Callers, Kinds
  <2>2. UNCHANGED <<items, request, subject>>
    BY <1>13 DEF Trigger, feed
  <2> QED BY <1>0, <2>1, <2>2 DEF Referenced, Acting, At
<1>14. ASSUME NEW t \in Tasks, Automate(t) \/ TaskFails(t)
       PROVE  Referenced'
  <2>1. UNCHANGED <<items, request, subject>> /\ (AutomationStep(t) \/ RecordFails(t) \/ FinishFails(t))
    BY <1>14 DEF Automate, TaskFails, feed
  <2>2. \A u \in Tasks : At(u, "reporting")' => At(u, "reporting")
    BY <2>1, AutomationNeverReports
  <2> QED BY <1>0, <2>1, <2>2 DEF Referenced, Acting
<1>15. ASSUME NEW t \in Tasks, Reread(t)
       PROVE  Referenced'
  <2>1. UNCHANGED <<items, request>>
    BY <1>15 DEF Reread
  <2>2. CASE subject[t].item = NoItem
    <3>1. TaskOver(t)
      BY <1>15, <2>2 DEF Reread
    <3> QED BY <1>0, <1>3, <2>1, <3>1 DEF Referenced, Acting
  <2>3. CASE subject[t].item # NoItem
    <3>1. subject' = [subject EXCEPT ![t].seen = Loaded(subject[t].item)] /\ task' = Moved(t, "reporting")
      BY <1>15, <2>3 DEF Reread
    <3>2. \A u \in Tasks : subject'[u].item = subject[u].item
      BY <3>1 DEF FeedTypeOK
    <3>3. \A u \in Tasks \ {t} : task'[u] = task[u]
      BY <3>1 DEF Moved, AutomationTypeOK
    <3> QED BY <1>0, <2>1, <2>3, <3>2, <3>3 DEF Referenced, Acting, At
  <2> QED BY <2>2, <2>3
<1>16. ASSUME NEW t \in Tasks, Report(t)
       PROVE  Referenced'
  <2> DEFINE i == subject[t].item
             seen == subject[t].seen
             new == Reported(t, seen)
  <2>1. i \in Items /\ items[i].status # "absent" /\ seen \in Copy
    BY <1>0, <1>16 DEF Report, Referenced, FeedTypeOK
  <2>2. new \in Copy /\ new.status \in {"resolved", "open"}
    BY <2>1, ReportedType
  <2>3. Update(i, seen, new) /\ TaskOver(t) /\ UNCHANGED request
    BY <1>16 DEF Report
  <2> HIDE DEF i, seen, new
  <2>4. \A j \in Items : items[j].status # "absent" => items'[j].status # "absent"
    BY <1>4, <2>1, <2>2, <2>3
  <2>5. \A s \in Requests : Acting(s)' => Acting(s) /\ request'[s].item = request[s].item
    BY <2>3 DEF Acting
  <2> QED BY <1>1, <1>3, <2>3, <2>4, <2>5
<1>17. ASSUME NEW t \in Tasks, ReportFails(t)
       PROVE  Referenced'
  <2>1. TaskOver(t) /\ UNCHANGED <<items, request>>
    BY <1>17 DEF ReportFails
  <2> QED BY <1>0, <1>3, <2>1 DEF Referenced, Acting
<1>18. CASE Crash
  <2>1. UNCHANGED items /\ \A t \in Tasks : subject'[t].item = NoItem
    BY <1>18 DEF Crash
  <2>2. \A r \in Requests : ~Acting(r)'
    <3> SUFFICES ASSUME NEW r \in Requests PROVE ~Acting(r)'
      OBVIOUS
    <3>1. CASE Acting(r)
      BY <1>18, <3>1 DEF Crash, Acting
    <3>2. CASE ~Acting(r)
      BY <1>18, <3>2 DEF Crash, Acting
    <3> QED BY <3>1, <3>2
  <2>3. \A t \in Tasks : ~At(t, "reporting")'
    <3> SUFFICES ASSUME NEW t \in Tasks PROVE ~At(t, "reporting")'
      OBVIOUS
    <3>1. CASE Live(t)
      BY <1>18, <3>1 DEF Crash, Die, Ended, At, AutomationTypeOK, Task
    <3>2. CASE ~Live(t)
      BY <1>18, <3>2 DEF Crash, Die, Live, At
    <3> QED BY <3>1, <3>2
  <2> QED BY <2>1, <2>2, <2>3 DEF Referenced
<1>19. CASE UNCHANGED vars
  BY <1>0, <1>19 DEF Referenced, Acting, At, vars, vars_automation, automation, feed
<1> QED BY <1>5, <1>6, <1>7, <1>8, <1>9, <1>10, <1>11, <1>12, <1>13, <1>14, <1>15, <1>16, <1>17,
           <1>18, <1>19 DEF Next

LEMMA WeekStep ==
  ASSUME FeedTypeOK, FeedInv, NEW i \in Items, WeekPasses(i)
  PROVE  EmissionsMet' /\ BumpSound' /\ InsertSound' /\ Deduplicated'
<1>1. /\ \A e \in Emissions : ~InFlight(e)
      /\ UNCHANGED <<emission, sources, met, barred, revived>>
      /\ \A j \in Items : items'[j].status = items[j].status /\ items'[j].count = items[j].count
  BY DEF WeekPasses, FeedTypeOK, Row, history
<1>2. EmissionsMet'
  BY <1>1, FeedSets DEF FeedInv, EmissionsMet, InFlight
<1>3. BumpSound' /\ InsertSound'
  BY <1>1 DEF BumpSound, InsertSound, InFlight
<1>4. ActiveItems' = ActiveItems
  BY <1>1 DEF ActiveItems
<1>5. OneItem'
  BY <1>1, <1>4 DEF FeedInv, Deduplicated, OneItem
<1>6. CountIsOccurrences'
  BY <1>1 DEF FeedInv, Deduplicated, CountIsOccurrences
<1> QED BY <1>2, <1>3, <1>5, <1>6 DEF Deduplicated

LEMMA CrashStep ==
  ASSUME FeedTypeOK, FeedInv, Crash
  PROVE  EmissionsMet' /\ BumpSound' /\ InsertSound' /\ Deduplicated'
<1>1. UNCHANGED <<items, sources, met, revived>>
  BY DEF Crash
<1>2. \A e \in Emissions : ~InFlight(e)' /\ (emission'[e].stage # "over" => emission'[e] = emission[e])
  <2> SUFFICES ASSUME NEW e \in Emissions
               PROVE  ~InFlight(e)' /\ (emission'[e].stage # "over" => emission'[e] = emission[e])
    OBVIOUS
  <2>1. CASE InFlight(e)
    BY <2>1 DEF Crash, InFlight
  <2>2. CASE ~InFlight(e)
    BY <2>2 DEF Crash, InFlight
  <2> QED BY <2>1, <2>2
<1>3. EmissionsMet'
  BY <1>1, <1>2 DEF FeedInv, EmissionsMet
<1>4. BumpSound' /\ InsertSound'
  BY <1>2 DEF BumpSound, InsertSound, InFlight
<1>5. OneItem' /\ CountIsOccurrences'
  BY <1>1 DEF FeedInv, Deduplicated, OneItem, CountIsOccurrences, ActiveItems
<1> QED BY <1>3, <1>4, <1>5 DEF Deduplicated

\* Every other step is quiet.
LEMMA OtherSteps ==
  ASSUME FeedTypeOK, FeedInv,
         \/ \E r \in Requests, i \in Items, what \in {"dismissing", "running"} : Ask(r, i, what)
         \/ \E r \in Requests : Dismiss(r) \/ Refuse(r)
         \/ \E r \in Requests, t \in Tasks, kind \in Kinds : Resolve(r, t, kind)
         \/ \E t \in Tasks : Trigger(t) \/ Automate(t) \/ Reread(t) \/ Report(t) \/ ReportFails(t) \/ TaskFails(t)
         \/ UNCHANGED vars
  PROVE  Quiet
<1>0. Referenced
  BY DEF FeedInv
<1>1. ASSUME NEW r \in Requests, Dismiss(r)
      PROVE  Quiet
  <2> DEFINE i == request[r].item
             seen == request[r].seen
             new == [seen EXCEPT !.status = "dismissed"]
  <2>1. i \in Items /\ items[i].status # "absent" /\ seen \in Copy
    BY <1>0, <1>1 DEF Dismiss, Referenced, Acting, FeedTypeOK
  <2>2. new \in Copy /\ new.status = "dismissed"
    BY <2>1 DEF Copy, ItemStatuses, Closed
  <2>3. Update(i, seen, new) /\ UNCHANGED <<emission, sources, met, barred, revived>>
    BY <1>1 DEF Dismiss, history
  <2> HIDE DEF i, seen, new
  <2> QED BY <2>1, <2>2, <2>3, UpdateQuiet
<1>2. ASSUME NEW r \in Requests, NEW t \in Tasks, NEW kind \in Kinds, Resolve(r, t, kind)
      PROVE  Quiet
  <2> DEFINE i == request[r].item
             seen == request[r].seen
             new == [seen EXCEPT !.status = "in_progress", !.spawned[t] = "running"]
  <2>1. i \in Items /\ items[i].status # "absent" /\ seen \in Copy
    BY <1>0, <1>2 DEF Resolve, Referenced, Acting, FeedTypeOK
  <2>2. new \in Copy /\ new.status = "in_progress"
    BY <2>1 DEF Copy, ItemStatuses, Active, Entries
  <2>3. Update(i, seen, new) /\ Revive /\ UNCHANGED <<emission, sources, met, barred>>
    BY <1>2 DEF Resolve
  <2> HIDE DEF i, seen, new
  <2> QED BY <2>1, <2>2, <2>3, UpdateQuiet
<1>3. ASSUME NEW t \in Tasks, Report(t)
      PROVE  Quiet
  <2> DEFINE i == subject[t].item
             seen == subject[t].seen
             new == Reported(t, seen)
  <2>1. i \in Items /\ items[i].status # "absent" /\ seen \in Copy
    BY <1>0, <1>3 DEF Report, Referenced, FeedTypeOK
  <2>2. new \in Copy /\ new.status \in {"resolved", "open"}
    BY <2>1, ReportedType
  <2>3. Update(i, seen, new) /\ Revive /\ UNCHANGED <<emission, sources, met, barred>>
    BY <1>3 DEF Report
  <2> HIDE DEF i, seen, new
  <2> QED BY <2>1, <2>2, <2>3, UpdateQuiet
<1>4. ASSUME UNCHANGED <<items, emission, history>>
      PROVE  Quiet
  BY <1>4, StillQuiet DEF history
<1>5. ASSUME NEW r \in Requests, Refuse(r) \/ \E i \in Items, what \in {"dismissing", "running"} : Ask(r, i, what)
      PROVE  Quiet
  BY <1>4, <1>5 DEF Refuse, Ask
<1>6. ASSUME NEW t \in Tasks, Trigger(t) \/ Automate(t) \/ Reread(t) \/ ReportFails(t) \/ TaskFails(t)
      PROVE  Quiet
  BY <1>4, <1>6 DEF Trigger, Automate, Reread, ReportFails, TaskFails, feed
<1>7. CASE UNCHANGED vars
  BY <1>4, <1>7 DEF vars, feed
<1> QED BY <1>1, <1>2, <1>3, <1>5, <1>6, <1>7
-----------------------------------------------------------------------------
(* The invariant, and what follows from it *)

LEMMA IInvStarts ==
  ASSUME Init
  PROVE  IInv
<1> USE FeedSets
<1>1. AutomationInv
  BY AutomationStarts
<1>2. FeedTypeOK
  BY DEF Init, FeedTypeOK
<1>3. EmissionsMet /\ Referenced /\ BumpSound /\ InsertSound
  <2>1. EmissionsMet
    BY DEF Init, EmissionsMet, InFlight, NoRow
  <2>2. Referenced
    BY DEF Init, AutomationInit, Referenced, Acting, At
  <2>3. BumpSound /\ InsertSound
    BY DEF Init, BumpSound, InsertSound
  <2> QED BY <2>1, <2>2, <2>3
<1>4. Deduplicated
  <2>1. OneItem
    BY DEF Init, OneItem, ActiveItems, Active, NoRow
  <2>2. CountIsOccurrences
    BY FS_EmptySet DEF Init, CountIsOccurrences, NoRow
  <2> QED BY <2>1, <2>2 DEF Deduplicated
<1> QED BY <1>1, <1>2, <1>3, <1>4, TypeParts DEF IInv, FeedInv, AutomationInv

LEMMA IInvStays ==
  ASSUME IInv, [Next]_vars
  PROVE  IInv'
<1>1. AutomationInv /\ AutomationTypeOK /\ FeedTypeOK /\ FeedInv
  BY TypeParts DEF IInv, AutomationInv
<1>2. AutomationInv'
  BY <1>1, AutomationStays
<1>3. FeedTypeOK'
  BY <1>1, FeedType DEF FeedInv
<1>4. Referenced'
  BY <1>1, ReferencedStep
<1>5. EmissionsMet' /\ BumpSound' /\ InsertSound' /\ Deduplicated'
  <2>1. ASSUME NEW e \in Emissions, Occur(e) \/ Check(e) \/ Bump(e) \/ Insert(e)
        PROVE  EmissionsMet' /\ BumpSound' /\ InsertSound' /\ Deduplicated'
    BY <1>1, <2>1, OccurStep, CheckStep, BumpStep, InsertStep
  <2>2. ASSUME NEW e \in Emissions, EmissionFails(e)
        PROVE  EmissionsMet' /\ BumpSound' /\ InsertSound' /\ Deduplicated'
    BY <1>1, <2>2, GivesUp DEF EmissionFails
  <2>3. ASSUME NEW i \in Items, WeekPasses(i)
        PROVE  EmissionsMet' /\ BumpSound' /\ InsertSound' /\ Deduplicated'
    BY <1>1, <2>3, WeekStep
  <2>4. CASE Crash
    BY <1>1, <2>4, CrashStep
  <2>5. ASSUME Quiet
        PROVE  EmissionsMet' /\ BumpSound' /\ InsertSound' /\ Deduplicated'
    BY <1>1, <2>5, QuietStep
  <2>6. CASE \/ \E r \in Requests, i \in Items, what \in {"dismissing", "running"} : Ask(r, i, what)
             \/ \E r \in Requests : Dismiss(r) \/ Refuse(r)
             \/ \E r \in Requests, t \in Tasks, kind \in Kinds : Resolve(r, t, kind)
             \/ \E t \in Tasks : Trigger(t) \/ Automate(t) \/ Reread(t) \/ Report(t) \/ ReportFails(t) \/ TaskFails(t)
             \/ UNCHANGED vars
    BY <1>1, <2>5, <2>6, OtherSteps
  <2> QED BY <2>1, <2>2, <2>3, <2>4, <2>6 DEF Next
<1>6. TypeOK'
  BY <1>2, <1>3 DEF AutomationInv, TypeOK, FeedTypeOK
<1> QED BY <1>2, <1>4, <1>5, <1>6 DEF IInv, FeedInv, AutomationInv

LEMMA Invariance == Spec => []IInv
<1>1. Init => IInv
  BY IInvStarts
<1>2. IInv /\ [Next]_vars => IInv'
  BY IInvStays
<1> QED BY <1>1, <1>2, PTL DEF Spec

\* Every variable of the feed keeps its type.
THEOREM TypeCorrect == Spec => []TypeOK
<1>1. IInv => TypeOK
  BY DEF IInv
<1> QED BY <1>1, Invariance, PTL

\* One active item per condition, counting its occurrences, for any number of
\* emissions, requests and workflows: what breaks it is two emissions in flight
\* together or an item brought back, and nothing else.
THEOREM Deduplication == Spec => []Deduplicated
<1>1. IInv => Deduplicated
  BY DEF IInv, FeedInv
<1> QED BY <1>1, Invariance, PTL

\* An emission that begins within the week of a dismissal inserts nothing, unless
\* a workflow has brought the dismissed item back.
THEOREM DismissalsHold == Spec => DismissalHolds
<1> DEFINE Held == \A e \in Emissions : items[e].status = "absent" /\ items'[e].status # "absent" =>
                     barred[e] \subseteq revived
<1>1. IInv /\ [Next]_vars => [Held]_vars
  <2> SUFFICES ASSUME IInv, Next
               PROVE  Held
    OBVIOUS
  <2>0. FeedTypeOK /\ FeedInv
    BY TypeParts DEF IInv
  <2>1. ASSUME NEW e \in Emissions, Insert(e)
        PROVE  Held
    <3>1. barred[e] \subseteq revived /\ \A d \in Emissions \ {e} : items'[d] = items[d]
      BY <2>0, <2>1, FeedSets DEF Insert, FeedInv, InsertSound, FeedTypeOK
    <3> QED BY <3>1
  <2>2. ASSUME NEW e \in Emissions, Occur(e) \/ Check(e) \/ EmissionFails(e)
        PROVE  Held
    BY <2>2 DEF Occur, Check, EmissionFails
  <2>3. ASSUME NEW e \in Emissions, Bump(e)
        PROVE  Held
    <3>1. \A d \in Items : items'[d].status = items[d].status
      BY <2>0, <2>3 DEF Bump, FeedTypeOK, Row
    <3> QED BY <3>1, FeedSets
  <2>4. ASSUME NEW i \in Items, WeekPasses(i)
        PROVE  Held
    <3>1. \A d \in Items : items'[d].status = items[d].status
      BY <2>0, <2>4 DEF WeekPasses, FeedTypeOK, Row
    <3> QED BY <3>1, FeedSets
  <2>5. CASE Crash
    BY <2>5 DEF Crash
  <2>6. ASSUME Quiet
        PROVE  Held
    BY <2>6, FeedSets DEF Quiet
  <2> QED BY <2>0, <2>1, <2>2, <2>3, <2>4, <2>5, <2>6, OtherSteps DEF Next
<1> QED BY <1>1, Invariance, PTL DEF Spec, DismissalHolds
\* A workflow that will take item i out of progress: it has yet to load the item,
\* or it has loaded it in progress, so that its UPDATE names the status.
Watches(t, i) ==
  /\ Live(t) /\ subject[t].item = i
  /\ At(t, "reporting") => subject[t].seen.status = "in_progress"

Watched ==
  faults \cap {"report", "death"} = {} =>
    \A i \in Items : items[i].status = "in_progress" => \E t \in Tasks : Watches(t, i)

LEMMA WatchedStays ==
  ASSUME IInv, Watched, [Next]_vars
  PROVE  Watched'
<1> USE FeedSets
<1>0. AutomationTypeOK /\ FeedTypeOK /\ Referenced
  BY TypeParts DEF IInv, FeedInv
<1>1. SUFFICES ASSUME (faults \cap {"report", "death"} = {})',
                      NEW i \in Items, items'[i].status = "in_progress"
               PROVE  \E t \in Tasks : Watches(t, i)'
  BY DEF Watched
<1>2. ASSUME faults \subseteq faults', items[i].status = "in_progress",
             \A u \in Tasks : Watches(u, i) => Watches(u, i)'
      PROVE  \E t \in Tasks : Watches(t, i)'
  BY <1>1, <1>2 DEF Watched
<1>3. ASSUME NEW t \in Tasks, \A u \in Tasks \ {t} : task'[u] = task[u] /\ subject'[u] = subject[u]
      PROVE  \A u \in Tasks \ {t} : Watches(u, i) => Watches(u, i)'
  BY <1>3 DEF Watches, Live, At
<1>4. ASSUME UNCHANGED <<task, subject, faults>>, items[i].status = "in_progress"
      PROVE  \E t \in Tasks : Watches(t, i)'
  BY <1>2, <1>4 DEF Watches, Live, At
<1>5. ASSUME NEW e \in Emissions, Occur(e) \/ Check(e) \/ Bump(e) \/ Insert(e) \/ EmissionFails(e)
      PROVE  \E t \in Tasks : Watches(t, i)'
  <2>1. UNCHANGED <<task, subject, faults>>
    BY <1>5 DEF Occur, Check, Bump, Insert, EmissionFails, vars_automation, automation
  <2>2. items[i].status = "in_progress"
    <3>1. CASE Insert(e)
      BY <1>0, <1>1, <3>1 DEF Insert, FeedTypeOK, NoRow
    <3>2. CASE Bump(e)
      BY <1>0, <1>1, <3>2 DEF Bump, FeedTypeOK, Row
    <3>3. CASE Occur(e) \/ Check(e) \/ EmissionFails(e)
      BY <1>1, <3>3 DEF Occur, Check, EmissionFails
    <3> QED BY <1>5, <3>1, <3>2, <3>3
  <2> QED BY <1>4, <2>1, <2>2
<1>6. ASSUME NEW j \in Items, WeekPasses(j)
      PROVE  \E t \in Tasks : Watches(t, i)'
  <2>1. UNCHANGED <<task, subject, faults>>
    BY <1>6 DEF WeekPasses, vars_automation, automation
  <2>2. items[i].status = "in_progress"
    BY <1>0, <1>1, <1>6 DEF WeekPasses, FeedTypeOK, Row
  <2> QED BY <1>4, <2>1, <2>2
<1>7. ASSUME NEW r \in Requests,
             Refuse(r) \/ \E j \in Items, what \in {"dismissing", "running"} : Ask(r, j, what)
      PROVE  \E t \in Tasks : Watches(t, i)'
  BY <1>1, <1>4, <1>7 DEF Refuse, Ask, vars_automation, automation
<1>8. ASSUME NEW r \in Requests, Dismiss(r)
      PROVE  \E t \in Tasks : Watches(t, i)'
  <2> DEFINE j == request[r].item
             seen == request[r].seen
             new == [seen EXCEPT !.status = "dismissed"]
  <2>1. j \in Items /\ items[j].status # "absent" /\ seen \in Copy
    BY <1>0, <1>8 DEF Dismiss, Referenced, Acting, FeedTypeOK
  <2>2. new \in Copy /\ new.status = "dismissed"
    BY <2>1 DEF Copy, ItemStatuses, Closed
  <2>3. Update(j, seen, new) /\ UNCHANGED <<task, subject, faults>>
    BY <1>8 DEF Dismiss, vars_automation, automation
  <2> HIDE DEF j, seen, new
  <2>4. items[i].status = "in_progress"
    BY <1>0, <1>1, <2>1, <2>2, <2>3, UpdateMoves DEF FeedTypeOK
  <2> QED BY <1>4, <2>3, <2>4
\* The workflow that is started has loaded nothing yet.
<1>9. ASSUME NEW r \in Requests, NEW t \in Tasks, NEW kind \in Kinds, Resolve(r, t, kind)
      PROVE  \E u \in Tasks : Watches(u, i)'
  <2> DEFINE j == request[r].item
             seen == request[r].seen
             new == [seen EXCEPT !.status = "in_progress", !.spawned[t] = "running"]
  <2>1. j \in Items /\ items[j].status # "absent" /\ seen \in Copy
    BY <1>0, <1>9 DEF Resolve, Referenced, Acting, FeedTypeOK
  <2>2. new \in Copy /\ new.status = "in_progress"
    BY <2>1 DEF Copy, ItemStatuses, Active, Entries
  <2>3. /\ Update(j, seen, new) /\ Called(t, kind, "admin") /\ UNCHANGED faults
        /\ subject' = [subject EXCEPT ![t].item = j]
    BY <1>9 DEF Resolve
  <2> HIDE DEF j, seen, new
  <2>4. /\ task'[t].stage = "called" /\ At(t, "idle") /\ \A u \in Tasks \ {t} : task'[u] = task[u]
        /\ subject'[t].item = j /\ \A u \in Tasks \ {t} : subject'[u] = subject[u]
    BY <1>0, <2>3, CalledMoves DEF Callers, FeedTypeOK
  <2>5. CASE i = j
    BY <2>4, <2>5 DEF Watches, Live, At
  <2>6. CASE i # j
    <3>1. items[i].status = "in_progress"
      BY <1>0, <1>1, <2>1, <2>2, <2>3, <2>6, UpdateMoves DEF FeedTypeOK
    <3>2. ~Watches(t, i)
      BY <2>4 DEF Watches, Live, At
    <3>3. \A u \in Tasks : Watches(u, i) => Watches(u, i)'
      BY <1>3, <2>4, <3>2
    <3> QED BY <1>2, <2>3, <3>1, <3>3
  <2> QED BY <2>5, <2>6
<1>10. ASSUME NEW t \in Tasks, Trigger(t)
       PROVE  \E u \in Tasks : Watches(u, i)'
  <2>1. At(t, "idle") /\ \A u \in Tasks \ {t} : task'[u] = task[u]
    BY <1>0, <1>10, CalledMoves DEF Trigger, Callers, Kinds
  <2>2. UNCHANGED <<items, subject, faults>>
    BY <1>10 DEF Trigger, feed
  <2>3. \A u \in Tasks : Watches(u, i) => Watches(u, i)'
    BY <2>1, <2>2 DEF Watches, Live, At
  <2> QED BY <1>1, <1>2, <2>2, <2>3
<1>11. ASSUME NEW t \in Tasks, Automate(t) \/ TaskFails(t)
       PROVE  \E u \in Tasks : Watches(u, i)'
  <2>1. /\ UNCHANGED <<items, subject>> /\ faults \subseteq faults'
        /\ AutomationStep(t) \/ RecordFails(t) \/ FinishFails(t)
    BY <1>11 DEF Automate, TaskFails, feed, AutomationStep, Gate, Enter, Record, Evaluate, Finish,
                 RecordFails, FinishFails, Strike
  <2>2. \A u \in Tasks : Watches(u, i) => Watches(u, i)'
    BY <1>0, <2>1, AutomationNeverReports DEF Watches
  <2> QED BY <1>1, <1>2, <2>1, <2>2
<1>12. ASSUME NEW t \in Tasks, Reread(t)
       PROVE  \E u \in Tasks : Watches(u, i)'
  <2>1. UNCHANGED <<items, faults>> /\ At(t, "done")
    BY <1>12 DEF Reread
  <2>2. CASE subject[t].item = NoItem
    <3>1. TaskOver(t)
      BY <1>12, <2>2 DEF Reread
    <3>2. \A u \in Tasks \ {t} : task'[u] = task[u] /\ subject'[u] = subject[u]
      BY <1>0, <3>1, TaskMoves, StageSet DEF TaskOver, FeedTypeOK, AutomationTypeOK
    <3>3. ~Watches(t, i)
      BY <2>2 DEF Watches
    <3> QED BY <1>1, <1>2, <1>3, <2>1, <3>2, <3>3
  \* It loads the item as it is, in progress.
  <2>3. CASE subject[t].item # NoItem
    <3>1. subject' = [subject EXCEPT ![t].seen = Loaded(subject[t].item)] /\ task' = Moved(t, "reporting")
      BY <1>12, <2>3 DEF Reread
    <3>2. /\ \A u \in Tasks \ {t} : task'[u] = task[u] /\ subject'[u] = subject[u]
          /\ task'[t].stage = "reporting"
          /\ subject'[t].item = subject[t].item
          /\ subject'[t].seen.status = items[subject[t].item].status
      BY <1>0, <2>3, <3>1 DEF Moved, AutomationTypeOK, FeedTypeOK, Task, Loaded
    <3>3. Watches(t, i) => Watches(t, i)'
      BY <1>1, <2>1, <3>2 DEF Watches, Live, At
    <3> QED BY <1>1, <1>2, <1>3, <2>1, <3>2, <3>3
  <2> QED BY <2>2, <2>3
\* What it has loaded in progress it takes out of progress; if it has loaded
\* something else, it is not the workflow that was to do it.
<1>13. ASSUME NEW t \in Tasks, Report(t)
       PROVE  \E u \in Tasks : Watches(u, i)'
  <2> DEFINE j == subject[t].item
             seen == subject[t].seen
             new == Reported(t, seen)
  <2>1. j \in Items /\ items[j].status # "absent" /\ seen \in Copy
    BY <1>0, <1>13 DEF Report, Referenced, FeedTypeOK
  <2>2. new \in Copy /\ new.status \in {"resolved", "open"}
    BY <2>1, ReportedType
  <2>3. Update(j, seen, new) /\ TaskOver(t) /\ UNCHANGED faults /\ At(t, "reporting")
    BY <1>13 DEF Report
  <2>4. \A u \in Tasks \ {t} : task'[u] = task[u] /\ subject'[u] = subject[u]
    BY <1>0, <2>3, TaskMoves, StageSet DEF TaskOver, FeedTypeOK, AutomationTypeOK
  <2>5. Watches(t, i) => j = i /\ seen.status = "in_progress"
    BY <2>3 DEF Watches
  <2> HIDE DEF j, seen, new
  <2>6. items[i].status = "in_progress"
    <3>1. new.status # "absent" /\ new.status # "in_progress"
      BY <2>2
    <3>2. /\ \A k \in Items \ {j} : items'[k] = items[k]
          /\ items'[j].status \in {items[j].status, new.status}
      BY <1>0, <2>1, <2>2, <2>3, <3>1, UpdateMoves DEF FeedTypeOK
    <3> QED BY <1>1, <3>1, <3>2
  <2>7. ~Watches(t, i)
    <3> SUFFICES ASSUME j = i, seen.status = "in_progress"
                 PROVE  FALSE
      BY <2>5
    <3>1. items'[i].status = new.status
      BY <1>0, <2>1, <2>2, <2>3 DEF Update, FeedTypeOK, Row
    <3> QED BY <1>1, <2>2, <3>1
  <2> QED BY <1>2, <1>3, <2>3, <2>4, <2>6, <2>7
<1>14. ASSUME NEW t \in Tasks, ReportFails(t)
       PROVE  FALSE
  BY <1>1, <1>14 DEF ReportFails, Strike
<1>15. CASE Crash
  BY <1>1, <1>15 DEF Crash, Die, Strike
<1>16. CASE UNCHANGED vars
  BY <1>1, <1>4, <1>16 DEF vars, vars_automation, automation, feed
<1> QED BY <1>5, <1>6, <1>7, <1>8, <1>9, <1>10, <1>11, <1>12, <1>13, <1>14, <1>15, <1>16 DEF Next

\* An item in progress has a workflow that is still to report, for any number of
\* requests and workflows with stale copies of it, unless an outcome could not be
\* recorded or the process has died.
THEOREM ItemsAreWatched == Spec => []ItemsHaveWorkflows
<1>1. Init => Watched
  BY FeedSets DEF Init, Watched, NoRow
<1>2. IInv /\ Watched /\ [Next]_vars => Watched'
  BY WatchedStays
<1>3. Watched => ItemsHaveWorkflows
  BY DEF Watched, Watches, ItemsHaveWorkflows
<1> QED BY <1>1, <1>2, <1>3, Invariance, PTL DEF Spec
=============================================================================
