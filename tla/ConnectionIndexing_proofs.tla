---------------------- MODULE ConnectionIndexing_proofs ----------------------
(***************************************************************************)
(* Theorems about ConnectionIndexing, for any tables, requests and number  *)
(* of runs.                                                                *)
(***************************************************************************)
EXTENDS ConnectionIndexing, TLAPS

\* A resting process has its type.
LEMMA RestingType ==
  ASSUME NEW l \in Labels
  PROVE  Resting(l) \in Process
BY DEF Resting, Process

\* Whatever a process goes on with, the others keep their type.
LEMMA ContinueType ==
  ASSUME proc \in [Actors -> Process], NEW a \in Actors, NEW p \in Process, Continue(a, p)
  PROVE  proc' \in [Actors -> Process]
<1>1. Resting("done") \in Process
  BY RestingType DEF Labels
<1> QED
  BY <1>1 DEF Continue

\* Going to another label keeps the types.
LEMMA GotoType ==
  ASSUME proc \in [Actors -> Process], NEW a \in Actors, NEW l \in Labels, Goto(a, l)
  PROVE  proc' \in [Actors -> Process]
<1>1. proc[a] \in Process
  OBVIOUS
<1>2. [proc[a] EXCEPT !.pc = l] \in Process
  BY <1>1 DEF Process
<1>3. Continue(a, [proc[a] EXCEPT !.pc = l])
  BY DEF Goto
<1> QED
  BY <1>2, <1>3, ContinueType

\* Recording an outcome keeps the types of the rows.
LEMMA SetType ==
  ASSUME status \in [Runs -> Status], NEW j \in Runs, NEW s \in Status, Set(j, s)
  PROVE  status' \in [Runs -> Status]
BY DEF Set
-----------------------------------------------------------------------------
USE DEF schedule, sweeps, connection

\* Requests and runners keep the types, whatever they do.
LEMMA TypeRequest ==
  ASSUME TypeOK, NEW r \in Requests, RequestStep(r) \/ TimeOut(r) \/ \E o \in Ops \ {"timeout", "crash"} : Arrive(r, o)
  PROVE  TypeOK'
<1> USE DEF TypeOK
<1>0. r \in Actors /\ proc[r] \in Process
  BY DEF Actors
<1>1. CASE Look(r)
  <2>1. CASE Active = {} /\ Goto(r, "check")
    BY <1>0, <1>1, <2>1, GotoType DEF Look, Labels
  <2>2. CASE \E j \in Active : Continue(r, [proc[r] EXCEPT !.pc = "cancel", !.run = j])
    <3>1. PICK j \in Active : Continue(r, [proc[r] EXCEPT !.pc = "cancel", !.run = j])
      BY <2>2
    <3>2. [proc[r] EXCEPT !.pc = "cancel", !.run = j] \in Process
      BY <1>0 DEF Process, Labels, Active
    <3> QED
      BY <1>0, <1>1, <3>1, <3>2, ContinueType DEF Look
  <2> QED
    BY <1>1, <2>1, <2>2 DEF Look
<1>2. CASE Cancel(r)
  <2>1. proc' \in [Actors -> Process]
    BY <1>0, <1>2, GotoType DEF Cancel, Labels
  <2>2. status' \in [Runs -> Status]
    BY <1>2 DEF Cancel, Status
  <2> QED
    BY <1>2, <2>1, <2>2 DEF Cancel
<1>3. CASE Stamp(r)
  <2>1. proc' \in [Actors -> Process]
    <3>1. (IF exists THEN "check" ELSE "done") \in Labels
      BY DEF Labels
    <3> QED
      BY <1>0, <1>3, <3>1, GotoType DEF Stamp
  <2>2. gate' \in BOOLEAN
    BY <1>3 DEF Stamp
  <2> QED
    BY <1>3, <2>1, <2>2 DEF Stamp
<1>4. CASE Check(r)
  <2>1. (IF Active = {} THEN "insert" ELSE "done") \in Labels
    BY DEF Labels
  <2>2. proc' \in [Actors -> Process]
    BY <1>0, <1>4, <2>1, GotoType DEF Check
  <2> QED
    BY <1>4, <2>2 DEF Check
<1>5. CASE Insert(r)
  <2>1. CASE ~exists
    BY <1>0, <1>5, <2>1, GotoType DEF Insert, Labels
  <2>2. CASE exists
    <3>1. PICK j \in Runs :
            /\ status' = [status EXCEPT ![j] = "pending"]
            /\ Continue(r, [proc[r] EXCEPT !.pc = "kick", !.run = j])
            /\ kicks' = IF proc[r].op = "sweep" THEN kicks \cup {r} ELSE kicks
      BY <1>5, <2>2 DEF Insert
    <3>2. [proc[r] EXCEPT !.pc = "kick", !.run = j] \in Process
      BY <1>0 DEF Process, Labels
    <3>3. proc' \in [Actors -> Process]
      BY <1>0, <3>1, <3>2, ContinueType
    <3>4. status' \in [Runs -> Status]
      BY <3>1 DEF Status
    <3>5. kicks' \subseteq Requests
      BY <3>1
    <3> QED
      BY <1>5, <3>3, <3>4, <3>5 DEF Insert
  <2> QED
    BY <2>1, <2>2
<1>6. CASE Wait(r)
  BY <1>0, <1>6, GotoType DEF Wait, Labels
<1>7. CASE Drain(r)
  BY <1>0, <1>7, GotoType DEF Drain, Labels
<1>8. CASE Load(r)
  <2>1. [proc[r] EXCEPT !.pc = IF exists THEN "delete" ELSE "done", !.saw = catalog] \in Process
    BY <1>0 DEF Process, Labels
  <2>2. proc' \in [Actors -> Process]
    BY <1>0, <1>8, <2>1, ContinueType DEF Load
  <2> QED
    BY <1>8, <2>2 DEF Load
<1>9. CASE Retry(r)
  <2>1. [Resting("drain") EXCEPT !.op = "delete", !.again = TRUE] \in Process
    BY DEF Resting, Process, Labels, OpKinds
  <2>2. proc' \in [Actors -> Process]
    BY <1>0, <1>9, <2>1, ContinueType, GotoType DEF Retry, Labels
  <2> QED
    BY <1>9, <2>2 DEF Retry
<1>10. CASE Delete(r)
  <2>1. proc' \in [Actors -> Process]
    BY <1>0, <1>10, GotoType DEF Delete, Labels
  <2>2. status' \in [Runs -> Status]
    BY <1>10 DEF Delete, Status
  <2> QED
    BY <1>10, <2>1, <2>2 DEF Delete
<1>11. CASE TimeOut(r)
  <2>1. [proc[r] EXCEPT !.pc = IF @ = "wait" THEN "done" ELSE "load", !.late = TRUE] \in Process
    BY <1>0 DEF Process, Labels
  <2>2. proc' \in [Actors -> Process]
    BY <1>0, <1>11, <2>1, ContinueType DEF TimeOut
  <2> QED
    BY <1>11, <2>2 DEF TimeOut
<1>12. CASE \E o \in Ops \ {"timeout", "crash"} : Arrive(r, o)
  <2>1. PICK o \in Ops \ {"timeout", "crash"} : Arrive(r, o)
    BY <1>12
  <2>2. o \in {"start", "force", "sweep", "refresh", "delete"}
    BY <2>1, IndexingAssumption DEF OpKinds
  <2>3. FirstStep(o) \in Labels
    BY <2>2 DEF FirstStep, Labels
  <2>4. [Resting(FirstStep(o)) EXCEPT !.op = o, !.gated = gate] \in Process
    BY <2>2, <2>3 DEF Resting, Process, OpKinds
  <2>5. proc' \in [Actors -> Process]
    BY <1>0, <2>1, <2>4, ContinueType DEF Arrive
  <2> QED
    BY <2>1, <2>5 DEF Arrive
<1>13. CASE Kick(r)
  <2>1. Resting("done") \in Process /\ Resting("begin") \in Process
    BY RestingType DEF Labels
  <2>2. proc' \in [Actors -> Process]
    BY <1>13, <2>1 DEF Kick
  <2> QED
    BY <1>13, <2>2 DEF Kick
<1> QED
  BY <1>1, <1>2, <1>3, <1>4, <1>5, <1>6, <1>7, <1>8, <1>9, <1>10, <1>11, <1>12, <1>13 DEF RequestStep

LEMMA TypeRun ==
  ASSUME TypeOK, NEW j \in Runs, RunStep(j)
  PROVE  TypeOK'
<1> USE DEF TypeOK
<1>0. j \in Actors /\ proc[j] \in Process
  BY DEF Actors
<1>1. CASE Begin(j)
  <2>1. CASE status[j] = "absent"
    BY <1>0, <1>1, <2>1, GotoType DEF Begin, Labels
  <2>2. CASE status[j] # "absent"
    <3>1. [proc[j] EXCEPT !.pc = "fetch", !.gated = gate] \in Process
      BY <1>0 DEF Process, Labels
    <3>2. proc' \in [Actors -> Process]
      BY <1>0, <1>1, <2>2, <3>1, ContinueType DEF Begin
    <3>3. status' \in [Runs -> Status]
      BY <1>1, <2>2 DEF Begin, Status
    <3> QED
      BY <1>1, <3>2, <3>3 DEF Begin
  <2> QED
    BY <2>1, <2>2
<1>2. CASE Finish(j)
  <2>1. proc' \in [Actors -> Process]
    BY <1>0, <1>2, GotoType DEF Finish, Labels
  <2>2. status' \in [Runs -> Status]
    BY <1>2, SetType DEF Finish, Status
  <2> QED
    BY <1>2, <2>1, <2>2 DEF Finish
<1>3. CASE FailLate(j)
  <2>1. proc' \in [Actors -> Process]
    BY <1>0, <1>3, GotoType DEF FailLate, Labels
  <2>2. status' \in [Runs -> Status]
    BY <1>3, SetType DEF FailLate, Status
  <2> QED
    BY <1>3, <2>1, <2>2 DEF FailLate
<1> QED
  BY <1>1, <1>2, <1>3 DEF RunStep

LEMMA TypeRefresh ==
  ASSUME TypeOK, NEW a \in Actors, RefreshStep(a) \/ Crash(a)
  PROVE  TypeOK'
<1> USE DEF TypeOK
<1>0. proc[a] \in Process /\ AfterRefresh(a) \in Labels
  BY DEF AfterRefresh, Labels
<1>1. CASE Fetch(a)
  <2>1. [proc[a] EXCEPT !.pc = IF upstream = {} THEN AfterRefresh(a) ELSE "read",
                       !.fetched = upstream] \in Process
    BY <1>0 DEF Process, Labels
  <2>2. proc' \in [Actors -> Process]
    BY <1>1, <2>1, ContinueType DEF Fetch
  <2> QED
    BY <1>1, <2>2 DEF Fetch
<1>2. CASE Read(a)
  <2>1. PICK s \in SUBSET catalog : Continue(a, [proc[a] EXCEPT !.pc = "write", !.saw = s])
    BY <1>2 DEF Read
  <2>2. [proc[a] EXCEPT !.pc = "write", !.saw = s] \in Process
    BY <1>0, <2>1 DEF Process, Labels
  <2>3. proc' \in [Actors -> Process]
    BY <2>1, <2>2, ContinueType
  <2> QED
    BY <1>2, <2>3 DEF Read
<1>3. CASE Write(a)
  <2>1. Inserted(a) \subseteq Row
    BY <1>0 DEF Inserted, Row, Process
  <2>2. catalog' \subseteq Row
    BY <1>3, <2>1 DEF Write
  <2>3. stale' \in BOOLEAN /\ gate' \in BOOLEAN
    BY <1>3 DEF Write
  <2>4. proc' \in [Actors -> Process]
    BY <1>0, <1>3, GotoType DEF Write
  <2> QED
    BY <1>3, <2>2, <2>3, <2>4 DEF Write
<1>4. CASE Fail(a)
  <2>1. proc' \in [Actors -> Process]
    BY <1>4, GotoType DEF Fail, Labels
  <2>2. status' \in [Runs -> Status]
    BY <1>4, SetType DEF Fail, Status
  <2> QED
    BY <1>4, <2>1, <2>2 DEF Fail
<1>5. CASE Crash(a)
  <2>1. proc' \in [Actors -> Process]
    BY <1>5, GotoType DEF Crash, Labels
  <2> QED
    BY <1>5, <2>1 DEF Crash, Dead
<1> QED
  BY <1>1, <1>2, <1>3, <1>4, <1>5 DEF RefreshStep

LEMMA TypeStep ==
  ASSUME TypeOK, [Next]_vars
  PROVE  TypeOK'
<1>1. CASE ChangeUpstream
  BY <1>1 DEF ChangeUpstream, TypeOK
<1>2. CASE IntervalElapses
  BY <1>2 DEF IntervalElapses, TypeOK
<1>3. CASE \E r \in Requests : RequestStep(r) \/ TimeOut(r) \/ \E o \in Ops \ {"timeout", "crash"} : Arrive(r, o)
  BY <1>3, TypeRequest
<1>4. CASE \E j \in Runs : RunStep(j)
  BY <1>4, TypeRun
<1>5. CASE \E a \in Actors : RefreshStep(a) \/ Crash(a)
  BY <1>5, TypeRefresh
<1>6. CASE UNCHANGED vars
  BY <1>6 DEF vars, TypeOK
<1> QED
  BY <1>1, <1>2, <1>3, <1>4, <1>5, <1>6 DEF Next

LEMMA TypeInit == Init => TypeOK
<1> SUFFICES ASSUME Init PROVE TypeOK
  OBVIOUS
<1>1. Resting("idle") \in Process
  BY RestingType DEF Labels
<1>2. [j \in Runs |-> "absent"] \in [Runs -> Status]
  BY DEF Status
<1> QED
  BY <1>1, <1>2 DEF Init, TypeOK

\* The rows, the catalog and what every request and runner remembers keep
\* their types.
THEOREM TypeCorrect == Spec => []TypeOK
<1> QED
  BY TypeInit, TypeStep, PTL DEF Spec
-----------------------------------------------------------------------------
\* Nothing is left of a deleted connection's tables.
NothingLeft == ~exists => catalog = {}

OrphanInv == TypeOK /\ NothingLeft

\* Only Write adds rows and it needs the connection (the foreign key); only
\* Delete removes the connection, and it takes every row along.
LEMMA OrphanStep ==
  ASSUME OrphanInv, [Next]_vars
  PROVE  OrphanInv'
<1>1. TypeOK'
  BY TypeStep DEF OrphanInv
<1>2. CASE exists' = exists /\ catalog' = catalog
  BY <1>1, <1>2 DEF OrphanInv, NothingLeft
<1>3. CASE \E r \in Requests : Delete(r)
  BY <1>1, <1>3 DEF Delete, OrphanInv, NothingLeft
<1>4. CASE \E a \in Actors : Write(a)
  BY <1>1, <1>4 DEF Write, OrphanInv, NothingLeft
<1>5. ASSUME NEW r \in Requests, RequestStep(r) \/ TimeOut(r) \/ \E o \in Ops \ {"timeout", "crash"} : Arrive(r, o)
      PROVE  Delete(r) \/ (exists' = exists /\ catalog' = catalog)
  BY <1>5 DEF RequestStep, Look, Cancel, Stamp, Check, Insert, Kick, Wait, Drain, Load, Retry, TimeOut, Arrive
<1>6. ASSUME NEW j \in Runs, RunStep(j) PROVE exists' = exists /\ catalog' = catalog
  BY <1>6 DEF RunStep, Begin, Finish, FailLate
<1>7. ASSUME NEW a \in Actors, RefreshStep(a) \/ Crash(a)
      PROVE  Write(a) \/ (exists' = exists /\ catalog' = catalog)
  BY <1>7 DEF RefreshStep, Fetch, Read, Fail, Crash
<1>8. ASSUME ChangeUpstream \/ IntervalElapses \/ UNCHANGED vars PROVE exists' = exists /\ catalog' = catalog
  BY <1>8 DEF ChangeUpstream, IntervalElapses, vars
<1> QED
  BY <1>2, <1>3, <1>4, <1>5, <1>6, <1>7, <1>8 DEF Next
-----------------------------------------------------------------------------
\* The label a process goes on with; the others stay where they are.
LEMMA GotoLabel ==
  ASSUME proc \in [Actors -> Process], NEW a \in Actors, NEW l \in Labels, Goto(a, l)
  PROVE  /\ proc'[a].pc = IF l = "idle" THEN "done" ELSE l
         /\ \A b \in Actors \ {a} : proc'[b] = proc[b]
<1>1. proc[a] \in Process
  OBVIOUS
<1>2. [proc[a] EXCEPT !.pc = l].pc = l
  BY <1>1 DEF Process
<1> QED
  BY <1>2 DEF Goto, Continue, Resting

LEMMA ContinueLabel ==
  ASSUME proc \in [Actors -> Process], NEW a \in Actors, NEW p \in Process, Continue(a, p)
  PROVE  /\ proc'[a].pc = IF p.pc = "idle" THEN "done" ELSE p.pc
         /\ \A b \in Actors \ {a} : proc'[b] = proc[b]
BY DEF Continue, Resting

\* A terminal outcome activates nothing.
LEMMA SetActive ==
  ASSUME status \in [Runs -> Status], NEW j \in Runs, NEW s \in Terminal, Set(j, s)
  PROVE  /\ Active' \subseteq Active
         /\ j \notin Active'
         /\ \A k \in Runs \ {j} : status'[k] = status[k]
         /\ \A k \in Runs : status[k] # "absent" => status'[k] # "absent"
BY DEF Set, Active, Terminal
-----------------------------------------------------------------------------
\* Every row is begun by its own runner, and every runner by one request: a row
\* that is about to be handed over has no runner yet, nobody else hands it over,
\* and while the connection exists it has been committed.
RunnerLabels == {"idle", "begin", "fetch", "read", "write", "finish", "done"}

RunnersRun == \A j \in Runs : proc[j].pc \in RunnerLabels

KicksUnbegun ==
  \A r \in Requests : At(r, "kick") =>
    /\ proc[r].run \in Runs
    /\ At(proc[r].run, "idle")
    /\ exists => status[proc[r].run] # "absent"

KicksApart ==
  \A q, r \in Requests : At(q, "kick") /\ At(r, "kick") /\ proc[q].run = proc[r].run => q = r

RunnerInv == TypeOK /\ RunnersRun /\ KicksUnbegun /\ KicksApart /\ ActiveHasRunner

\* A step of one request or runner that begins no hand-over and leaves no active
\* row behind keeps the invariant.
LEMMA RunnerKept ==
  ASSUME RunnerInv, TypeOK', exists' => exists, crashed \subseteq crashed',
         NEW a \in Actors, \A b \in Actors \ {a} : proc'[b] = proc[b],
         proc'[a].pc # "kick", proc[a].pc # "idle" \/ a \in Requests,
         a \in Runs => proc'[a].pc \in RunnerLabels,
         Active' \subseteq Active \cup {a},
         exists' => \A j \in Runs : status[j] # "absent" => status'[j] # "absent",
         a \in Runs /\ a \in Active' => proc'[a].pc \notin {"idle", "done"} \/ a \in crashed',
         At(a, "kick") => proc[a].run \in crashed' \/ proc[a].run \notin Active'
  PROVE  RunnerInv'
<1>0. Runs \subseteq Actors /\ Requests \subseteq Actors /\ Requests \cap Runs = {}
  BY IndexingAssumption DEF Actors
<1>1. RunnersRun'
  BY <1>0 DEF RunnerInv, RunnersRun
<1>2. ASSUME NEW r \in Requests, At(r, "kick")' PROVE r # a /\ proc'[r] = proc[r] /\ At(r, "kick")
  BY <1>0, <1>2 DEF At
<1>3. KicksUnbegun'
  <2> SUFFICES ASSUME NEW r \in Requests, At(r, "kick")'
               PROVE  /\ proc'[r].run \in Runs
                      /\ proc'[proc'[r].run].pc = "idle"
                      /\ exists' => status'[proc'[r].run] # "absent"
    BY DEF KicksUnbegun, At
  <2>1. r # a /\ proc'[r] = proc[r] /\ At(r, "kick")
    BY <1>2
  <2>2. /\ proc[r].run \in Runs /\ proc[proc[r].run].pc = "idle"
        /\ exists => status[proc[r].run] # "absent"
    BY <2>1 DEF RunnerInv, KicksUnbegun, At
  <2>3. proc[r].run # a
    BY <1>0, <2>2
  <2> QED BY <1>0, <2>1, <2>2, <2>3
<1>4. KicksApart'
  BY <1>2 DEF RunnerInv, KicksApart
<1>5. ActiveHasRunner'
  <2> SUFFICES ASSUME NEW j \in Active'
               PROVE  \/ proc'[j].pc \notin {"idle", "done"}
                      \/ \E r \in Requests : At(r, "kick")' /\ proc'[r].run = j
                      \/ j \in crashed'
    BY DEF ActiveHasRunner, InFlight
  <2>0. (j = a \/ j \in Active) /\ j \in Runs
    BY DEF Active
  <2>1. CASE j = a
    BY <2>0, <2>1
  <2>2. CASE j # a /\ InFlight(j)
    BY <1>0, <2>0, <2>2 DEF InFlight
  <2>3. CASE \E r \in Requests : At(r, "kick") /\ proc[r].run = j
    <3>1. PICK r \in Requests : At(r, "kick") /\ proc[r].run = j
      BY <2>3
    <3>2. CASE r = a
      BY <3>1, <3>2
    <3>3. CASE r # a
      BY <1>0, <3>1, <3>3 DEF At
    <3> QED BY <3>2, <3>3
  <2>4. CASE j \in crashed
    BY <2>4
  <2> QED BY <2>0, <2>1, <2>2, <2>3, <2>4 DEF RunnerInv, ActiveHasRunner
<1> QED BY <1>1, <1>3, <1>4, <1>5 DEF RunnerInv

\* A committed row is handed over by whoever committed it.
LEMMA RunnerInsert ==
  ASSUME RunnerInv, TypeOK', NEW r \in Requests, Insert(r), exists
  PROVE  RunnerInv'
<1>0. /\ Runs \subseteq Actors /\ Requests \subseteq Actors /\ Requests \cap Runs = {}
      /\ proc \in [Actors -> Process] /\ status \in [Runs -> Status] /\ proc[r] \in Process
  BY IndexingAssumption DEF Actors, RunnerInv, TypeOK
<1>1. PICK j \in Runs :
        /\ Unused(j) /\ status' = [status EXCEPT ![j] = "pending"]
        /\ Continue(r, [proc[r] EXCEPT !.pc = "kick", !.run = j])
  BY DEF Insert
<1>2. /\ [proc[r] EXCEPT !.pc = "kick", !.run = j] \in Process
      /\ [proc[r] EXCEPT !.pc = "kick", !.run = j].pc = "kick"
      /\ [proc[r] EXCEPT !.pc = "kick", !.run = j].run = j
  BY <1>0 DEF Process, Labels
<1>3. /\ proc'[r].pc = "kick" /\ proc'[r].run = j
      /\ \A b \in Actors \ {r} : proc'[b] = proc[b]
  BY <1>0, <1>1, <1>2 DEF Continue
<1>4. /\ status'[j] = "pending" /\ \A k \in Runs \ {j} : status'[k] = status[k]
      /\ status[j] = "absent" /\ proc[j].pc = "idle" /\ UNCHANGED <<exists, crashed>> /\ At(r, "insert")
  BY <1>0, <1>1 DEF Unused, At, Insert
<1>5. \A q \in Requests \ {r} : At(q, "kick")' => /\ At(q, "kick") /\ proc'[q] = proc[q]
                                                  /\ proc[q].run \in Runs \ {j}
  BY <1>0, <1>3, <1>4 DEF At, RunnerInv, KicksUnbegun
<1>6. \A k \in Runs : proc'[k] = proc[k]
  BY <1>0, <1>3
<1>7. RunnersRun'
  BY <1>6 DEF RunnerInv, RunnersRun
<1>8. KicksUnbegun'
  BY <1>0, <1>3, <1>4, <1>5, <1>6 DEF At, RunnerInv, KicksUnbegun
<1>9. KicksApart'
  BY <1>3, <1>5 DEF RunnerInv, KicksApart
<1>10. ActiveHasRunner'
  <2> SUFFICES ASSUME NEW k \in Active', k # j, ~InFlight(k)', k \notin crashed'
               PROVE  \E q \in Requests : At(q, "kick")' /\ proc'[q].run = k
    BY <1>3 DEF ActiveHasRunner, At
  <2>1. k \in Active /\ ~InFlight(k) /\ k \notin crashed
    BY <1>4, <1>6 DEF Active, InFlight
  <2>2. PICK q \in Requests : At(q, "kick") /\ proc[q].run = k
    BY <2>1 DEF RunnerInv, ActiveHasRunner
  <2> QED BY <1>0, <1>3, <1>4, <2>2 DEF At
<1> QED BY <1>7, <1>8, <1>9, <1>10 DEF RunnerInv

\* A hand-over begins the runner of that row and of no other.
LEMMA RunnerKick ==
  ASSUME RunnerInv, TypeOK', NEW r \in Requests, Kick(r)
  PROVE  RunnerInv'
<1>0. /\ Runs \subseteq Actors /\ Requests \subseteq Actors /\ Requests \cap Runs = {}
      /\ proc \in [Actors -> Process] /\ proc[r].run \in Runs /\ At(r, "kick")
  BY IndexingAssumption DEF Actors, RunnerInv, TypeOK, Kick, KicksUnbegun
<1>1. /\ proc'[r].pc = "done" /\ proc'[proc[r].run].pc = "begin"
      /\ \A b \in Actors \ {r, proc[r].run} : proc'[b] = proc[b]
      /\ UNCHANGED <<exists, status, crashed>>
  BY <1>0 DEF Kick, Resting
<1>2. \A q \in Requests : At(q, "kick")' => /\ q # r /\ At(q, "kick") /\ proc'[q] = proc[q]
                                            /\ proc[q].run \in Runs \ {proc[r].run}
  BY <1>0, <1>1 DEF At, RunnerInv, KicksUnbegun, KicksApart
<1>3. RunnersRun'
  BY <1>0, <1>1 DEF RunnerInv, RunnersRun, RunnerLabels
<1>4. KicksUnbegun'
  BY <1>0, <1>1, <1>2 DEF At, RunnerInv, KicksUnbegun
<1>5. KicksApart'
  BY <1>2 DEF RunnerInv, KicksApart
<1>6. ActiveHasRunner'
  <2> SUFFICES ASSUME NEW k \in Active', ~InFlight(k)', k \notin crashed'
               PROVE  \E q \in Requests : At(q, "kick")' /\ proc'[q].run = k
    BY DEF ActiveHasRunner
  <2>1. k \in Active /\ k \in Runs /\ k # proc[r].run /\ k \notin crashed
    BY <1>1 DEF Active, InFlight
  <2>2. ~InFlight(k)
    BY <1>0, <1>1, <2>1 DEF InFlight
  <2>3. PICK q \in Requests : At(q, "kick") /\ proc[q].run = k
    BY <2>1, <2>2 DEF RunnerInv, ActiveHasRunner
  <2> QED BY <1>0, <1>1, <2>1, <2>3 DEF At
<1> QED BY <1>3, <1>4, <1>5, <1>6 DEF RunnerInv

\* The other steps of a request hand nothing over; only Delete and Cancel change
\* rows, and they end them.
LEMMA RunnerRequest ==
  ASSUME RunnerInv, TypeOK', NEW r \in Requests,
         RequestStep(r) \/ TimeOut(r) \/ \E o \in Ops \ {"timeout", "crash"} : Arrive(r, o),
         ~Kick(r), ~(Insert(r) /\ exists)
  PROVE  RunnerInv'
<1>0. /\ r \in Actors /\ r \notin Runs /\ proc \in [Actors -> Process] /\ proc[r] \in Process
      /\ status \in [Runs -> Status]
  BY IndexingAssumption DEF Actors, RunnerInv, TypeOK
<1>1. ~At(r, "kick") /\ (exists' => exists) /\ crashed' = crashed
  <2>1. CASE RequestStep(r)
    <3>1. CASE Check(r) \/ Wait(r)
      BY <3>1 DEF Check, Wait, At
    <3>6. CASE Look(r)
      BY <3>6 DEF Look, At
    <3>7. CASE Cancel(r)
      BY <3>7 DEF Cancel, At
    <3>4. CASE Stamp(r)
      BY <3>4 DEF Stamp, At
    <3>5. CASE Insert(r)
      BY <3>5 DEF Insert, At
    <3>2. CASE Drain(r) \/ Load(r) \/ Retry(r)
      BY <3>2 DEF Drain, Load, Retry, At
    <3>3. CASE Delete(r)
      BY <3>3 DEF Delete, At
    <3> QED BY <2>1, <3>1, <3>2, <3>3, <3>4, <3>5, <3>6, <3>7 DEF RequestStep
  <2>2. CASE TimeOut(r)
    BY <2>2 DEF TimeOut, At
  <2>3. CASE \E o \in Ops \ {"timeout", "crash"} : Arrive(r, o)
    BY <2>3 DEF Arrive, At
  <2> QED BY <2>1, <2>2, <2>3
<1>2. Active' \subseteq Active /\ (exists' => \A j \in Runs : status[j] # "absent" => status'[j] # "absent")
  <2>1. CASE Cancel(r)
    BY <1>0, <2>1 DEF Cancel, Active
  <2>2. CASE Delete(r)
    BY <2>2 DEF Delete, Active
  <2>3. CASE ~Cancel(r) /\ ~Delete(r)
    <3>1. UNCHANGED status
      BY <2>3 DEF RequestStep, Look, Stamp, Check, Insert, Wait, Drain, Load, Retry, TimeOut, Arrive
    <3> QED BY <3>1 DEF Active
  <2> QED BY <2>1, <2>2, <2>3
<1>3. \E p \in Process : Continue(r, p) /\ p.pc # "kick"
  <2>1. ASSUME NEW l \in Labels \ {"kick"}, Goto(r, l) PROVE \E p \in Process : Continue(r, p) /\ p.pc # "kick"
    <3>1. [proc[r] EXCEPT !.pc = l] \in Process /\ [proc[r] EXCEPT !.pc = l].pc = l
      BY <1>0 DEF Process
    <3> QED BY <2>1, <3>1 DEF Goto
  <2>2. CASE Look(r)
    <3>1. CASE \E j \in Active : Continue(r, [proc[r] EXCEPT !.pc = "cancel", !.run = j])
      <4>1. PICK j \in Active : Continue(r, [proc[r] EXCEPT !.pc = "cancel", !.run = j])
        BY <3>1
      <4>2. /\ [proc[r] EXCEPT !.pc = "cancel", !.run = j] \in Process
            /\ [proc[r] EXCEPT !.pc = "cancel", !.run = j].pc = "cancel"
        BY <1>0 DEF Process, Labels, Active
      <4> QED BY <4>1, <4>2
    <3> QED BY <2>1, <2>2, <3>1 DEF Look, Labels
  <2>3. CASE Load(r)
    <3>1. /\ [proc[r] EXCEPT !.pc = IF exists THEN "delete" ELSE "done", !.saw = catalog] \in Process
          /\ [proc[r] EXCEPT !.pc = IF exists THEN "delete" ELSE "done", !.saw = catalog].pc # "kick"
      BY <1>0 DEF Process, Labels, RunnerInv, TypeOK
    <3> QED BY <2>3, <3>1 DEF Load
  <2>4. CASE Retry(r)
    <3>1. /\ [Resting("drain") EXCEPT !.op = "delete", !.again = TRUE] \in Process
          /\ [Resting("drain") EXCEPT !.op = "delete", !.again = TRUE].pc # "kick"
      BY DEF Resting, Process, OpKinds, Labels
    <3> QED BY <2>1, <2>4, <3>1 DEF Retry, Labels
  <2>5. CASE TimeOut(r)
    <3>1. /\ [proc[r] EXCEPT !.pc = IF @ = "wait" THEN "done" ELSE "load", !.late = TRUE] \in Process
          /\ [proc[r] EXCEPT !.pc = IF @ = "wait" THEN "done" ELSE "load", !.late = TRUE].pc # "kick"
      BY <1>0 DEF Process, Labels
    <3> QED BY <2>5, <3>1 DEF TimeOut
  <2>6. ASSUME NEW o \in Ops \ {"timeout", "crash"}, Arrive(r, o)
        PROVE  \E p \in Process : Continue(r, p) /\ p.pc # "kick"
    <3>1. o \in {"start", "force", "sweep", "refresh", "delete"}
      BY IndexingAssumption DEF OpKinds
    <3>2. FirstStep(o) \in Labels \ {"kick"}
      BY <3>1 DEF FirstStep, Labels
    <3>3. /\ [Resting(FirstStep(o)) EXCEPT !.op = o, !.gated = gate] \in Process
          /\ [Resting(FirstStep(o)) EXCEPT !.op = o, !.gated = gate].pc = FirstStep(o)
      BY <3>1, <3>2 DEF Resting, Process, OpKinds, RunnerInv, TypeOK
    <3> QED BY <2>6, <3>2, <3>3 DEF Arrive
  <2>7. CASE Cancel(r) \/ Stamp(r) \/ Check(r) \/ Insert(r) \/ Wait(r) \/ Drain(r) \/ Delete(r)
    <3>1. \/ Goto(r, "check") \/ Goto(r, "done") \/ Goto(r, "insert") \/ Goto(r, "fetch") \/ Goto(r, "load")
      BY <2>7 DEF Cancel, Stamp, Check, Insert, Wait, Drain, Delete
    <3> QED BY <2>1, <3>1 DEF Labels
  <2> QED BY <2>2, <2>3, <2>4, <2>5, <2>6, <2>7 DEF RequestStep
<1>4. proc'[r].pc # "kick" /\ \A b \in Actors \ {r} : proc'[b] = proc[b]
  BY <1>0, <1>3, ContinueLabel
<1> QED BY <1>0, <1>1, <1>2, <1>4, RunnerKept

\* A runner leaves its row for good only when the row has ended, is gone, or the
\* runner has died.
LEMMA RunnerRun ==
  ASSUME RunnerInv, TypeOK', NEW a \in Actors,
         RefreshStep(a) \/ Crash(a) \/ (a \in Runs /\ RunStep(a))
  PROVE  RunnerInv'
<1>0. /\ proc \in [Actors -> Process] /\ proc[a] \in Process /\ status \in [Runs -> Status]
      /\ AfterRefresh(a) \in {"finish", "done"} /\ AfterRefresh(a) \in Labels
      /\ a \in Runs => AfterRefresh(a) = "finish"
  BY DEF RunnerInv, TypeOK, AfterRefresh, Labels
<1>1. proc[a].pc # "idle" /\ exists' = exists /\ crashed \subseteq crashed'
  BY DEF RefreshStep, Fetch, Read, Write, Fail, Crash, RunStep, Begin, Finish, FailLate, InFlight, At
<1>2. ASSUME NEW l \in Labels, Goto(a, l)
      PROVE  /\ proc'[a].pc = IF l = "idle" THEN "done" ELSE l
             /\ \A b \in Actors \ {a} : proc'[b] = proc[b]
  BY <1>0, <1>2, GotoLabel
<1>3. CASE Fetch(a)
  <2> DEFINE p == [proc[a] EXCEPT !.pc = IF upstream = {} THEN AfterRefresh(a) ELSE "read",
                                  !.fetched = upstream]
  <2>1. p \in Process /\ p.pc \in {"read", AfterRefresh(a)}
    BY <1>0 DEF Process, Labels, RunnerInv, TypeOK
  <2>2. Continue(a, p) /\ UNCHANGED status /\ ~At(a, "kick")
    BY <1>3 DEF Fetch, At
  <2> HIDE DEF p
  <2>3. proc'[a].pc \in {"read", AfterRefresh(a)} /\ \A b \in Actors \ {a} : proc'[b] = proc[b]
    BY <1>0, <2>1, <2>2, ContinueLabel
  <2> QED BY <1>0, <1>1, <2>2, <2>3, RunnerKept DEF RunnerLabels, Active
<1>4. CASE Read(a)
  <2>1. PICK s \in SUBSET catalog : Continue(a, [proc[a] EXCEPT !.pc = "write", !.saw = s])
    BY <1>4 DEF Read
  <2>2. /\ [proc[a] EXCEPT !.pc = "write", !.saw = s] \in Process
        /\ [proc[a] EXCEPT !.pc = "write", !.saw = s].pc = "write"
    BY <1>0, <2>1 DEF Process, Labels, RunnerInv, TypeOK
  <2>3. proc'[a].pc = "write" /\ \A b \in Actors \ {a} : proc'[b] = proc[b]
    BY <1>0, <2>1, <2>2, ContinueLabel
  <2> QED BY <1>0, <1>1, <1>4, <2>3, RunnerKept DEF Read, At, RunnerLabels, Active
<1>5. CASE Write(a)
  <2>1. proc'[a].pc = AfterRefresh(a) /\ \A b \in Actors \ {a} : proc'[b] = proc[b]
    BY <1>0, <1>2, <1>5 DEF Write
  <2> QED BY <1>0, <1>1, <1>5, <2>1, RunnerKept DEF Write, At, RunnerLabels, Active
<1>6. CASE Fail(a)
  <2>1. proc'[a].pc = "done" /\ \A b \in Actors \ {a} : proc'[b] = proc[b]
    BY <1>2, <1>6 DEF Fail, Labels
  <2>2. /\ Active' \subseteq Active /\ (a \in Runs => a \notin Active')
        /\ \A k \in Runs : status[k] # "absent" => status'[k] # "absent"
    <3>1. CASE a \in Runs
      BY <1>0, <1>6, <3>1, SetActive DEF Fail, Terminal
    <3>2. CASE a \notin Runs
      BY <1>6, <3>2 DEF Fail, Active
    <3> QED BY <3>1, <3>2
  <2> QED BY <1>1, <1>6, <2>1, <2>2, RunnerKept DEF Fail, At, RunnerLabels
<1>7. CASE Crash(a)
  <2>1. proc'[a].pc = "done" /\ \A b \in Actors \ {a} : proc'[b] = proc[b]
    BY <1>2, <1>7 DEF Crash, Labels
  <2>2. a \in Runs => a \in crashed'
    BY <1>7 DEF Crash, Dead, At, RunnerInv, RunnersRun, RunnerLabels
  <2>3. At(a, "kick") => proc[a].run \in crashed' \/ proc[a].run \notin Active
    BY <1>7 DEF Crash, Dead, Active
  <2>4. UNCHANGED status /\ Active' = Active
    BY <1>7 DEF Crash, Active
  <2> QED BY <1>1, <2>1, <2>2, <2>3, <2>4, RunnerKept DEF RunnerLabels
<1>8. CASE Begin(a) /\ a \in Runs
  <2>1. CASE status[a] = "absent"
    <3>1. Goto(a, "idle") /\ UNCHANGED status /\ ~At(a, "kick")
      BY <1>8, <2>1 DEF Begin, At
    <3>2. proc'[a].pc = "done" /\ \A b \in Actors \ {a} : proc'[b] = proc[b]
      BY <1>2, <3>1 DEF Labels
    <3> QED BY <1>1, <2>1, <3>1, <3>2, RunnerKept DEF RunnerLabels, Active
  <2>2. CASE status[a] # "absent"
    <3>1. /\ [proc[a] EXCEPT !.pc = "fetch", !.gated = gate] \in Process
          /\ [proc[a] EXCEPT !.pc = "fetch", !.gated = gate].pc = "fetch"
      BY <1>0, ZenonT(60) DEF Process, Labels, RunnerInv, TypeOK
    <3>2. /\ Continue(a, [proc[a] EXCEPT !.pc = "fetch", !.gated = gate]) /\ ~At(a, "kick")
          /\ status' = [status EXCEPT ![a] = "running"]
      BY <1>8, <2>2 DEF Begin, At
    <3>3. proc'[a].pc = "fetch" /\ \A b \in Actors \ {a} : proc'[b] = proc[b]
      BY <1>0, <3>1, <3>2, ContinueLabel
    <3>4. Active' \subseteq Active \cup {a} /\ \A k \in Runs : status[k] # "absent" => status'[k] # "absent"
      BY <1>0, <1>8, <3>2 DEF Active
    <3> QED BY <1>1, <3>2, <3>3, <3>4, RunnerKept DEF RunnerLabels
  <2> QED BY <2>1, <2>2
<1>9. CASE (Finish(a) \/ FailLate(a)) /\ a \in Runs
  <2>1. Goto(a, "idle") /\ ~At(a, "kick")
    BY <1>9 DEF Finish, FailLate, At
  <2>2. proc'[a].pc = "done" /\ \A b \in Actors \ {a} : proc'[b] = proc[b]
    BY <1>2, <2>1 DEF Labels
  <2>3. /\ Active' \subseteq Active /\ a \notin Active'
        /\ \A k \in Runs : status[k] # "absent" => status'[k] # "absent"
    <3>1. CASE UNCHANGED status /\ status[a] \in Terminal
      BY <3>1 DEF Active, Terminal
    <3>2. CASE Set(a, "completed") \/ Set(a, "failed")
      BY <1>0, <1>9, <3>2, SetActive DEF Terminal
    <3> QED BY <1>9, <3>1, <3>2 DEF Finish, FailLate
  <2> QED BY <1>1, <2>1, <2>2, <2>3, RunnerKept DEF RunnerLabels
<1> QED BY <1>3, <1>4, <1>5, <1>6, <1>7, <1>8, <1>9 DEF RefreshStep, RunStep

LEMMA RunnerStep ==
  ASSUME RunnerInv, [Next]_vars
  PROVE  RunnerInv'
<1>0. TypeOK'
  BY TypeStep DEF RunnerInv
<1>1. CASE UNCHANGED <<exists, status, crashed, proc>>
  BY <1>0, <1>1 DEF RunnerInv, RunnersRun, KicksUnbegun, KicksApart, ActiveHasRunner, Active, InFlight, At
<1>2. CASE ChangeUpstream \/ IntervalElapses \/ UNCHANGED vars
  BY <1>1, <1>2 DEF ChangeUpstream, IntervalElapses, vars
<1>3. ASSUME NEW r \in Requests, RequestStep(r) \/ TimeOut(r) \/ \E o \in Ops \ {"timeout", "crash"} : Arrive(r, o)
      PROVE  RunnerInv'
  BY <1>0, <1>3, RunnerInsert, RunnerKick, RunnerRequest
<1>4. ASSUME NEW j \in Runs, RunStep(j) PROVE RunnerInv'
  BY <1>0, <1>4, RunnerRun DEF Actors
<1> QED BY <1>0, <1>2, <1>3, <1>4, RunnerRun DEF Next

LEMMA RunnerInit == Init => RunnerInv
<1> SUFFICES ASSUME Init PROVE RunnerInv
  OBVIOUS
<1>1. \A a \in Actors : proc[a].pc = "idle"
  BY DEF Init, Resting
<1>2. Active = {}
  BY DEF Init, Active
<1> QED
  BY <1>1, <1>2, TypeInit DEF RunnerInv, RunnersRun, RunnerLabels, KicksUnbegun, KicksApart,
                             ActiveHasRunner, At, Actors

\* No pending or running row is abandoned, whoever overlaps, forces, deletes or
\* fails: only a death leaves one behind.
THEOREM RowsHaveRunners == Spec => []ActiveHasRunner
<1>1. RunnerInv /\ [Next]_vars => RunnerInv'
  BY RunnerStep
<1>2. RunnerInv => ActiveHasRunner
  BY DEF RunnerInv
<1> QED BY <1>1, <1>2, RunnerInit, PTL DEF Spec
-----------------------------------------------------------------------------
\* Requests that do not overlap and never force: one is in flight, no row is
\* active while it is about to insert one, and the row of a runner that has not
\* begun, or has not even been started, is still pending (or gone), so that Begin
\* activates nothing.
OneInFlight == \A q, r \in Requests : InFlight(q) /\ InFlight(r) => q = r

NobodyForces == \A r \in Requests : proc[r].pc \notin {"look", "cancel"}

InsertsAlone == \A r \in Requests : At(r, "insert") => Active = {}

BeginsPending == \A j \in Runs : At(j, "begin") => status[j] \in {"pending", "absent"}

KicksPending == \A r \in Requests : At(r, "kick") => status[proc[r].run] \in {"pending", "absent"}

ActiveInv ==
  /\ RunnerInv
  /\ OneInFlight /\ NobodyForces /\ InsertsAlone /\ BeginsPending /\ KicksPending /\ OneActive

\* A step that starts nobody, activates no row and changes no row of a runner
\* yet to begin keeps the invariant.
LEMMA ActiveKept ==
  ASSUME ActiveInv, RunnerInv', Active' \subseteq Active,
         \A r \in Requests : /\ proc[r].pc \in {"idle", "done"} => proc'[r].pc \in {"idle", "done"}
                             /\ proc'[r].pc \notin {"look", "cancel"}
                             /\ proc'[r].pc = "insert" => proc[r].pc = "insert"
                             /\ proc'[r].pc = "kick" =>
                                  /\ proc'[r] = proc[r]
                                  /\ status'[proc[r].run] \in {status[proc[r].run], "absent"},
         \A j \in Runs : proc'[j].pc = "begin" =>
                           proc[j].pc = "begin" /\ status'[j] \in {status[j], "absent"}
  PROVE  ActiveInv'
<1>1. OneInFlight'
  BY DEF ActiveInv, OneInFlight, InFlight
<1>2. NobodyForces' /\ InsertsAlone' /\ OneActive'
  BY DEF ActiveInv, NobodyForces, InsertsAlone, At, OneActive
<1>3. BeginsPending' /\ KicksPending'
  BY DEF ActiveInv, BeginsPending, KicksPending, At
<1> QED
  BY <1>1, <1>2, <1>3 DEF ActiveInv

\* What a request that goes to another label must not do to keep the invariant.
LEMMA ActiveGoto ==
  ASSUME ActiveInv, RunnerInv', Active' \subseteq Active,
         \A j \in Runs : status'[j] \in {status[j], "absent"},
         NEW a \in Actors, InFlight(a), proc'[a].pc \notin {"look", "cancel", "insert", "kick", "begin"},
         \A b \in Actors \ {a} : proc'[b] = proc[b]
  PROVE  ActiveInv'
<1>1. ASSUME NEW r \in Requests
      PROVE  /\ proc[r].pc \in {"idle", "done"} => proc'[r].pc \in {"idle", "done"}
             /\ proc'[r].pc \notin {"look", "cancel"}
             /\ proc'[r].pc = "insert" => proc[r].pc = "insert"
             /\ proc'[r].pc = "kick" =>
                  /\ proc'[r] = proc[r]
                  /\ status'[proc[r].run] \in {status[proc[r].run], "absent"}
  BY DEF Actors, InFlight, ActiveInv, NobodyForces, RunnerInv, KicksUnbegun, At
<1>2. ASSUME NEW j \in Runs, proc'[j].pc = "begin"
      PROVE  proc[j].pc = "begin" /\ status'[j] \in {status[j], "absent"}
  BY <1>2 DEF Actors
<1> QED
  BY <1>1, <1>2, ActiveKept

\* The runner of j ends, fails or goes on without touching any other row.
LEMMA ActiveRun ==
  ASSUME ActiveInv, RunnerInv', Active' \subseteq Active, NEW j \in Runs, InFlight(j),
         \A k \in Runs \ {j} : status'[k] = status[k],
         proc'[j].pc # "begin",
         \A b \in Actors \ {j} : proc'[b] = proc[b]
  PROVE  ActiveInv'
<1>1. \A r \in Requests : r \in Actors \ {j}
  BY IndexingAssumption DEF Actors
<1>2. ASSUME NEW r \in Requests
      PROVE  /\ proc[r].pc \in {"idle", "done"} => proc'[r].pc \in {"idle", "done"}
             /\ proc'[r].pc \notin {"look", "cancel"}
             /\ proc'[r].pc = "insert" => proc[r].pc = "insert"
             /\ proc'[r].pc = "kick" =>
                  /\ proc'[r] = proc[r]
                  /\ status'[proc[r].run] \in {status[proc[r].run], "absent"}
  <2>1. proc'[r] = proc[r]
    BY <1>1
  <2>2. proc[r].pc = "kick" => proc[r].run \in Runs \ {j}
    BY DEF ActiveInv, RunnerInv, KicksUnbegun, At, InFlight
  <2> QED BY <2>1, <2>2 DEF ActiveInv, NobodyForces
<1>3. ASSUME NEW k \in Runs, proc'[k].pc = "begin"
      PROVE  proc[k].pc = "begin" /\ status'[k] \in {status[k], "absent"}
  BY <1>3 DEF Actors
<1> QED
  BY <1>2, <1>3, ActiveKept
-----------------------------------------------------------------------------
\* A request arrives when no other is in flight, and not to force.
LEMMA ActiveArrive ==
  ASSUME ActiveInv, RunnerInv', Serial, "force" \notin Ops,
         NEW r \in Requests, NEW o \in Ops \ {"timeout", "crash"}, Arrive(r, o)
  PROVE  ActiveInv'
<1>0. r \in Actors /\ o \in {"start", "sweep", "refresh", "delete"}
  BY IndexingAssumption DEF Actors, OpKinds
<1>1. FirstStep(o) \in {"check", "stamp", "wait", "drain"}
  BY <1>0 DEF FirstStep
<1>2. [Resting(FirstStep(o)) EXCEPT !.op = o, !.gated = gate] \in Process
  BY <1>0, <1>1 DEF Resting, Process, OpKinds, Labels, ActiveInv, RunnerInv, TypeOK
<1>3. [Resting(FirstStep(o)) EXCEPT !.op = o, !.gated = gate].pc = FirstStep(o)
  BY DEF Resting
<1>4. /\ proc'[r].pc \in {"check", "stamp", "wait", "drain"}
      /\ \A b \in Actors \ {r} : proc'[b] = proc[b]
  BY <1>0, <1>1, <1>2, <1>3, ContinueLabel DEF Arrive, ActiveInv, RunnerInv, TypeOK
<1>5. UNCHANGED status
  BY DEF Arrive
<1>6. \A q \in Requests \ {r} : ~InFlight(q)'
  BY <1>4 DEF Arrive, InFlight, Actors
<1>7. OneInFlight'
  BY <1>6 DEF OneInFlight
<1>8. NobodyForces' /\ InsertsAlone'
  BY <1>4, <1>5 DEF ActiveInv, NobodyForces, InsertsAlone, At, Actors, Active
<1>9. BeginsPending' /\ OneActive'
  BY <1>4, <1>5 DEF ActiveInv, BeginsPending, OneActive, At, Actors, Active
<1>10. KicksPending'
  BY <1>4, <1>6 DEF KicksPending, At, InFlight
<1> QED
  BY <1>7, <1>8, <1>9, <1>10 DEF ActiveInv

\* A check that finds no active row is the only way to an insert.
LEMMA ActiveCheck ==
  ASSUME ActiveInv, RunnerInv', NEW r \in Requests, Check(r)
  PROVE  ActiveInv'
<1>0. r \in Actors /\ UNCHANGED status
  BY DEF Actors, Check
<1>1. (IF Active = {} THEN "insert" ELSE "done") \in Labels
  BY DEF Labels
<1>2. /\ proc'[r].pc = IF Active = {} THEN "insert" ELSE "done"
      /\ \A b \in Actors \ {r} : proc'[b] = proc[b]
  BY <1>0, <1>1, GotoLabel DEF Check, ActiveInv, RunnerInv, TypeOK
<1>3. OneInFlight'
  BY <1>2 DEF ActiveInv, OneInFlight, InFlight, Check, At, Actors
<1>4. NobodyForces' /\ InsertsAlone'
  BY <1>0, <1>2 DEF ActiveInv, NobodyForces, InsertsAlone, At, Actors, Active
<1>5. BeginsPending' /\ KicksPending' /\ OneActive'
  BY <1>0, <1>2 DEF ActiveInv, BeginsPending, KicksPending, OneActive, At, Actors, Active
<1> QED
  BY <1>3, <1>4, <1>5 DEF ActiveInv

\* The insert finds no active row, so that the new one is alone.
LEMMA ActiveInsert ==
  ASSUME ActiveInv, RunnerInv', NEW r \in Requests, Insert(r)
  PROVE  ActiveInv'
<1>0. r \in Actors /\ r \notin Runs /\ Runs \subseteq Actors /\ At(r, "insert") /\ Active = {}
  BY IndexingAssumption DEF Actors, Insert, ActiveInv, InsertsAlone
<1>1. CASE ~exists
  <2>1. Goto(r, "done") /\ UNCHANGED status
    BY <1>1 DEF Insert
  <2>2. proc'[r].pc = "done" /\ \A b \in Actors \ {r} : proc'[b] = proc[b]
    BY <1>0, <2>1, GotoLabel DEF Labels, ActiveInv, RunnerInv, TypeOK
  <2> QED
    BY <1>0, <2>1, <2>2, ActiveGoto DEF Active, InFlight, At
<1>2. CASE exists
  <2>1. PICK j \in Runs :
          /\ status' = [status EXCEPT ![j] = "pending"]
          /\ Continue(r, [proc[r] EXCEPT !.pc = "kick", !.run = j])
    BY <1>2 DEF Insert
  <2>2. status'[j] = "pending" /\ \A k \in Runs \ {j} : status'[k] = status[k]
    BY <2>1 DEF ActiveInv, RunnerInv, TypeOK
  <2>3. Active' = {j}
    BY <1>0, <2>2 DEF Active
  <2>4. /\ proc'[r].pc = "kick" /\ proc'[r].run = j
        /\ \A b \in Actors \ {r} : proc'[b] = proc[b]
    <3>1. proc \in [Actors -> Process] /\ proc[r] \in Process
      BY <1>0 DEF ActiveInv, RunnerInv, TypeOK
    <3>2. /\ [proc[r] EXCEPT !.pc = "kick", !.run = j].pc = "kick"
          /\ [proc[r] EXCEPT !.pc = "kick", !.run = j].run = j
      BY <3>1 DEF Process
    <3> QED BY <1>0, <2>1, <3>1, <3>2 DEF Continue
  <2>5. \A q \in Requests \ {r} : q \in Actors \ {r} /\ ~InFlight(q)
    BY <1>0 DEF Actors, ActiveInv, OneInFlight, InFlight, At
  <2>6. OneInFlight' /\ NobodyForces' /\ InsertsAlone' /\ KicksPending'
    BY <2>2, <2>4, <2>5 DEF OneInFlight, NobodyForces, InsertsAlone, KicksPending, InFlight, At
  <2>7. BeginsPending'
    BY <1>0, <2>2, <2>4 DEF ActiveInv, BeginsPending, At
  <2>8. OneActive'
    BY <2>3 DEF OneActive
  <2> QED
    BY <2>6, <2>7, <2>8 DEF ActiveInv
<1> QED
  BY <1>1, <1>2

\* Handing the row over changes none.
LEMMA ActiveKick ==
  ASSUME ActiveInv, RunnerInv', NEW r \in Requests, Kick(r)
  PROVE  ActiveInv'
<1>0. /\ Runs \subseteq Actors /\ Requests \subseteq Actors /\ Requests \cap Runs = {}
      /\ proc \in [Actors -> Process] /\ proc[r].run \in Runs /\ At(r, "kick") /\ UNCHANGED status
  BY IndexingAssumption DEF Actors, ActiveInv, RunnerInv, TypeOK, Kick, KicksUnbegun
<1>1. /\ proc'[r].pc = "done" /\ proc'[proc[r].run].pc = "begin"
      /\ \A b \in Actors \ {r, proc[r].run} : proc'[b] = proc[b]
  BY <1>0 DEF Kick, Resting
<1>2. \A q \in Requests \ {r} : q \in Actors \ {r, proc[r].run} /\ ~InFlight(q)
  BY <1>0 DEF ActiveInv, OneInFlight, InFlight, At
<1>3. OneInFlight' /\ NobodyForces' /\ InsertsAlone' /\ KicksPending'
  BY <1>1, <1>2 DEF OneInFlight, NobodyForces, InsertsAlone, KicksPending, InFlight, At
<1>4. BeginsPending' /\ OneActive'
  BY <1>0, <1>1 DEF ActiveInv, BeginsPending, KicksPending, OneActive, Active, At
<1> QED BY <1>3, <1>4 DEF ActiveInv

\* A runner begins with a pending row, which counts as active already.
LEMMA ActiveBegin ==
  ASSUME ActiveInv, RunnerInv', NEW j \in Runs, RunStep(j)
  PROVE  ActiveInv'
<1>0. j \in Actors /\ status \in [Runs -> Status] /\ proc \in [Actors -> Process] /\ InFlight(j)
  BY DEF Actors, ActiveInv, RunnerInv, TypeOK, RunStep, Begin, Finish, FailLate, InFlight, At
<1>1. CASE Begin(j)
  <2>1. CASE status[j] = "absent"
    <3>1. Goto(j, "idle") /\ UNCHANGED status
      BY <1>1, <2>1 DEF Begin
    <3>2. proc'[j].pc = "done" /\ \A b \in Actors \ {j} : proc'[b] = proc[b]
      BY <1>0, <3>1, GotoLabel DEF Labels
    <3> QED
      BY <1>0, <3>1, <3>2, ActiveRun DEF Active
  <2>2. CASE status[j] # "absent"
    <3>1. status[j] = "pending"
      BY <1>1, <2>2 DEF Begin, ActiveInv, BeginsPending
    <3>2. status'[j] = "running" /\ \A k \in Runs \ {j} : status'[k] = status[k]
      BY <1>0, <1>1, <2>2 DEF Begin
    <3>3. Active' \subseteq Active
      BY <3>1, <3>2 DEF Active
    <3>4. /\ [proc[j] EXCEPT !.pc = "fetch", !.gated = gate] \in Process
          /\ [proc[j] EXCEPT !.pc = "fetch", !.gated = gate].pc = "fetch"
      BY <1>0, ZenonT(60) DEF Process, Labels, ActiveInv, RunnerInv, TypeOK
    <3>5. Continue(j, [proc[j] EXCEPT !.pc = "fetch", !.gated = gate])
      BY <1>1, <2>2 DEF Begin
    <3>6. proc'[j].pc = "fetch" /\ \A b \in Actors \ {j} : proc'[b] = proc[b]
      BY <1>0, <3>4, <3>5, ContinueLabel
    <3> QED
      BY <1>0, <3>2, <3>3, <3>6, ActiveRun
  <2> QED
    BY <2>1, <2>2
<1>2. CASE Finish(j)
  <2>1. proc'[j].pc = "done" /\ \A b \in Actors \ {j} : proc'[b] = proc[b]
    BY <1>0, <1>2, GotoLabel DEF Finish, Labels
  <2>2. Active' \subseteq Active /\ \A k \in Runs \ {j} : status'[k] = status[k]
    BY <1>0, <1>2, SetActive DEF Finish, Terminal
  <2> QED
    BY <1>0, <2>1, <2>2, ActiveRun
<1>3. CASE FailLate(j)
  <2>1. proc'[j].pc = "done" /\ \A b \in Actors \ {j} : proc'[b] = proc[b]
    BY <1>0, <1>3, GotoLabel DEF FailLate, Labels
  <2>2. UNCHANGED status \/ Set(j, "failed")
    BY <1>3 DEF FailLate
  <2>3. Active' \subseteq Active /\ \A k \in Runs \ {j} : status'[k] = status[k]
    BY <1>0, <2>2, SetActive DEF Terminal, Active
  <2> QED
    BY <1>0, <2>1, <2>3, ActiveRun
<1> QED
  BY <1>1, <1>2, <1>3 DEF RunStep

\* Fetching, reading, writing and dying change no row; a failed run's row ends.
LEMMA ActiveRefresh ==
  ASSUME ActiveInv, RunnerInv', NEW a \in Actors, RefreshStep(a) \/ Crash(a)
  PROVE  ActiveInv'
<1>0. status \in [Runs -> Status] /\ proc \in [Actors -> Process] /\ proc[a] \in Process
  BY DEF ActiveInv, RunnerInv, TypeOK
<1>1. AfterRefresh(a) \in {"finish", "done"} /\ AfterRefresh(a) \in Labels
  BY DEF AfterRefresh, Labels
<1>2. InFlight(a)
  BY DEF RefreshStep, Fetch, Read, Write, Fail, Crash, InFlight, At
<1>3. ASSUME UNCHANGED status, NEW l \in {"read", "write", "finish", "done"},
             proc'[a].pc = l, \A b \in Actors \ {a} : proc'[b] = proc[b]
      PROVE  ActiveInv'
  BY <1>2, <1>3, ActiveGoto DEF Active
<1>4. CASE Fetch(a)
  <2> DEFINE p == [proc[a] EXCEPT !.pc = IF upstream = {} THEN AfterRefresh(a) ELSE "read",
                                  !.fetched = upstream]
  <2>1. p \in Process /\ p.pc \in {"read", "finish", "done"}
    BY <1>0, <1>1 DEF Process, Labels, ActiveInv, RunnerInv, TypeOK
  <2>2. Continue(a, p) /\ UNCHANGED status
    BY <1>4 DEF Fetch
  <2> HIDE DEF p
  <2>3. proc'[a].pc \in {"read", "finish", "done"} /\ \A b \in Actors \ {a} : proc'[b] = proc[b]
    BY <1>0, <2>1, <2>2, ContinueLabel
  <2> QED
    BY <1>3, <2>2, <2>3
<1>5. CASE Read(a)
  <2>1. PICK s \in SUBSET catalog : Continue(a, [proc[a] EXCEPT !.pc = "write", !.saw = s])
    BY <1>5 DEF Read
  <2>2. /\ [proc[a] EXCEPT !.pc = "write", !.saw = s] \in Process
        /\ [proc[a] EXCEPT !.pc = "write", !.saw = s].pc = "write"
    BY <1>0, <2>1 DEF Process, Labels, ActiveInv, RunnerInv, TypeOK
  <2>3. proc'[a].pc = "write" /\ \A b \in Actors \ {a} : proc'[b] = proc[b]
    BY <1>0, <2>1, <2>2, ContinueLabel
  <2> QED
    BY <1>3, <1>5, <2>3 DEF Read
<1>6. CASE Write(a)
  <2>1. proc'[a].pc \in {"finish", "done"} /\ \A b \in Actors \ {a} : proc'[b] = proc[b]
    BY <1>0, <1>1, <1>6, GotoLabel DEF Write
  <2> QED
    BY <1>3, <1>6, <2>1 DEF Write
<1>7. CASE Fail(a)
  <2>1. proc'[a].pc = "done" /\ \A b \in Actors \ {a} : proc'[b] = proc[b]
    BY <1>0, <1>7, GotoLabel DEF Fail, Labels
  <2>2. CASE a \in Runs
    <3>1. Active' \subseteq Active /\ \A k \in Runs \ {a} : status'[k] = status[k]
      BY <1>0, <1>7, <2>2, SetActive DEF Fail, Terminal
    <3> QED
      BY <1>2, <2>1, <2>2, <3>1, ActiveRun
  <2>3. CASE a \notin Runs
    BY <1>3, <1>7, <2>1, <2>3 DEF Fail
  <2> QED
    BY <2>2, <2>3
<1>8. CASE Crash(a)
  <2>1. proc'[a].pc = "done" /\ \A b \in Actors \ {a} : proc'[b] = proc[b]
    BY <1>0, <1>8, GotoLabel DEF Crash, Labels
  <2> QED
    BY <1>3, <1>8, <2>1 DEF Crash
<1> QED
  BY <1>4, <1>5, <1>6, <1>7, <1>8 DEF RefreshStep

\* The other steps of a request change no row, or (Delete) remove every row.
LEMMA ActiveRequest ==
  ASSUME ActiveInv, RunnerInv', NEW r \in Requests, RequestStep(r) \/ TimeOut(r), ~Kick(r)
  PROVE  ActiveInv'
<1>0. r \in Actors /\ status \in [Runs -> Status] /\ proc \in [Actors -> Process] /\ proc[r] \in Process
  BY DEF Actors, ActiveInv, RunnerInv, TypeOK
<1>1. InFlight(r)
  BY DEF RequestStep, Look, Cancel, Stamp, Check, Insert, Wait, Drain, Load, Retry, Delete, TimeOut, InFlight, At
<1>2. ASSUME UNCHANGED status, NEW l \in Labels \ {"idle", "look", "cancel", "insert", "kick", "begin"}, Goto(r, l)
      PROVE  ActiveInv'
  <2>1. proc'[r].pc = l /\ \A b \in Actors \ {r} : proc'[b] = proc[b]
    BY <1>0, <1>2, GotoLabel
  <2> QED
    BY <1>0, <1>1, <1>2, <2>1, ActiveGoto DEF Active
<1>3. ASSUME UNCHANGED status, NEW p \in Process, Continue(r, p),
             p.pc \notin {"idle", "look", "cancel", "insert", "kick", "begin"}
      PROVE  ActiveInv'
  <2>1. proc'[r].pc = p.pc /\ \A b \in Actors \ {r} : proc'[b] = proc[b]
    BY <1>0, <1>3, ContinueLabel
  <2> QED
    BY <1>0, <1>1, <1>3, <2>1, ActiveGoto DEF Active
<1>4. CASE Look(r) \/ Cancel(r)
  BY <1>4 DEF Look, Cancel, At, ActiveInv, NobodyForces
<1>5. CASE Stamp(r)
  <2>1. UNCHANGED status /\ (Goto(r, "check") \/ Goto(r, "done"))
    BY <1>5 DEF Stamp
  <2> QED
    BY <1>2, <2>1 DEF Labels
<1>6. CASE Wait(r)
  <2>1. UNCHANGED status /\ Goto(r, "fetch")
    BY <1>6 DEF Wait
  <2> QED
    BY <1>2, <2>1 DEF Labels
<1>7. CASE Drain(r)
  <2>1. UNCHANGED status /\ Goto(r, "load")
    BY <1>7 DEF Drain
  <2> QED
    BY <1>2, <2>1 DEF Labels
<1>8. CASE Load(r)
  <2> DEFINE p == [proc[r] EXCEPT !.pc = IF exists THEN "delete" ELSE "done", !.saw = catalog]
  <2>1. p \in Process /\ p.pc \in {"delete", "done"}
    BY <1>0 DEF Process, Labels, ActiveInv, RunnerInv, TypeOK
  <2>2. UNCHANGED status /\ Continue(r, p)
    BY <1>8 DEF Load
  <2> HIDE DEF p
  <2> QED
    BY <1>3, <2>1, <2>2
<1>9. CASE Retry(r)
  <2> DEFINE p == [Resting("drain") EXCEPT !.op = "delete", !.again = TRUE]
  <2>1. p \in Process /\ p.pc = "drain"
    BY DEF Resting, Process, OpKinds, Labels
  <2>2. UNCHANGED status /\ (Goto(r, "done") \/ Continue(r, p))
    BY <1>9 DEF Retry
  <2> HIDE DEF p
  <2>3. CASE Goto(r, "done")
    BY <1>2, <2>2, <2>3 DEF Labels
  <2>4. CASE Continue(r, p)
    BY <1>3, <2>1, <2>2, <2>4
  <2> QED
    BY <2>2, <2>3, <2>4
<1>10. CASE Delete(r)
  <2>1. proc'[r].pc = "done" /\ \A b \in Actors \ {r} : proc'[b] = proc[b]
    BY <1>0, <1>10, GotoLabel DEF Delete, Labels
  <2>2. \A j \in Runs : status'[j] = "absent"
    BY <1>10 DEF Delete
  <2>3. Active' \subseteq Active
    BY <2>2 DEF Active
  <2> QED
    BY <1>0, <1>1, <2>1, <2>2, <2>3, ActiveGoto
<1>11. CASE TimeOut(r)
  <2> DEFINE p == [proc[r] EXCEPT !.pc = IF @ = "wait" THEN "done" ELSE "load", !.late = TRUE]
  <2>1. p \in Process /\ p.pc \in {"done", "load"}
    BY <1>0 DEF Process, Labels
  <2>2. UNCHANGED status /\ Continue(r, p)
    BY <1>11 DEF TimeOut
  <2> HIDE DEF p
  <2> QED
    BY <1>3, <2>1, <2>2
<1> QED
  BY <1>4, <1>5, <1>6, <1>7, <1>8, <1>9, <1>10, <1>11, ActiveCheck, ActiveInsert DEF RequestStep

\* Every step of requests that do not overlap and never force keeps the invariant.
LEMMA ActiveStep ==
  ASSUME ActiveInv, [Next]_vars, Serial, "force" \notin Ops
  PROVE  ActiveInv'
<1>0. RunnerInv'
  BY RunnerStep DEF ActiveInv
<1>1. CASE UNCHANGED <<status, proc>>
  BY <1>0, <1>1 DEF ActiveInv, OneInFlight, NobodyForces, InsertsAlone, BeginsPending, KicksPending,
                    OneActive, InFlight, At, Active
<1>2. CASE ChangeUpstream \/ IntervalElapses \/ UNCHANGED vars
  BY <1>1, <1>2 DEF ChangeUpstream, IntervalElapses, vars
<1>3. CASE \E r \in Requests : RequestStep(r) \/ TimeOut(r) \/ \E o \in Ops \ {"timeout", "crash"} : Arrive(r, o)
  BY <1>0, <1>3, ActiveKick, ActiveRequest, ActiveArrive
<1>4. CASE \E j \in Runs : RunStep(j)
  BY <1>0, <1>4, ActiveBegin
<1>5. CASE \E a \in Actors : RefreshStep(a) \/ Crash(a)
  BY <1>0, <1>5, ActiveRefresh
<1> QED
  BY <1>2, <1>3, <1>4, <1>5 DEF Next

\* At first nobody is there and no row either.
LEMMA ActiveInit == Init => ActiveInv
<1> SUFFICES ASSUME Init PROVE ActiveInv
  OBVIOUS
<1>1. \A a \in Actors : proc[a].pc = "idle"
  BY DEF Init, Resting
<1>2. Active = {}
  BY DEF Init, Active
<1> QED
  BY <1>1, <1>2, RunnerInit DEF ActiveInv, OneInFlight, NobodyForces, InsertsAlone, BeginsPending,
                               KicksPending, OneActive, InFlight, At, Actors

\* Requests that do not overlap and never force keep at most one row active,
\* although their runners go on in the background, time out or die.
THEOREM SerialOneActive == Serial /\ "force" \notin Ops => (Spec => []OneActive)
<1> SUFFICES ASSUME Serial, "force" \notin Ops PROVE Spec => []OneActive
  OBVIOUS
<1>1. ActiveInv /\ [Next]_vars => ActiveInv'
  BY ActiveStep
<1>2. ActiveInv => OneActive
  BY DEF ActiveInv
<1> QED
  BY <1>1, <1>2, ActiveInit, PTL DEF Spec
-----------------------------------------------------------------------------
\* At most one sweep in flight has claimed its tick, and as long as it has started
\* no run, no other claimed one has; once a sweep has passed its stamp, or has
\* started a run, the gate is closed, or a catalog has been written since.
OneClaimed ==
  \A q, r \in Requests \ unclaimed : Sweeping(q) /\ Sweeping(r) => q = r

KicksFirst ==
  \A r \in Requests \ unclaimed : Sweeping(r) /\ r \notin kicks => kicks \subseteq unclaimed

GateClosed ==
  /\ \A r \in Requests : Sweeping(r) => At(r, "stamp") \/ gate \/ ~stale
  /\ kicks # {} => gate \/ ~stale

BackoffInv == RunnerInv /\ OneClaimed /\ KicksFirst /\ GateClosed /\ BackoffHolds

\* A process that goes on does so as it says, or is done.
LEMMA GoesOn ==
  ASSUME proc \in [Actors -> Process], NEW a \in Actors, NEW p \in Process, Continue(a, p)
  PROVE  /\ proc'[a] = IF p.pc \in {"idle", "done"} THEN Resting("done") ELSE p
         /\ \A b \in Actors \ {a} : proc'[b] = proc[b]
BY DEF Continue

LEMMA GotoGoesOn ==
  ASSUME proc \in [Actors -> Process], NEW a \in Actors, NEW l \in Labels, Goto(a, l)
  PROVE  /\ [proc[a] EXCEPT !.pc = l] \in Process
         /\ Continue(a, [proc[a] EXCEPT !.pc = l])
         /\ [proc[a] EXCEPT !.pc = l].pc = l /\ [proc[a] EXCEPT !.pc = l].op = proc[a].op
         /\ [proc[a] EXCEPT !.pc = l].saw = proc[a].saw
         /\ [proc[a] EXCEPT !.pc = l].fetched = proc[a].fetched
         /\ [proc[a] EXCEPT !.pc = l].late = proc[a].late
<1>1. proc[a] \in Process
  OBVIOUS
<1> QED BY <1>1 DEF Process, Goto

\* A step of a that begins no sweep, starts no run and opens the gate only by
\* writing the catalog.
LEMMA BackoffKept ==
  ASSUME BackoffInv, RunnerInv', sweeps' = sweeps, (gate \/ ~stale) => (gate' \/ ~stale'),
         NEW a \in Actors, InFlight(a), NEW p \in Process, Continue(a, p),
         p.op \in {proc[a].op, "delete"}, At(a, "stamp") => gate' \/ p.pc \in {"idle", "done"}
  PROVE  BackoffInv'
<1>1. ASSUME NEW r \in Requests, Sweeping(r)'
      PROVE  Sweeping(r) /\ (At(r, "stamp") => At(r, "stamp")' \/ gate')
  <2>1. proc \in [Actors -> Process] /\ r \in Actors
    BY DEF BackoffInv, RunnerInv, TypeOK, Actors
  <2>2. /\ proc'[a] = IF p.pc \in {"idle", "done"} THEN Resting("done") ELSE p
        /\ \A b \in Actors \ {a} : proc'[b] = proc[b]
    BY <2>1, GoesOn
  <2>3. CASE r = a
    BY <1>1, <2>2, <2>3 DEF Sweeping, InFlight, Resting, At
  <2>4. CASE r # a
    BY <1>1, <2>1, <2>2, <2>4 DEF Sweeping, InFlight, At
  <2> QED BY <2>3, <2>4
<1>2. kicks' = kicks /\ unclaimed' = unclaimed
  OBVIOUS
<1>3. OneClaimed' /\ KicksFirst' /\ BackoffHolds'
  BY <1>1, <1>2 DEF BackoffInv, OneClaimed, KicksFirst, BackoffHolds
<1>4. GateClosed'
  BY <1>1, <1>2 DEF BackoffInv, GateClosed
<1> QED BY <1>3, <1>4 DEF BackoffInv

LEMMA BackoffGoto ==
  ASSUME BackoffInv, RunnerInv', sweeps' = sweeps, (gate \/ ~stale) => (gate' \/ ~stale'),
         NEW a \in Actors, InFlight(a), NEW l \in Labels, Goto(a, l),
         At(a, "stamp") => gate' \/ l = "done"
  PROVE  BackoffInv'
<1>1. proc \in [Actors -> Process]
  BY DEF BackoffInv, RunnerInv, TypeOK
<1>2. /\ [proc[a] EXCEPT !.pc = l] \in Process
      /\ Continue(a, [proc[a] EXCEPT !.pc = l])
      /\ [proc[a] EXCEPT !.pc = l].pc = l /\ [proc[a] EXCEPT !.pc = l].op = proc[a].op
  BY <1>1, GotoGoesOn
<1> QED BY <1>2, BackoffKept

LEMMA BackoffRequest ==
  ASSUME BackoffInv, RunnerInv', NEW r \in Requests, RequestStep(r) \/ TimeOut(r)
  PROVE  BackoffInv'
<1>0. r \in Actors /\ proc \in [Actors -> Process] /\ proc[r] \in Process
  BY DEF Actors, BackoffInv, RunnerInv, TypeOK
<1>1. InFlight(r)
  BY DEF RequestStep, Look, Cancel, Stamp, Check, Insert, Kick, Wait, Drain, Load, Retry, Delete, TimeOut, InFlight, At
<1>2. CASE Look(r)
  <2>1. CASE Goto(r, "check")
    BY <1>0, <1>1, <1>2, <2>1, BackoffGoto DEF Look, Labels, At
  <2>2. CASE \E j \in Active : Continue(r, [proc[r] EXCEPT !.pc = "cancel", !.run = j])
    <3>1. PICK j \in Active : Continue(r, [proc[r] EXCEPT !.pc = "cancel", !.run = j])
      BY <2>2
    <3>2. /\ [proc[r] EXCEPT !.pc = "cancel", !.run = j] \in Process
          /\ [proc[r] EXCEPT !.pc = "cancel", !.run = j].op = proc[r].op
      BY <1>0 DEF Process, Labels, Active
    <3> QED BY <1>0, <1>1, <1>2, <3>1, <3>2, BackoffKept DEF Look, At
  <2> QED BY <1>2, <2>1, <2>2 DEF Look
<1>3. CASE Cancel(r)
  <2>1. Goto(r, "done") \/ Goto(r, "check")
    BY <1>3 DEF Cancel
  <2> QED BY <1>0, <1>1, <1>3, <2>1, BackoffGoto DEF Cancel, Labels, At
<1>4. CASE Stamp(r)
  <2>1. (Goto(r, "done") /\ gate' = (gate \/ exists)) \/ (Goto(r, "check") /\ gate')
    BY <1>4 DEF Stamp
  <2> QED BY <1>0, <1>1, <1>4, <2>1, BackoffGoto DEF Stamp, Labels
<1>5. CASE Check(r)
  <2>1. Goto(r, "insert") \/ Goto(r, "done")
    BY <1>5 DEF Check
  <2> QED BY <1>0, <1>1, <1>5, <2>1, BackoffGoto DEF Check, Labels, At
<1>6. CASE Insert(r)
  <2>1. CASE ~exists
    BY <1>0, <1>1, <1>6, <2>1, BackoffGoto DEF Insert, Labels, At
  <2>2. CASE exists
    <3>1. PICK j \in Runs :
            /\ Continue(r, [proc[r] EXCEPT !.pc = "kick", !.run = j])
            /\ kicks' = IF proc[r].op = "sweep" THEN kicks \cup {r} ELSE kicks
      BY <1>6, <2>2 DEF Insert
    <3>2. /\ [proc[r] EXCEPT !.pc = "kick", !.run = j] \in Process
          /\ [proc[r] EXCEPT !.pc = "kick", !.run = j].op = proc[r].op
      BY <1>0 DEF Process, Labels
    <3>3. UNCHANGED <<gate, stale, unclaimed>> /\ At(r, "insert")
      BY <1>6 DEF Insert
    <3>4. CASE kicks' = kicks
      BY <1>0, <1>1, <3>1, <3>2, <3>3, <3>4, BackoffKept DEF At
    <3>5. CASE kicks' # kicks
      <4>1. Sweeping(r) /\ kicks' = kicks \cup {r} /\ r \notin kicks /\ (gate \/ ~stale)
        BY <1>1, <3>1, <3>3, <3>5 DEF Sweeping, BackoffInv, GateClosed, At
      <4>2. \A q \in Requests : Sweeping(q)' => Sweeping(q)
        BY <1>0, <3>1, <3>2, <4>1, GoesOn DEF Sweeping, InFlight, Resting, Actors
      <4>3. OneClaimed' /\ GateClosed'
        BY <3>3, <4>1, <4>2 DEF BackoffInv, OneClaimed, GateClosed
      <4>4. KicksFirst' /\ BackoffHolds'
        BY <3>3, <4>1, <4>2 DEF BackoffInv, OneClaimed, KicksFirst, BackoffHolds
      <4> QED BY <4>3, <4>4 DEF BackoffInv
    <3> QED BY <3>4, <3>5
  <2> QED BY <2>1, <2>2
<1>13. CASE Kick(r)
  <2>1. /\ proc[r].run \in Runs /\ UNCHANGED <<kicks, unclaimed, gate, stale>>
        /\ proc' = [proc EXCEPT ![r] = Resting("done"), ![proc[r].run] = Resting("begin")]
    BY <1>13 DEF Kick, BackoffInv, RunnerInv, KicksUnbegun
  <2>2. \A q \in Requests : Sweeping(q)' => Sweeping(q) /\ At(q, "stamp")' = At(q, "stamp")
    BY <1>0, <2>1, IndexingAssumption DEF Sweeping, InFlight, Resting, At, Actors
  <2>3. OneClaimed' /\ KicksFirst' /\ BackoffHolds'
    BY <2>1, <2>2 DEF BackoffInv, OneClaimed, KicksFirst, BackoffHolds
  <2>4. GateClosed'
    BY <2>1, <2>2 DEF BackoffInv, GateClosed
  <2> QED BY <2>3, <2>4 DEF BackoffInv
<1>7. CASE Wait(r)
  BY <1>0, <1>1, <1>7, BackoffGoto DEF Wait, Labels, At
<1>8. CASE Drain(r)
  BY <1>0, <1>1, <1>8, BackoffGoto DEF Drain, Labels, At
<1>9. CASE Load(r)
  <2> DEFINE p == [proc[r] EXCEPT !.pc = IF exists THEN "delete" ELSE "done", !.saw = catalog]
  <2>1. p \in Process /\ p.op = proc[r].op
    BY <1>0 DEF Process, Labels, BackoffInv, RunnerInv, TypeOK
  <2>2. Continue(r, p) /\ UNCHANGED <<sweeps, gate, stale>> /\ ~At(r, "stamp")
    BY <1>9 DEF Load, At
  <2> HIDE DEF p
  <2> QED BY <1>0, <1>1, <2>1, <2>2, BackoffKept
<1>10. CASE Retry(r)
  <2> DEFINE p == [Resting("drain") EXCEPT !.op = "delete", !.again = TRUE]
  <2>1. p \in Process /\ p.op = "delete"
    BY DEF Resting, Process, OpKinds, Labels
  <2>2. UNCHANGED <<sweeps, gate, stale>> /\ ~At(r, "stamp") /\ (Goto(r, "done") \/ Continue(r, p))
    BY <1>10 DEF Retry, At
  <2> HIDE DEF p
  <2> QED BY <1>0, <1>1, <2>1, <2>2, BackoffKept, BackoffGoto DEF Labels
<1>11. CASE Delete(r)
  BY <1>0, <1>1, <1>11, BackoffGoto DEF Delete, Labels, At
<1>12. CASE TimeOut(r)
  <2> DEFINE p == [proc[r] EXCEPT !.pc = IF @ = "wait" THEN "done" ELSE "load", !.late = TRUE]
  <2>1. p \in Process /\ p.op = proc[r].op
    BY <1>0 DEF Process, Labels
  <2>2. Continue(r, p) /\ UNCHANGED <<sweeps, gate, stale>> /\ ~At(r, "stamp")
    BY <1>12 DEF TimeOut, At
  <2> HIDE DEF p
  <2> QED BY <1>0, <1>1, <2>1, <2>2, BackoffKept
<1> QED
  BY <1>2, <1>3, <1>4, <1>5, <1>6, <1>7, <1>8, <1>9, <1>10, <1>11, <1>12, <1>13 DEF RequestStep

LEMMA BackoffArrive ==
  ASSUME BackoffInv, RunnerInv', NEW r \in Requests, NEW o \in Ops \ {"timeout", "crash"}, Arrive(r, o)
  PROVE  BackoffInv'
<1>0. r \in Actors /\ proc \in [Actors -> Process] /\ Requests \subseteq Actors
  BY DEF Actors, BackoffInv, RunnerInv, TypeOK
<1>1. o \in {"start", "force", "sweep", "refresh", "delete"}
  BY IndexingAssumption DEF OpKinds
<1> DEFINE p == [Resting(FirstStep(o)) EXCEPT !.op = o, !.gated = gate]
<1>2. p \in Process /\ p.op = o /\ p.pc = FirstStep(o)
  BY <1>1 DEF Resting, Process, OpKinds, FirstStep, Labels, BackoffInv, RunnerInv, TypeOK
<1>3. Continue(r, p) /\ UNCHANGED <<kicks, gate, stale>>
  BY DEF Arrive
<1> HIDE DEF p
<1>4. /\ proc'[r] = p \/ proc'[r] = Resting("done")
      /\ \A q \in Requests \ {r} : proc'[q] = proc[q]
  BY <1>0, <1>2, <1>3, GoesOn
<1>5. \A q \in Requests \ {r} : (Sweeping(q)' <=> Sweeping(q)) /\ (At(q, "stamp")' <=> At(q, "stamp"))
  BY <1>4 DEF Sweeping, InFlight, At
<1>6. Sweeping(r)' => o = "sweep" /\ At(r, "stamp")'
  BY <1>2, <1>4 DEF Sweeping, InFlight, Resting, At, FirstStep
<1>7. unclaimed \subseteq unclaimed'
  BY DEF Arrive
<1>8. GateClosed'
  BY <1>3, <1>5, <1>6 DEF BackoffInv, GateClosed
<1>9. BackoffHolds'
  BY <1>3, <1>7 DEF BackoffInv, BackoffHolds
<1>10. CASE o = "sweep"
  <2>1. kicks' = {}
    BY <1>3, <1>10 DEF Arrive, Due, BackoffInv, GateClosed
  <2>2. r \in unclaimed' \/ \A q \in Requests : ~Sweeping(q)
    BY <1>10 DEF Arrive
  <2>3. OneClaimed'
    BY <1>5, <1>7, <2>2 DEF BackoffInv, OneClaimed
  <2>4. KicksFirst'
    BY <2>1 DEF KicksFirst
  <2> QED BY <1>8, <1>9, <2>3, <2>4 DEF BackoffInv
<1>11. CASE o # "sweep"
  <2>1. unclaimed' = unclaimed /\ \A q \in Requests : Sweeping(q)' => Sweeping(q)
    BY <1>5, <1>6, <1>11 DEF Arrive
  <2>2. OneClaimed' /\ KicksFirst'
    BY <1>3, <2>1 DEF BackoffInv, OneClaimed, KicksFirst
  <2> QED BY <1>8, <1>9, <2>2 DEF BackoffInv
<1> QED BY <1>10, <1>11

\* Runners are no sweeps; who writes the catalog ends the interval.
LEMMA BackoffRefresh ==
  ASSUME BackoffInv, RunnerInv', NEW a \in Actors,
         RefreshStep(a) \/ Crash(a) \/ (a \in Runs /\ RunStep(a))
  PROVE  BackoffInv'
<1>0. /\ proc \in [Actors -> Process] /\ proc[a] \in Process
      /\ AfterRefresh(a) \in {"finish", "done"} /\ AfterRefresh(a) \in Labels
  BY DEF BackoffInv, RunnerInv, TypeOK, AfterRefresh, Labels
<1>1. InFlight(a) /\ (~At(a, "stamp") \/ Crash(a))
  BY DEF RefreshStep, Fetch, Read, Write, Fail, Crash, RunStep, Begin, Finish, FailLate, InFlight, At
<1>2. sweeps' = sweeps /\ ((gate \/ ~stale) => (gate' \/ ~stale'))
  <2>1. CASE Write(a)
    BY <2>1, Zenon DEF Write
  <2>2. CASE ~Write(a)
    <3>1. UNCHANGED <<sweeps, gate, stale>>
      BY <2>2 DEF RefreshStep, Fetch, Read, Fail, Crash, RunStep, Begin, Finish, FailLate
    <3> QED BY <3>1
  <2> QED BY <2>1, <2>2
<1>3. CASE Fetch(a)
  <2> DEFINE p == [proc[a] EXCEPT !.pc = IF upstream = {} THEN AfterRefresh(a) ELSE "read",
                                  !.fetched = upstream]
  <2>1. p \in Process /\ p.op = proc[a].op
    BY <1>0 DEF Process, Labels, BackoffInv, RunnerInv, TypeOK
  <2>2. Continue(a, p)
    BY <1>3 DEF Fetch
  <2> HIDE DEF p
  <2> QED BY <1>0, <1>1, <1>2, <1>3, <2>1, <2>2, BackoffKept DEF Fetch, At
<1>4. CASE Read(a)
  <2>1. PICK s \in SUBSET catalog : Continue(a, [proc[a] EXCEPT !.pc = "write", !.saw = s])
    BY <1>4 DEF Read
  <2>2. /\ [proc[a] EXCEPT !.pc = "write", !.saw = s] \in Process
        /\ [proc[a] EXCEPT !.pc = "write", !.saw = s].op = proc[a].op
    BY <1>0 DEF Process, Labels, BackoffInv, RunnerInv, TypeOK
  <2> QED BY <1>0, <1>1, <1>2, <1>4, <2>1, <2>2, BackoffKept DEF Read, At
<1>5. CASE Begin(a)
  <2>1. Goto(a, "idle") \/ Continue(a, [proc[a] EXCEPT !.pc = "fetch", !.gated = gate])
    BY <1>5 DEF Begin
  <2>2. /\ [proc[a] EXCEPT !.pc = "fetch", !.gated = gate] \in Process
        /\ [proc[a] EXCEPT !.pc = "fetch", !.gated = gate].op = proc[a].op
    BY <1>0 DEF Process, Labels, BackoffInv, RunnerInv, TypeOK
  <2>3. ~At(a, "stamp")
    BY <1>5 DEF Begin, At
  <2> QED BY <1>0, <1>1, <1>2, <2>1, <2>2, <2>3, BackoffKept, BackoffGoto DEF Labels
<1>6. CASE Write(a) \/ Fail(a) \/ Crash(a) \/ Finish(a) \/ FailLate(a)
  <2>1. \/ Goto(a, "finish") /\ ~At(a, "stamp")
        \/ Goto(a, "idle") /\ ~At(a, "stamp")
        \/ Goto(a, "done")
    BY <1>0, <1>6 DEF Write, Fail, Crash, Finish, FailLate, At
  <2> QED BY <1>0, <1>1, <1>2, <2>1, BackoffGoto DEF Labels
<1> QED BY <1>3, <1>4, <1>5, <1>6 DEF RefreshStep, RunStep

LEMMA BackoffStep ==
  ASSUME BackoffInv, [Next]_vars
  PROVE  BackoffInv'
<1>0. RunnerInv'
  BY RunnerStep DEF BackoffInv
<1>1. CASE UNCHANGED <<stale, gate, kicks, unclaimed, proc>>
  BY <1>0, <1>1 DEF BackoffInv, OneClaimed, KicksFirst, GateClosed, BackoffHolds, Sweeping, InFlight, At
<1>2. CASE IntervalElapses
  BY <1>0, <1>2 DEF BackoffInv, OneClaimed, KicksFirst, GateClosed, BackoffHolds,
                    IntervalElapses, Sweeping, InFlight, At
<1>3. ASSUME NEW j \in Runs, RunStep(j) PROVE BackoffInv'
  BY <1>0, <1>3, BackoffRefresh DEF Actors
<1>4. ChangeUpstream \/ UNCHANGED vars => UNCHANGED <<stale, gate, kicks, unclaimed, proc>>
  BY DEF ChangeUpstream, vars
<1> QED
  BY <1>0, <1>1, <1>2, <1>3, <1>4, BackoffRequest, BackoffArrive, BackoffRefresh DEF Next

\* However attempts end, with everything else overlapping and dying, no two sweeps
\* start a run in one interval, but for those that came in while another was in
\* flight.
THEOREM BackoffAlwaysHolds == Spec => []BackoffHolds
<1>1. Init => BackoffInv
  <2> SUFFICES ASSUME Init PROVE BackoffInv
    OBVIOUS
  <2>1. \A r \in Requests : ~Sweeping(r)
    BY DEF Init, Sweeping, InFlight, Resting, Actors
  <2> QED BY <2>1, RunnerInit
          DEF BackoffInv, OneClaimed, KicksFirst, GateClosed, BackoffHolds, Init
<1>2. BackoffInv /\ [Next]_vars => BackoffInv'
  BY BackoffStep
<1>3. BackoffInv => BackoffHolds
  BY DEF BackoffInv, BackoffHolds
<1> QED BY <1>1, <1>2, <1>3, PTL DEF Spec
-----------------------------------------------------------------------------
\* The runner of a row is under way.
Busy(j) == proc[j].pc \in {"begin", "fetch", "read", "write", "finish"}

\* Nothing is left of a deleted connection's rows, and every runner under way
\* has an active one.
RowsGone == ~exists => \A j \in Runs : status[j] = "absent"

RunnersActive == exists => \A j \in Runs : Busy(j) => j \in Active

\* A request writes, or deletes after a completed drain, while no row is active.
RequestsWait ==
  \A r \in Requests :
    \/ proc[r].pc \in {"fetch", "read", "write"}
    \/ proc[r].pc \in {"load", "delete"} /\ ~proc[r].late
    => Active = {}

\* What a writer, or a delete, has loaded is still the catalog.
SawAll == exists => \A a \in Actors : At(a, "write") => proc[a].saw = catalog

\* What the runner at its end has fetched is the catalog.
Stored ==
  exists => \A j \in Runs : At(j, "finish") /\ proc[j].fetched # {} => Names(catalog) = proc[j].fetched

StoreInv ==
  /\ ActiveInv /\ NothingLeft
  /\ RowsGone /\ RunnersActive /\ RequestsWait
  /\ OneRowPerTable /\ SawAll /\ Stored /\ DrainSuffices

\* Reading rows by name loads the whole catalog, if no name is there twice.
LEMMA ReadsAll ==
  ASSUME OneRowPerTable, NEW s \in SUBSET catalog, Names(s) = Names(catalog)
  PROVE  s = catalog
<1>1. ASSUME NEW p \in catalog PROVE p \in s
  <2>1. p[1] \in Names(s)
    BY DEF Names
  <2>2. PICK q \in s : q[1] = p[1]
    BY <2>1 DEF Names
  <2> QED BY <2>2 DEF OneRowPerTable
<1> QED BY <1>1

\* Writing what was fetched onto the whole catalog makes it what was fetched.
LEMMA WritesFetched ==
  ASSUME TypeOK, OneRowPerTable, NEW a \in Actors, proc[a].saw = catalog,
         NEW c, c = (catalog \ Vanished(a)) \cup Inserted(a)
  PROVE  /\ Names(c) = proc[a].fetched
         /\ \A p, q \in c : p[1] = q[1] => p = q
<1> DEFINE old == {p \in catalog : p[1] \in proc[a].fetched}
           fresh == {<<t, a>> : t \in proc[a].fetched \ Names(catalog)}
<1>1. c = old \cup fresh
  BY DEF Vanished, Inserted
<1>2. \A p \in old : p \in catalog /\ p[1] \in proc[a].fetched /\ p[1] \in Names(catalog)
  BY DEF Names
<1>3. \A p \in fresh : /\ p[1] \in proc[a].fetched /\ p[1] \notin Names(catalog)
                       /\ p = <<p[1], a>>
  OBVIOUS
<1>4. ASSUME NEW t \in proc[a].fetched PROVE \E p \in c : p[1] = t
  <2>1. CASE t \in Names(catalog)
    <3>1. PICK p \in catalog : p[1] = t
      BY <2>1 DEF Names
    <3> QED BY <1>1, <3>1
  <2>2. CASE t \notin Names(catalog)
    <3>1. <<t, a>> \in fresh /\ <<t, a>>[1] = t
      BY <2>2
    <3> QED BY <1>1, <3>1
  <2> QED BY <2>1, <2>2
<1>5. \A p \in c : p[1] \in proc[a].fetched
  BY <1>1, <1>2, <1>3
<1>6. Names(c) = proc[a].fetched
  <2> HIDE DEF old, fresh
  <2> QED BY <1>4, <1>5 DEF Names
<1>7. ASSUME NEW p \in c, NEW q \in c, p[1] = q[1] PROVE p = q
  <2> HIDE DEF old, fresh
  <2> QED BY <1>1, <1>2, <1>3, <1>7 DEF OneRowPerTable
<1> QED BY <1>6, <1>7

\* A process goes on without touching the catalog or any row but its own.
LEMMA StoreKept ==
  ASSUME StoreInv, ActiveInv', NothingLeft', UNCHANGED <<exists, catalog>>,
         NEW a \in Actors, NEW p \in Process, Continue(a, p),
         \A j \in Runs : status[j] = "absent" => status'[j] = "absent",
         Active' \subseteq Active, \A j \in Runs \ {a} : j \in Active => j \in Active',
         exists /\ a \in Runs /\ p.pc \in {"begin", "fetch", "read", "write", "finish"} => a \in Active',
         a \in Requests /\ p.pc \in {"fetch", "read", "write"} => Active = {},
         a \in Requests /\ p.pc \in {"load", "delete"} /\ ~p.late => Active = {},
         exists /\ p.pc = "write" => p.saw = catalog,
         exists /\ a \in Runs /\ p.pc = "finish" /\ p.fetched # {} => Names(catalog) = p.fetched,
         a \in Requests /\ p.pc = "delete" /\ ~p.late => catalog \subseteq p.saw
  PROVE  StoreInv'
<1>1. /\ Runs \subseteq Actors /\ Requests \subseteq Actors
      /\ proc \in [Actors -> Process]
  BY DEF Actors, StoreInv, ActiveInv, RunnerInv, TypeOK
<1>2. /\ proc'[a] = p \/ proc'[a] = Resting("done")
      /\ \A b \in Actors \ {a} : proc'[b] = proc[b]
  BY <1>1, GoesOn
<1>3. proc'[a].pc = "done" \/ proc'[a] = p
  BY <1>2 DEF Resting
<1>4. RowsGone'
  BY DEF StoreInv, RowsGone
<1>5. RunnersActive'
  <2> SUFFICES ASSUME exists, NEW j \in Runs, Busy(j)' PROVE j \in Active'
    BY DEF RunnersActive
  <2>1. CASE j = a
    BY <1>3, <2>1 DEF Busy
  <2>2. CASE j # a
    BY <1>1, <1>2, <2>2 DEF Busy, StoreInv, RunnersActive
  <2> QED BY <2>1, <2>2
<1>6. RequestsWait'
  <2> SUFFICES ASSUME NEW r \in Requests,
                      \/ proc'[r].pc \in {"fetch", "read", "write"}
                      \/ proc'[r].pc \in {"load", "delete"} /\ ~proc'[r].late
               PROVE  Active = {}
    BY DEF RequestsWait
  <2>1. CASE r = a
    BY <1>3, <2>1
  <2>2. CASE r # a
    BY <1>1, <1>2, <2>2 DEF StoreInv, RequestsWait
  <2> QED BY <2>1, <2>2
<1>7. OneRowPerTable'
  BY DEF StoreInv, OneRowPerTable
<1>8. SawAll'
  <2> SUFFICES ASSUME exists, NEW b \in Actors, At(b, "write")' PROVE proc'[b].saw = catalog
    BY DEF SawAll
  <2>1. CASE b = a
    BY <1>3, <2>1 DEF At
  <2>2. CASE b # a
    BY <1>2, <2>2 DEF At, StoreInv, SawAll
  <2> QED BY <2>1, <2>2
<1>9. Stored'
  <2> SUFFICES ASSUME exists, NEW j \in Runs, At(j, "finish")', proc'[j].fetched # {}
               PROVE  Names(catalog) = proc'[j].fetched
    BY DEF Stored
  <2>1. CASE j = a
    BY <1>3, <2>1 DEF At
  <2>2. CASE j # a
    BY <1>1, <1>2, <2>2 DEF At, StoreInv, Stored
  <2> QED BY <2>1, <2>2
<1>10. DrainSuffices'
  <2> SUFFICES ASSUME NEW r \in Requests, At(r, "delete")', ~proc'[r].late
               PROVE  catalog \subseteq proc'[r].saw
    BY DEF DrainSuffices, Clashes
  <2>1. CASE r = a
    BY <1>3, <2>1 DEF At
  <2>2. CASE r # a
    BY <1>1, <1>2, <2>2 DEF At, StoreInv, DrainSuffices, Clashes
  <2> QED BY <2>1, <2>2
<1> QED BY <1>4, <1>5, <1>6, <1>7, <1>8, <1>9, <1>10 DEF StoreInv

LEMMA StoreGoto ==
  ASSUME StoreInv, ActiveInv', NothingLeft', UNCHANGED <<exists, catalog>>,
         NEW a \in Actors, NEW l \in Labels, Goto(a, l),
         \A j \in Runs : status[j] = "absent" => status'[j] = "absent",
         Active' \subseteq Active, \A j \in Runs \ {a} : j \in Active => j \in Active',
         \/ l \in {"check", "insert", "idle", "done"}
         \/ l \in {"fetch", "load"} /\ a \in Requests /\ Active = {}
  PROVE  StoreInv'
<1>1. proc \in [Actors -> Process] /\ (a \in Requests => a \notin Runs)
  BY IndexingAssumption DEF StoreInv, ActiveInv, RunnerInv, TypeOK
<1> DEFINE p == [proc[a] EXCEPT !.pc = l]
<1>2. p \in Process /\ Continue(a, p) /\ p.pc = l
  BY <1>1, GotoGoesOn
<1> HIDE DEF p
<1> QED BY <1>1, <1>2, StoreKept

\* The steps of a request that touch neither the rows nor the catalog.
LEMMA StoreRequest ==
  ASSUME StoreInv, ActiveInv', NothingLeft', NEW r \in Requests,
         RequestStep(r) \/ TimeOut(r), ~Delete(r), ~Kick(r), ~(Insert(r) /\ exists)
  PROVE  StoreInv'
<1>0. /\ r \in Actors /\ r \notin Runs /\ proc[r] \in Process
      /\ status \in [Runs -> Status] /\ catalog \subseteq Row
  BY IndexingAssumption DEF Actors, StoreInv, ActiveInv, RunnerInv, TypeOK
<1>1. UNCHANGED <<exists, catalog>> /\ ~Look(r) /\ ~Cancel(r)
  BY DEF RequestStep, Look, Cancel, Stamp, Check, Insert, Wait, Drain, Load, Retry, TimeOut,
         StoreInv, ActiveInv, NobodyForces, At
<1>2. UNCHANGED status
  BY <1>1 DEF RequestStep, Stamp, Check, Insert, Wait, Drain, Load, Retry, TimeOut
<1>3. Active' = Active /\ \A j \in Runs : status'[j] = status[j]
  BY <1>2 DEF Active
<1>4. CASE Stamp(r) \/ Check(r) \/ Insert(r) \/ (Retry(r) /\ proc[r].again)
  <2>1. Goto(r, "check") \/ Goto(r, "insert") \/ Goto(r, "done")
    BY <1>4 DEF Stamp, Check, Insert, Retry
  <2> QED BY <1>0, <1>1, <1>3, <2>1, StoreGoto DEF Labels
<1>5. CASE Wait(r) \/ Drain(r)
  <2>1. Active = {} /\ (Goto(r, "fetch") \/ Goto(r, "load"))
    BY <1>5 DEF Wait, Drain
  <2> QED BY <1>0, <1>1, <1>3, <2>1, StoreGoto DEF Labels
<1>6. CASE Load(r)
  <2> DEFINE p == [proc[r] EXCEPT !.pc = IF exists THEN "delete" ELSE "done", !.saw = catalog]
  <2>1. /\ p \in Process /\ p.pc \in {"delete", "done"} /\ p.saw = catalog /\ p.late = proc[r].late
        /\ Continue(r, p) /\ proc[r].pc = "load"
    BY <1>0, <1>6 DEF Process, Labels, Load, At
  <2>2. ~p.late => Active = {}
    BY <2>1 DEF StoreInv, RequestsWait
  <2> HIDE DEF p
  <2> QED BY <1>0, <1>1, <1>3, <2>1, <2>2, StoreKept
<1>7. CASE Retry(r) /\ ~proc[r].again
  <2> DEFINE p == [Resting("drain") EXCEPT !.op = "delete", !.again = TRUE]
  <2>1. p \in Process /\ p.pc = "drain" /\ Continue(r, p)
    BY <1>7 DEF Resting, Process, OpKinds, Labels, Retry
  <2> HIDE DEF p
  <2> QED BY <1>0, <1>1, <1>3, <2>1, StoreKept
<1>8. CASE TimeOut(r)
  <2> DEFINE p == [proc[r] EXCEPT !.pc = IF @ = "wait" THEN "done" ELSE "load", !.late = TRUE]
  <2>1. p \in Process /\ p.pc \in {"done", "load"} /\ p.late /\ Continue(r, p)
    BY <1>0, <1>8 DEF Process, Labels, TimeOut
  <2> HIDE DEF p
  <2> QED BY <1>0, <1>1, <1>3, <2>1, StoreKept
<1> QED
  BY <1>1, <1>4, <1>5, <1>6, <1>7, <1>8 DEF RequestStep

LEMMA StoreArrive ==
  ASSUME StoreInv, ActiveInv', NothingLeft', "force" \notin Ops,
         NEW r \in Requests, NEW o \in Ops \ {"timeout", "crash"}, Arrive(r, o)
  PROVE  StoreInv'
<1>0. r \in Actors /\ r \notin Runs /\ o \in {"start", "sweep", "refresh", "delete"}
  BY IndexingAssumption DEF Actors, OpKinds
<1> DEFINE p == [Resting(FirstStep(o)) EXCEPT !.op = o, !.gated = gate]
<1>1. p \in Process /\ p.pc \in {"check", "stamp", "wait", "drain"}
  BY <1>0 DEF Resting, Process, OpKinds, FirstStep, Labels, StoreInv, ActiveInv, RunnerInv, TypeOK
<1>2. /\ Continue(r, p) /\ UNCHANGED <<exists, catalog>>
      /\ Active' = Active /\ \A j \in Runs : status'[j] = status[j]
  BY DEF Arrive, Active
<1> HIDE DEF p
<1> QED BY <1>0, <1>1, <1>2, StoreKept

\* A new row is committed while nobody writes.
LEMMA StoreInsert ==
  ASSUME StoreInv, ActiveInv', NothingLeft', NEW r \in Requests, Insert(r), exists
  PROVE  StoreInv'
<1>0. /\ r \in Actors /\ r \notin Runs /\ Runs \subseteq Actors /\ Requests \subseteq Actors
      /\ proc \in [Actors -> Process] /\ proc[r] \in Process
  BY IndexingAssumption DEF Actors, StoreInv, ActiveInv, RunnerInv, TypeOK
<1>1. PICK j \in Runs : Continue(r, [proc[r] EXCEPT !.pc = "kick", !.run = j])
  BY DEF Insert
<1>2. /\ proc'[r].pc = "kick"
      /\ \A b \in Actors \ {r} : proc'[b] = proc[b]
  <2>1. [proc[r] EXCEPT !.pc = "kick", !.run = j].pc = "kick"
    BY <1>0 DEF Process
  <2> QED BY <1>0, <1>1, <2>1 DEF Continue
<1>3. At(r, "insert") /\ Active = {} /\ exists' /\ UNCHANGED <<exists, catalog>>
  BY DEF Insert, StoreInv, ActiveInv, InsertsAlone
<1>4. \A q \in Requests \ {r} : proc'[q].pc \in {"idle", "done"}
  BY <1>0, <1>2, <1>3 DEF StoreInv, ActiveInv, OneInFlight, InFlight, At
<1>5. \A k \in Runs : ~Busy(k) /\ proc'[k] = proc[k]
  BY <1>0, <1>2, <1>3 DEF StoreInv, RunnersActive
<1>6. RowsGone' /\ RunnersActive'
  BY <1>3, <1>5 DEF RowsGone, RunnersActive, Busy
<1>7. RequestsWait' /\ DrainSuffices'
  BY <1>2, <1>4 DEF RequestsWait, DrainSuffices, At
<1>8. OneRowPerTable' /\ SawAll' /\ Stored'
  BY <1>0, <1>2, <1>3 DEF StoreInv, OneRowPerTable, SawAll, Stored, At
<1> QED BY <1>6, <1>7, <1>8 DEF StoreInv

\* Its runner is the only one: none was active, and nobody was writing.
LEMMA StoreKick ==
  ASSUME StoreInv, ActiveInv', NothingLeft', NEW r \in Requests, Kick(r)
  PROVE  StoreInv'
<1>0. /\ Runs \subseteq Actors /\ Requests \subseteq Actors /\ Requests \cap Runs = {}
      /\ proc \in [Actors -> Process] /\ proc[r].run \in Runs /\ At(r, "kick")
      /\ exists => status[proc[r].run] = "pending"
  BY IndexingAssumption
  DEF Actors, StoreInv, ActiveInv, RunnerInv, TypeOK, Kick, KicksUnbegun, KicksPending
<1>1. /\ proc'[r].pc = "done" /\ proc'[proc[r].run].pc = "begin"
      /\ \A b \in Actors \ {r, proc[r].run} : proc'[b] = proc[b]
      /\ UNCHANGED <<exists, catalog, status>>
  BY <1>0 DEF Kick, Resting
<1>2. \A q \in Requests \ {r} : proc'[q].pc \in {"idle", "done"}
  BY <1>0, <1>1 DEF StoreInv, ActiveInv, OneInFlight, InFlight, At
<1>3. RowsGone' /\ RunnersActive'
  BY <1>0, <1>1 DEF StoreInv, RowsGone, RunnersActive, Busy, Active
<1>4. RequestsWait' /\ DrainSuffices'
  BY <1>1, <1>2 DEF RequestsWait, DrainSuffices, At
<1>5. OneRowPerTable' /\ SawAll' /\ Stored'
  BY <1>0, <1>1 DEF StoreInv, OneRowPerTable, SawAll, Stored, At
<1> QED BY <1>3, <1>4, <1>5 DEF StoreInv

\* Who writes is alone: no other runner is under way, no request writes, and
\* none deletes after a completed drain.
LEMMA WritesAlone ==
  ASSUME StoreInv, exists, NEW a \in Actors, At(a, "write"), NEW b \in Actors \ {a}
  PROVE  /\ b \in Runs => ~Busy(b)
         /\ b \in Requests => /\ proc[b].pc \notin {"fetch", "read", "write"}
                              /\ proc[b].pc = "delete" => proc[b].late
<1>1. a \in Runs => a \in Active
  BY DEF StoreInv, RunnersActive, Busy, At
<1>2. a \in Requests => Active = {}
  BY DEF StoreInv, RequestsWait, At
<1>3. b \in Runs /\ Busy(b) => b \in Active
  BY DEF StoreInv, RunnersActive
<1>4. b \in Requests /\ (proc[b].pc \in {"fetch", "read", "write"} \/ (proc[b].pc = "delete" /\ ~proc[b].late))
        => Active = {} /\ InFlight(b)
  BY DEF StoreInv, RequestsWait, InFlight
<1>5. a \in Requests => InFlight(a)
  BY DEF At, InFlight
<1> QED
  BY <1>1, <1>2, <1>3, <1>4, <1>5
  DEF Actors, StoreInv, ActiveInv, OneActive, OneInFlight

LEMMA StoreWrite ==
  ASSUME StoreInv, ActiveInv', NothingLeft', NEW a \in Actors, Write(a)
  PROVE  StoreInv'
<1>0. /\ proc \in [Actors -> Process] /\ Runs \subseteq Actors /\ Requests \subseteq Actors
      /\ AfterRefresh(a) \in Labels /\ TypeOK /\ Requests \cap Runs = {}
  BY IndexingAssumption DEF StoreInv, ActiveInv, RunnerInv, TypeOK, Actors, AfterRefresh, Labels
<1>1. /\ At(a, "write") /\ exists /\ exists' /\ UNCHANGED status
      /\ catalog' = (catalog \ Vanished(a)) \cup Inserted(a)
  BY DEF Write
<1>2. proc[a].saw = catalog /\ OneRowPerTable
  BY <1>1 DEF StoreInv, SawAll
<1>3. Names(catalog') = proc[a].fetched /\ OneRowPerTable'
  <2>1. Names(catalog') = proc[a].fetched /\ \A p, q \in catalog' : p[1] = q[1] => p = q
    BY <1>0, <1>1, <1>2, WritesFetched
  <2> QED BY <2>1 DEF OneRowPerTable
<1> DEFINE p == [proc[a] EXCEPT !.pc = AfterRefresh(a)]
<1>4. /\ p.pc = AfterRefresh(a) /\ p.fetched = proc[a].fetched
      /\ proc'[a] = IF p.pc \in {"idle", "done"} THEN Resting("done") ELSE p
      /\ \A b \in Actors \ {a} : proc'[b] = proc[b]
  BY <1>0, GotoGoesOn, GoesOn DEF Write
<1> HIDE DEF p
<1>5. /\ a \in Runs => proc'[a].pc = "finish" /\ proc'[a].fetched = proc[a].fetched
      /\ a \in Requests => proc'[a].pc = "done"
  BY <1>0, <1>4 DEF AfterRefresh, Resting
<1>6. Active' = Active
  BY <1>1 DEF Active
<1>7. RowsGone' /\ RunnersActive'
  BY <1>0, <1>1, <1>4, <1>6 DEF RowsGone, RunnersActive, Busy, StoreInv, At
<1>8. RequestsWait'
  BY <1>0, <1>4, <1>5, <1>6 DEF RequestsWait, StoreInv
<1>9. SawAll'
  <2> SUFFICES ASSUME NEW b \in Actors, At(b, "write")' PROVE FALSE
    BY DEF SawAll
  <2>1. b # a
    BY <1>5 DEF At, Actors
  <2> QED BY <1>1, <1>4, <2>1, WritesAlone DEF At, Actors, Busy
<1>10. Stored'
  <2> SUFFICES ASSUME NEW j \in Runs, At(j, "finish")' PROVE Names(catalog') = proc'[j].fetched
    BY DEF Stored
  <2>1. CASE j = a
    BY <1>3, <1>5, <2>1
  <2>2. CASE j # a
    BY <1>0, <1>1, <1>4, <2>2, WritesAlone DEF At, Busy
  <2> QED BY <2>1, <2>2
<1>11. DrainSuffices'
  <2> SUFFICES ASSUME NEW r \in Requests, At(r, "delete")', ~proc'[r].late PROVE FALSE
    BY DEF DrainSuffices
  <2>1. r # a
    BY <1>5 DEF At
  <2> QED BY <1>0, <1>1, <1>4, <2>1, WritesAlone DEF At
<1> QED BY <1>3, <1>7, <1>8, <1>9, <1>10, <1>11 DEF StoreInv

LEMMA StoreDelete ==
  ASSUME StoreInv, ActiveInv', NothingLeft', NEW r \in Requests, Delete(r)
  PROVE  StoreInv'
<1>1. ~exists' /\ catalog' = {} /\ \A j \in Runs : status'[j] = "absent"
  BY DEF Delete
<1>2. Active' = {}
  BY <1>1 DEF Active
<1> QED
  BY <1>1, <1>2 DEF StoreInv, RowsGone, RunnersActive, RequestsWait, OneRowPerTable, SawAll,
                    Stored, DrainSuffices, Clashes

LEMMA StoreRun ==
  ASSUME StoreInv, ActiveInv', NothingLeft', NEW j \in Runs, RunStep(j)
  PROVE  StoreInv'
<1>0. /\ j \in Actors /\ j \notin Requests /\ proc[j] \in Process
      /\ status \in [Runs -> Status] /\ UNCHANGED <<exists, catalog>>
  BY IndexingAssumption
  DEF Actors, StoreInv, ActiveInv, RunnerInv, TypeOK, RunStep, Begin, Finish, FailLate
<1>1. CASE Begin(j) /\ status[j] # "absent"
  <2>1. status[j] = "pending"
    BY <1>1 DEF Begin, StoreInv, ActiveInv, BeginsPending
  <2>2. status'[j] = "running" /\ \A k \in Runs \ {j} : status'[k] = status[k]
    BY <1>0, <1>1 DEF Begin
  <2>3. Active' = Active /\ j \in Active'
    BY <2>1, <2>2 DEF Active
  <2> DEFINE p == [proc[j] EXCEPT !.pc = "fetch", !.gated = gate]
  <2>4. p \in Process /\ p.pc = "fetch"
    BY <1>0, ZenonT(60) DEF Process, Labels, StoreInv, ActiveInv, RunnerInv, TypeOK
  <2>5. Continue(j, p)
    BY <1>1 DEF Begin
  <2> HIDE DEF p
  <2> QED BY <1>0, <2>1, <2>2, <2>3, <2>4, <2>5, StoreKept
<1>2. CASE ~(Begin(j) /\ status[j] # "absent")
  <2>1. Goto(j, "idle") /\ (UNCHANGED status \/ Set(j, "completed") \/ Set(j, "failed"))
    BY <1>2 DEF RunStep, Begin, Finish, FailLate
  <2>2. /\ Active' \subseteq Active /\ \A k \in Runs \ {j} : status'[k] = status[k]
        /\ status[j] = "absent" => status'[j] = "absent"
    BY <1>0, <2>1, SetActive DEF Terminal, Active, Set
  <2>3. \A k \in Runs \ {j} : k \in Active => k \in Active'
    BY <2>2 DEF Active
  <2> QED BY <1>0, <2>1, <2>2, <2>3, StoreGoto DEF Labels
<1> QED BY <1>1, <1>2

LEMMA StoreRefresh ==
  ASSUME StoreInv, ActiveInv', NothingLeft', NEW a \in Actors,
         Fetch(a) \/ Read(a) \/ Fail(a) \/ Crash(a)
  PROVE  StoreInv'
<1>0. /\ proc[a] \in Process /\ status \in [Runs -> Status] /\ UNCHANGED <<exists, catalog>>
      /\ Requests \cap Runs = {} /\ upstream \in SUBSET Tables /\ catalog \subseteq Row
  BY IndexingAssumption DEF Actors, StoreInv, ActiveInv, RunnerInv, TypeOK, Fetch, Read, Fail, Crash
<1>1. CASE Fetch(a) \/ Read(a)
  <2>1. UNCHANGED status /\ Active' = Active /\ proc[a].pc \in {"fetch", "read"}
    BY <1>1 DEF Fetch, Read, At, Active
  <2>2. (exists /\ a \in Runs => a \in Active') /\ (a \in Requests => Active = {})
    BY <2>1 DEF StoreInv, RunnersActive, Busy, RequestsWait
  <2>3. CASE Fetch(a)
    <3> DEFINE p == [proc[a] EXCEPT !.pc = IF upstream = {} THEN AfterRefresh(a) ELSE "read",
                                    !.fetched = upstream]
    <3>1. /\ p \in Process /\ p.fetched = upstream
          /\ p.pc \in {"read", "finish", "done"} /\ (p.pc = "finish" => upstream = {})
      BY <1>0 DEF Process, Labels, AfterRefresh
    <3>2. Continue(a, p)
      BY <2>3 DEF Fetch
    <3> HIDE DEF p
    <3> QED BY <1>0, <2>1, <2>2, <3>1, <3>2, StoreKept
  <2>4. CASE Read(a)
    <3>1. PICK s \in SUBSET catalog : /\ Names(s) = Names(catalog)
                                      /\ Continue(a, [proc[a] EXCEPT !.pc = "write", !.saw = s])
      BY <2>4 DEF Read
    <3>2. s = catalog
      BY <3>1, ReadsAll DEF StoreInv
    <3> DEFINE p == [proc[a] EXCEPT !.pc = "write", !.saw = s]
    <3>3. p \in Process /\ p.pc = "write" /\ p.saw = catalog
      BY <1>0, <3>2 DEF Process, Labels
    <3>4. Continue(a, p)
      BY <3>1
    <3> HIDE DEF p
    <3> QED BY <1>0, <2>1, <2>2, <3>3, <3>4, StoreKept
  <2> QED BY <1>1, <2>3, <2>4
<1>2. CASE Fail(a) \/ Crash(a)
  <2>1. Goto(a, "done") /\ (UNCHANGED status \/ (a \in Runs /\ Set(a, "failed")))
    BY <1>2 DEF Fail, Crash
  <2>2. /\ Active' \subseteq Active /\ \A k \in Runs \ {a} : status'[k] = status[k]
        /\ a \in Runs /\ status[a] = "absent" => status'[a] = "absent"
    BY <1>0, <2>1, SetActive DEF Terminal, Active, Set
  <2>3. \A k \in Runs \ {a} : k \in Active => k \in Active'
    BY <2>2 DEF Active
  <2>4. \A k \in Runs : status[k] = "absent" => status'[k] = "absent"
    BY <2>2
  <2> QED BY <1>0, <2>1, <2>2, <2>3, <2>4, StoreGoto DEF Labels
<1> QED BY <1>1, <1>2

LEMMA StoreStep ==
  ASSUME StoreInv, [Next]_vars, Serial, "force" \notin Ops
  PROVE  StoreInv'
<1>0. ActiveInv' /\ NothingLeft'
  BY ActiveStep, OrphanStep DEF StoreInv, OrphanInv, ActiveInv, RunnerInv
<1>1. CASE UNCHANGED <<exists, catalog, status, proc>>
  BY <1>0, <1>1 DEF StoreInv, RowsGone, RunnersActive, Busy, RequestsWait, OneRowPerTable, SawAll,
                    Stored, DrainSuffices, Clashes, Active, At
<1>2. ChangeUpstream \/ IntervalElapses \/ UNCHANGED vars
        => UNCHANGED <<exists, catalog, status, proc>>
  BY DEF ChangeUpstream, IntervalElapses, vars
<1>3. ASSUME NEW r \in Requests, RequestStep(r) \/ TimeOut(r) PROVE StoreInv'
  BY <1>0, <1>3, StoreRequest, StoreInsert, StoreKick, StoreDelete
<1>4. ASSUME NEW a \in Actors, RefreshStep(a) \/ Crash(a) PROVE StoreInv'
  BY <1>0, <1>4, StoreWrite, StoreRefresh DEF RefreshStep
<1> QED
  BY <1>0, <1>1, <1>2, <1>3, <1>4, StoreArrive, StoreRun DEF Next

LEMMA StoreInit == Init => StoreInv
<1> SUFFICES ASSUME Init PROVE StoreInv
  OBVIOUS
<1>1. \A a \in Actors : proc[a].pc = "idle"
  BY DEF Init, Resting
<1>2. Runs \subseteq Actors /\ Requests \subseteq Actors /\ exists /\ catalog = {}
  BY DEF Actors, Init
<1> QED
  BY <1>1, <1>2, ActiveInit
  DEF StoreInv, NothingLeft, RowsGone, RunnersActive, Busy, RequestsWait, OneRowPerTable, SawAll,
      Stored, DrainSuffices, At

\* What requests that do not overlap and never force keep, with the runners in
\* the background, timeouts and crashes.
LEMMA StoreHolds == Serial /\ "force" \notin Ops => (Spec => []StoreInv)
<1> SUFFICES ASSUME Serial, "force" \notin Ops PROVE Spec => []StoreInv
  OBVIOUS
<1>1. StoreInv /\ [Next]_vars => StoreInv'
  BY StoreStep
<1> QED BY <1>1, StoreInit, PTL DEF Spec

\* The catalog lists no table twice, though several sessions insert tables.
THEOREM SerialOneRowPerTable == Serial /\ "force" \notin Ops => (Spec => []OneRowPerTable)
<1>1. StoreInv => OneRowPerTable
  BY DEF StoreInv
<1> QED BY <1>1, StoreHolds, PTL

\* No writer adds a table between the load and the commit of a delete that has
\* drained the indexer.
THEOREM SerialDrainSuffices == Serial /\ "force" \notin Ops => (Spec => []DrainSuffices)
<1>1. StoreInv => DrainSuffices
  BY DEF StoreInv
<1> QED BY <1>1, StoreHolds, PTL

\* Only a runner at its end marks its row completed, if the row is still there.
LEMMA Completes ==
  ASSUME StoreInv, Next, NEW j \in Runs, status[j] # "completed", status'[j] = "completed"
  PROVE  At(j, "finish") /\ status[j] # "absent"
<1>0. status \in [Runs -> Status] /\ j \in Actors
  BY DEF StoreInv, ActiveInv, RunnerInv, TypeOK, Actors
<1>1. ASSUME NEW k \in Runs, NEW s \in {"completed", "failed"}, Set(k, s)
      PROVE  k = j /\ s = "completed" /\ status[j] # "absent"
  BY <1>0, <1>1 DEF Set
<1>2. ASSUME NEW r \in Requests, RequestStep(r) \/ TimeOut(r)
      PROVE  FALSE
  BY <1>0, <1>2 DEF RequestStep, Look, Cancel, Stamp, Check, Insert, Kick, Wait, Drain, Load,
                    Retry, Delete, TimeOut
<1>3. ASSUME NEW r \in Requests, NEW o \in Ops, Arrive(r, o) PROVE FALSE
  BY <1>3 DEF Arrive
<1>4. ASSUME NEW a \in Actors, RefreshStep(a) \/ Crash(a) PROVE FALSE
  BY <1>1, <1>4 DEF RefreshStep, Fetch, Read, Write, Fail, Crash
<1>5. ASSUME NEW k \in Runs, RunStep(k) PROVE At(j, "finish") /\ status[j] # "absent"
  <2>1. CASE Begin(k)
    BY <1>0, <2>1 DEF Begin
  <2>2. CASE Finish(k)
    BY <1>1, <2>2 DEF Finish
  <2>3. CASE FailLate(k)
    BY <1>1, <2>3 DEF FailLate
  <2> QED BY <1>5, <2>1, <2>2, <2>3 DEF RunStep
<1>6. ~(ChangeUpstream \/ IntervalElapses)
  BY DEF ChangeUpstream, IntervalElapses
<1> QED BY <1>2, <1>3, <1>4, <1>5, <1>6 DEF Next

\* A run that is marked completed has stored exactly what it fetched: no other
\* writer got in between.
THEOREM SerialCompletedIsStored == Serial /\ "force" \notin Ops => (Spec => CompletedIsStored)
<1> SUFFICES ASSUME Serial, "force" \notin Ops PROVE Spec => CompletedIsStored
  OBVIOUS
<1>1. StoreInv /\ [Next]_vars =>
        [\A j \in Runs :
           status[j] # "completed" /\ status'[j] = "completed" /\ proc[j].fetched # {}
             => Names(catalog) = proc[j].fetched]_vars
  <2> SUFFICES ASSUME StoreInv, Next, NEW j \in Runs, status[j] # "completed",
                      status'[j] = "completed", proc[j].fetched # {}
               PROVE  Names(catalog) = proc[j].fetched
    OBVIOUS
  <2>1. At(j, "finish") /\ status[j] # "absent"
    BY Completes
  <2> QED BY <2>1 DEF StoreInv, RowsGone, Stored
<1> QED BY <1>1, StoreHolds, PTL DEF Spec, CompletedIsStored
=============================================================================
