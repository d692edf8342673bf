-------------------------- MODULE ConnectionIndexing --------------------------
(***************************************************************************)
(* Schema discovery of one connection (ConnectionIndexingService and the   *)
(* code around it).  Requests and the periodic sweep create indexing rows; *)
(* each row has a background runner with its own database session, which   *)
(* fetches the upstream schema and stores it as ConnectionTable rows.      *)
(* Nothing but the status column ties a row, its runner and the requests   *)
(* that wait for it together, and no constraint keeps rows unique.         *)
(*                                                                         *)
(* The database is PostgreSQL: foreign keys are enforced.                  *)
(***************************************************************************)
EXTENDS Naturals, FiniteSets

CONSTANTS
  Tables,     \* the tables the upstream source may have
  Requests,   \* HTTP requests and sweeps, each served once
  MaxRuns,    \* bound: indexing rows that can be created
  Ops,        \* the operations requests perform and the faults, a subset of OpKinds
  Serial      \* TRUE: a request starts only when no other is in flight

OpKinds == {"start", "force", "sweep", "refresh", "delete", "timeout", "crash"}

Runs == 1 .. MaxRuns

ASSUME IndexingAssumption ==
  /\ MaxRuns \in Nat \ {0}
  /\ Requests \cap Runs = {}
  /\ Ops \subseteq OpKinds
  /\ Serial \in BOOLEAN

\* A run or a synchronous refresh writes tables; a row is told by its table
\* and by who inserted it, since nobody inserts the same table twice.
Actors == Runs \cup Requests
Row == Tables \X Actors

Status == {"absent", "pending", "running", "completed", "failed", "cancelled"}
Terminal == {"completed", "failed", "cancelled"}

VARIABLES
  upstream,   \* the tables the source has now
  exists,     \* the connection has not been deleted
  catalog,    \* its ConnectionTable rows
  status,     \* Runs -> the status of each ConnectionIndexing row
  stale,      \* its interval has elapsed since last_synced_at
  gate,       \* next_retry_at lies in the future
  kicks,      \* history: the sweeps that have started a run since the interval began
  unclaimed,  \* history: the sweeps that came in while another was in flight
  crashed,    \* history: the runs that have died
  proc        \* Actors -> where each request or runner is and what it remembers

sweeps == <<kicks, unclaimed>>
schedule == <<stale, gate, sweeps>>
connection == <<upstream, exists>>
vars == <<upstream, exists, catalog, status, schedule, crashed, proc>>

Labels == {"idle", "begin", "fetch", "read", "write", "finish",
           "look", "cancel", "stamp", "check", "insert", "kick", "wait", "drain", "load", "delete", "done"}

Process == [pc : Labels, op : OpKinds \cup {"none"},
            run : Runs \cup {0},       \* the row it cancels, or the one it has inserted
            fetched : SUBSET Tables,   \* what the source answered
            saw : SUBSET Row,          \* the rows its session has loaded
            gated : BOOLEAN,           \* gate, when its session loaded the connection
            late : BOOLEAN,            \* it stopped waiting for the indexing
            again : BOOLEAN]           \* it deletes for the second time

Resting(l) == [pc |-> l, op |-> "none", run |-> 0, fetched |-> {}, saw |-> {},
               gated |-> FALSE, late |-> FALSE, again |-> FALSE]

Active == {j \in Runs : status[j] \in {"pending", "running"}}

Names(s) == {p[1] : p \in s}

InFlight(a) == proc[a].pc \notin {"idle", "done"}

At(a, l) == proc[a].pc = l

\* a goes on with the local state p; when it is done it forgets everything.
Continue(a, p) ==
  proc' = [proc EXCEPT ![a] = IF p.pc \in {"idle", "done"} THEN Resting("done") ELSE p]

Goto(a, l) == Continue(a, [proc[a] EXCEPT !.pc = l])
-----------------------------------------------------------------------------
\* A connection that has just been created: never synced, hence due.
Init ==
  /\ upstream \in SUBSET Tables
  /\ exists = TRUE
  /\ catalog = {}
  /\ status = [j \in Runs |-> "absent"]
  /\ stale = TRUE
  /\ gate = FALSE
  /\ kicks = {} /\ unclaimed = {}
  /\ crashed = {}
  /\ proc = [a \in Actors |-> Resting("idle")]

\* The source changes its schema whenever it likes.
ChangeUpstream ==
  /\ upstream' \in SUBSET Tables
  /\ UNCHANGED <<exists, catalog, status, schedule, crashed, proc>>

Sweeping(r) == InFlight(r) /\ proc[r].op = "sweep"

\* The reindex interval elapses: the catalog is stale and the gate is open.  It
\* takes ten minutes at least, which no sweep takes to start its runs.
IntervalElapses ==
  /\ \A r \in Requests : ~Sweeping(r)
  /\ stale' = TRUE
  /\ gate' = FALSE
  /\ kicks' = {} /\ unclaimed' = {}
  /\ UNCHANGED <<connection, catalog, status, crashed, proc>>
-----------------------------------------------------------------------------
FirstStep(o) ==
  CASE o = "start" -> "check"
    [] o = "force" -> "look"
    [] o = "sweep" -> "stamp"
    [] o = "refresh" -> "wait"
    [] o = "delete" -> "drain"

\* Fault: the sweep forgets the backoff gate.
DueUngated == stale

\* The connection's schedule makes it due, and no earlier attempt holds it back.
Due == stale /\ ~gate

\* Every request first loads the connection; a sweep goes on only when it is
\* due.  Workers claim a tick before they sweep, but by their own clocks, and
\* whoever cannot reach the table of claims sweeps all the same: two sweeps may
\* be in flight at once.
Arrive(r, o) ==
  /\ o \in Ops
  /\ At(r, "idle")
  /\ exists
  /\ Serial => \A q \in Requests : ~InFlight(q)
  /\ o = "sweep" => Due
  /\ unclaimed' = IF o = "sweep" /\ \E q \in Requests : Sweeping(q)
                  THEN unclaimed \cup {r} ELSE unclaimed
  /\ Continue(r, [Resting(FirstStep(o)) EXCEPT !.op = o, !.gated = gate])
  /\ UNCHANGED <<connection, catalog, status, stale, gate, kicks, crashed>>

\* A forced reindex reads the newest active row ...
Look(r) ==
  /\ At(r, "look")
  /\ \/ Active = {} /\ Goto(r, "check")
     \/ \E j \in Active :
          /\ \A k \in Active : k <= j
          /\ Continue(r, [proc[r] EXCEPT !.pc = "cancel", !.run = j])
  /\ UNCHANGED <<connection, catalog, status, schedule, crashed>>

\* ... and marks it cancelled, whatever has become of it; nobody tells its runner.
Cancel(r) ==
  /\ At(r, "cancel")
  /\ IF status[proc[r].run] = "absent"   \* deleted with the connection: the UPDATE fails
     THEN Goto(r, "done") /\ UNCHANGED status
     ELSE Goto(r, "check") /\ status' = [status EXCEPT ![proc[r].run] = "cancelled"]
  /\ UNCHANGED <<connection, catalog, schedule, crashed>>

\* The sweep closes the gate before it starts anything.
Stamp(r) ==
  /\ At(r, "stamp")
  /\ gate' = (gate \/ exists)
  /\ Goto(r, IF exists THEN "check" ELSE "done")
  /\ UNCHANGED <<connection, catalog, status, stale, sweeps, crashed>>

\* Fault: start does not look for a run that is under way.
CheckNothing(r) ==
  /\ At(r, "check")
  /\ Goto(r, "insert")
  /\ UNCHANGED <<connection, catalog, status, schedule, crashed>>

\* start returns the active row, if there is one.
Check(r) ==
  /\ At(r, "check")
  /\ Goto(r, IF Active = {} THEN "insert" ELSE "done")
  /\ UNCHANGED <<connection, catalog, status, schedule, crashed>>

Unused(j) == status[j] = "absent" /\ At(j, "idle")

\* A pending row is committed.  The insert fails when the connection is gone.
Insert(r) ==
  /\ At(r, "insert")
  /\ IF ~exists
     THEN Goto(r, "done") /\ UNCHANGED <<status, kicks>>
     ELSE \E j \in Runs :
            /\ Unused(j) /\ \A k \in Runs : Unused(k) => j <= k
            /\ status' = [status EXCEPT ![j] = "pending"]
            /\ Continue(r, [proc[r] EXCEPT !.pc = "kick", !.run = j])
            /\ kicks' = IF proc[r].op = "sweep" THEN kicks \cup {r} ELSE kicks
  /\ UNCHANGED <<connection, catalog, stale, gate, unclaimed, crashed>>

\* Its runner is handed to the background loop, whatever has become of the row.
Kick(r) ==
  /\ At(r, "kick")
  /\ proc' = [proc EXCEPT ![r] = Resting("done"), ![proc[r].run] = Resting("begin")]
  /\ UNCHANGED <<connection, catalog, status, schedule, crashed>>
-----------------------------------------------------------------------------
\* Fault: a misspelt status.
BeginMisspelt(j) ==
  /\ At(j, "begin")
  /\ status' = [status EXCEPT ![j] = "started"]
  /\ Goto(j, "fetch")
  /\ UNCHANGED <<connection, catalog, schedule, crashed>>

\* The runner marks its row running without looking at it.
Begin(j) ==
  /\ At(j, "begin")
  /\ IF status[j] = "absent"
     THEN Goto(j, "idle") /\ UNCHANGED status
     ELSE /\ status' = [status EXCEPT ![j] = "running"]
          /\ Continue(j, [proc[j] EXCEPT !.pc = "fetch", !.gated = gate])
  /\ UNCHANGED <<connection, catalog, schedule, crashed>>

\* refresh_schema, in a runner or in a request: after it, a runner finishes.
AfterRefresh(a) == IF a \in Runs THEN "finish" ELSE "done"

\* An empty answer leaves the catalog as it is.
Fetch(a) ==
  /\ At(a, "fetch")
  /\ Continue(a, [proc[a] EXCEPT !.pc = IF upstream = {} THEN AfterRefresh(a) ELSE "read",
                                !.fetched = upstream])
  /\ UNCHANGED <<connection, catalog, status, schedule, crashed>>

\* The existing rows are keyed by name: of two rows with one name the last wins.
Read(a) ==
  /\ At(a, "read")
  /\ \E s \in SUBSET catalog :
       /\ Names(s) = Names(catalog)
       /\ Cardinality(s) = Cardinality(Names(s))
       /\ Continue(a, [proc[a] EXCEPT !.pc = "write", !.saw = s])
  /\ UNCHANGED <<connection, catalog, status, schedule, crashed>>

Inserted(a) == {<<t, a>> : t \in proc[a].fetched \ Names(proc[a].saw)}

Vanished(a) == {p \in proc[a].saw : p[1] \notin proc[a].fetched}

\* Fault: tables that no longer exist upstream stay in the catalog.
WriteAddOnly(a) ==
  /\ At(a, "write")
  /\ exists
  /\ catalog' = catalog \cup Inserted(a)
  /\ stale' = FALSE
  /\ gate' = (gate /\ ~proc[a].gated)
  /\ Goto(a, AfterRefresh(a))
  /\ UNCHANGED <<connection, status, sweeps, crashed>>

\* One commit inserts, updates and deletes, and stamps the connection; the gate
\* is cleared only if it was closed when the session loaded the connection.
\* With the connection gone, the statement fails (Fail).
Write(a) ==
  /\ At(a, "write")
  /\ exists
  /\ catalog' = (catalog \ Vanished(a)) \cup Inserted(a)
  /\ stale' = FALSE
  /\ gate' = (gate /\ ~proc[a].gated)
  /\ Goto(a, AfterRefresh(a))
  /\ UNCHANGED <<connection, status, sweeps, crashed>>

Set(j, s) == status' = IF status[j] = "absent" THEN status ELSE [status EXCEPT ![j] = s]

\* The run is marked completed, whatever its row says by then.
Finish(j) ==
  /\ At(j, "finish")
  /\ Set(j, "completed")
  /\ Goto(j, "idle")
  /\ UNCHANGED <<connection, catalog, schedule, crashed>>

\* Fault: an error of the upstream source is logged but not recorded.
FailUnrecorded(a) ==
  /\ proc[a].pc \in {"fetch", "read", "write"}
  /\ Goto(a, "done")
  /\ UNCHANGED <<connection, catalog, status, schedule, crashed>>

\* The source, a statement or a constraint fails: a request answers 500, a
\* runner records the failure on its row.
Fail(a) ==
  /\ proc[a].pc \in {"fetch", "read", "write"}
  /\ IF a \in Runs THEN Set(a, "failed") ELSE UNCHANGED status
  /\ Goto(a, "done")
  /\ UNCHANGED <<connection, catalog, schedule, crashed>>

\* The last-ditch guard around a runner does not overwrite a terminal status.
FailLate(j) ==
  /\ proc[j].pc \in {"begin", "finish"}
  /\ IF status[j] \in Terminal THEN UNCHANGED status ELSE Set(j, "failed")
  /\ Goto(j, "idle")
  /\ UNCHANGED <<connection, catalog, schedule, crashed>>
-----------------------------------------------------------------------------
\* Fault: a data-source refresh does not wait for the indexing.
WaitNothing(r) ==
  /\ At(r, "wait")
  /\ Goto(r, "fetch")
  /\ UNCHANGED <<connection, catalog, status, schedule, crashed>>

\* A data-source refresh waits until no row is active, then refreshes in its
\* own session, without a row of its own.
Wait(r) ==
  /\ At(r, "wait")
  /\ Active = {}
  /\ Goto(r, "fetch")
  /\ UNCHANGED <<connection, catalog, status, schedule, crashed>>

\* Fault: the connection is deleted without draining the indexer.
DrainNothing(r) ==
  /\ At(r, "drain")
  /\ Goto(r, "load")
  /\ UNCHANGED <<connection, catalog, status, schedule, crashed>>

Drain(r) ==
  /\ At(r, "drain")
  /\ Active = {}
  /\ Goto(r, "load")
  /\ UNCHANGED <<connection, catalog, status, schedule, crashed>>

\* Fault: draining has no deadline.
TimeOutWaiting(r) ==
  /\ "timeout" \in Ops
  /\ At(r, "wait")
  /\ Active # {}
  /\ Continue(r, [proc[r] EXCEPT !.pc = "done", !.late = TRUE])
  /\ UNCHANGED <<connection, catalog, status, schedule, crashed>>

\* Waiting is given up after ten minutes (504), draining after two (go on).
TimeOut(r) ==
  /\ "timeout" \in Ops
  /\ proc[r].pc \in {"wait", "drain"}
  /\ Active # {}
  /\ Continue(r, [proc[r] EXCEPT !.pc = IF @ = "wait" THEN "done" ELSE "load", !.late = TRUE])
  /\ UNCHANGED <<connection, catalog, status, schedule, crashed>>

\* 404 when another request has deleted the connection meanwhile.
Load(r) ==
  /\ At(r, "load")
  /\ Continue(r, [proc[r] EXCEPT !.pc = IF exists THEN "delete" ELSE "done", !.saw = catalog])
  /\ UNCHANGED <<connection, catalog, status, schedule, crashed>>

\* A row the session has not loaded holds the connection (foreign key): the
\* delete drains the indexer again and retries once.
Clashes(r) == ~(catalog \subseteq proc[r].saw)

Retry(r) ==
  /\ At(r, "delete") /\ exists /\ Clashes(r)
  /\ IF proc[r].again
     THEN Goto(r, "done")
     ELSE Continue(r, [Resting("drain") EXCEPT !.op = "delete", !.again = TRUE])
  /\ UNCHANGED <<connection, catalog, status, schedule, crashed>>

\* The cascade takes the loaded tables and every indexing row along.
Delete(r) ==
  /\ At(r, "delete") /\ ~Clashes(r)
  /\ exists' = FALSE
  /\ catalog' = {}
  /\ status' = [j \in Runs |-> "absent"]
  /\ Goto(r, "done")
  /\ UNCHANGED <<upstream, schedule, crashed>>

\* A run dies with its runner, or with the request that was to start it.
Dead(a) == Runs \cap IF At(a, "kick") THEN {proc[a].run} ELSE {a}

\* A request or a runner dies: its process is killed, the row cannot be read back
\* before its runner is started, or the database is down when the runner wants to
\* record its failure.  Nothing looks after its row.
Crash(a) ==
  /\ "crash" \in Ops
  /\ InFlight(a)
  /\ crashed' = crashed \cup Dead(a)
  /\ Goto(a, "done")
  /\ UNCHANGED <<connection, catalog, status, schedule>>
-----------------------------------------------------------------------------
RequestStep(r) ==
  \/ Look(r) \/ Cancel(r) \/ Stamp(r) \/ Check(r) \/ Insert(r) \/ Kick(r)
  \/ Wait(r) \/ Drain(r) \/ Load(r) \/ Retry(r) \/ Delete(r)

RefreshStep(a) == Fetch(a) \/ Read(a) \/ Write(a) \/ Fail(a)

RunStep(j) == Begin(j) \/ Finish(j) \/ FailLate(j)

Next ==
  \/ ChangeUpstream
  \/ IntervalElapses
  \/ \E r \in Requests : RequestStep(r) \/ TimeOut(r) \/ \E o \in Ops \ {"timeout", "crash"} : Arrive(r, o)
  \/ \E j \in Runs : RunStep(j)
  \/ \E a \in Actors : RefreshStep(a) \/ Crash(a)

Spec == Init /\ [][Next]_vars

\* A request goes on with its own statements, and stops waiting at its deadline.
\* Runners and sources owe nothing: no time limit is set on what they do.
Fairness == \A r \in Requests : WF_vars(RequestStep(r) \/ TimeOut(r))

FairSpec == Spec /\ Fairness
-----------------------------------------------------------------------------
TypeOK ==
  /\ upstream \in SUBSET Tables
  /\ exists \in BOOLEAN
  /\ catalog \subseteq Row
  /\ status \in [Runs -> Status]
  /\ stale \in BOOLEAN
  /\ gate \in BOOLEAN
  /\ kicks \subseteq Requests /\ unclaimed \subseteq Requests
  /\ crashed \subseteq Runs
  /\ proc \in [Actors -> Process]

\* At most one pending or running row per connection: nothing but the check in
\* start keeps it.
OneActive == \A j, k \in Active : j = k

\* The catalog lists a table once, though no constraint says so and several
\* sessions insert tables.
OneRowPerTable == \A p, q \in catalog : p[1] = q[1] => p = q

\* When a run is marked completed, the catalog is what that run has fetched: no
\* other writer got in between, nothing is missing and nothing is left over.
CompletedIsStored ==
  [][\A j \in Runs :
       status[j] # "completed" /\ status'[j] = "completed" /\ proc[j].fetched # {}
         => Names(catalog) = proc[j].fetched]_vars

\* Draining is enough: when a delete has waited for the indexing to end, no
\* writer adds a table between its load and its commit.
DrainSuffices ==
  \A r \in Requests : At(r, "delete") /\ ~proc[r].late => ~Clashes(r)

\* However attempts end (failure, empty schema, crash), no two sweeps start a run
\* in one interval, but for those that came in while another was in flight: a tick
\* that several workers run costs one run for each of them at most.
BackoffHolds == \A q, r \in kicks \ unclaimed : q = r

\* A cancelled row stays cancelled: its runner is not heard any more.
CancelledIsFinal ==
  [][\A j \in Runs : status[j] = "cancelled" => status'[j] \in {"cancelled", "absent"}]_vars

\* A pending or running row is never abandoned: its runner works on it or is about
\* to be started, unless it has died.  Overlapping starts, forced reindexes and
\* deletes included.
ActiveHasRunner ==
  \A j \in Active :
    \/ InFlight(j)
    \/ \E r \in Requests : At(r, "kick") /\ proc[r].run = j
    \/ j \in crashed

\* Whoever waits for the indexing to end gets on, even if the source never answers
\* the runner: a refresh asks the source itself or gives up, a delete ends.
WaitersGetOn ==
  \A r \in Requests : proc[r].pc \in {"wait", "drain"} ~> (At(r, "fetch") \/ ~InFlight(r))
=============================================================================
