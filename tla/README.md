# Verification of bagofwords

bagofwords is an AI analyst: agents answer questions over an organization's data sources,
guided by *instructions* that people and agents edit. The backend (`backend/app`, Python,
FastAPI, SQLAlchemy async sessions over SQLite or PostgreSQL) runs as several worker
processes and keeps its state in the database. Nearly all of its coordination is done by
reading rows, deciding, and writing rows in later statements or commits; there are almost
no locks and few constraints. This project models the parts where that matters.

Contents: [inventory](#inventory), [plan](#plan), [instruction builds](#instruction-builds),
[connection indexing](#connection-indexing), [usage quota](#usage-quota),
[completions and agent runs](#completions-and-agent-runs),
[review feed and automation](#review-feed-and-automation), [runs](#runs),
[where code and comments disagree](#where-code-and-comments-disagree), [proofs](#proofs),
[what the models leave out](#what-the-models-leave-out).

## Inventory

| Component | State | Operations | Interacts with |
|---|---|---|---|
| Instruction builds (`services/build_service.py`) | `instruction_builds` (status, source, is_main, base), `build_contents` | create, edit contents, submit, approve, reject, publish with merge, promote, rollback, diff | routes, instruction edits, learning agents, git sync |
| Instruction edits (`services/instruction_service.py`) | `instructions`, `instruction_versions` | create, update, revert, delete, bulk edits, hunk accept/reject | puts versions into draft builds and finalizes them |
| Learning agents (`services/agent_reliability_service.py`) | `agent_automation_runs`, policies | evaluate a suggestion, promote on green, fix loop | test runs, builds |
| Connection indexing (`services/connection_indexing_service.py`) | `connection_indexings`, `connection_tables` | start, run, wait, force, progress | routes, sweep, deletion, refresh, background event loop |
| Scheduled reindex (`services/scheduled_reindex.py`) | `next_retry_at`, `last_synced_at` of connections | sweep | scheduler claim, indexing |
| Usage quota (`services/usage_policy_service.py`) | counters, events, per-run buffer and cache | check, add, flush, query and byte counters | LLM calls, tools |
| Completion stream (`streaming/completion_stream.py`) | a bounded asyncio queue | put, get, finish | agent loop, SSE response |
| Tool runner (`ai/runner`) | timers, retries of one tool call | run | agent loop, tools |
| Agent loop, completions (`ai/agent_v2.py`, `services/completion_service.py`) | `completions`, blocks, sigkill, a semaphore of slots | request, run, stop | tools, stream, quota |
| Review feed (`services/review_service.py`) | `review_items` | emit, dismiss, resolve | learning agents, builds, notifications |
| Suggestion hunks (`services/text_hunks.py`) | resolved hunks of a suggestion | diff, rebase, splice, accept | builds |
| Scheduler (`core/scheduler.py`) | leader file lock, `scheduled_job_runs` | claim a fire | scheduled prompts, sweeps |

The rest (permissions, git and metadata parsing, clients, reports, artifacts, frontend,
enterprise modules, adapters) is listed with reasons in `PROJECT.json`.

What makes these hard:

* **Sessions.** A request has one database session with `expire_on_commit=False`. A row it
  has loaded stays as it was loaded: later queries do not refresh it, guards test the old
  copy, and UPDATEs go to the row whatever it holds by then.
* **Commits inside operations.** A publish is up to nine commits; others can act, and the
  process can die, between any two.
* **Swallowed errors.** Failing copies, finalizations, fan-outs and audit writes are logged
  and the operation goes on.
* **No constraints.** One main build, one active indexing row, one row per table and
  consecutive build numbers are conventions of the service layer.
* **Background work.** Runners and evaluations act minutes after the row they act on was read.

Correctness of each, in one line: *builds*: one live snapshot, always approved, advanced
only by landing a change on what is live or by an exact rollback; *indexing*: one active
run, whose outcome is what is stored, and no row that nobody works on; *quota*: nothing is counted
twice or lost, and nothing is refused or admitted on stale grounds; *stream*: the reader always
reaches the end mark; *agent*: a run that ends has settled its status, as it decided or as an error, and
the browser shows what was written; *review feed*: one active item per condition; *learning*: one automation run per agent,
and none that blocks it for ever; *hunks*: accepting all hunks gives the suggestion; *scheduler*: one worker per fire.

## Plan

Done:

1. `Snapshots`, `InstructionBuilds`, the abstract `MainLine` it implements, and their proofs,
   with the refinement.
2. `ConnectionIndexing` and its proofs.
3. `UsageQuota`: checks against the cache, buffers, flushes, counter transactions; proofs.
4. `AgentRun` (completions, agent loop, tool runner and event stream in one module, because
   every property spans at least two of them), the abstract `CompletionStatus` it implements,
   and proofs.
5. `AgentAutomation` and `ReviewFeed`, which composes it with the feed; proofs.

Not done, in the order in which it would be worth doing:

6. `Hunks`: the line-hunk algorithm (recursive functions over short texts) against a
   reference merge. Accepting hunks is already an operation of `InstructionBuilds`, which
   does not look into the texts.
7. The inbox rows fanned out from the review feed.
8. The fan-out from `ConnectionTable` to data-source tables, in `ConnectionIndexing`.
9. Completions that run in the background without a stream.

Theorems still worth proving: which of the hypotheses on overlapping requests can be replaced by
weaker ones (for instance by requests on one and the same build excluding one another); then those of the modules above, as they are written.

## Instruction builds

`Snapshots` holds the data: a snapshot maps each instruction to the version it holds, or to
none. It stands for the `build_contents` rows of a build. Versions are only compared.

`InstructionBuilds` is the builds of one organization. Its state:

| Variable | Code |
|---|---|
| `builds` | rows of `instruction_builds` with their contents: status, source, base, snapshot |
| `mains` | the rows with `is_main` |
| `deleted` | instructions with `deleted_at` |
| `req` | every request or background task: where it is (`pc`), the build it works on, the copy of it its session loaded (`seen`), the main build it compared with, the change it computed |
| `promoted`, `published` | history only: builds that have been main; builds whose publish succeeded |

A request starts with one of the `Start...` actions (the route or task and the guards it
evaluates on its first load) and then advances through the shared steps:

| Operation | Steps |
|---|---|
| open (`POST /builds`, git sync) | Insert, Copy |
| edit, submit, reject | Edit; Submit; Reject |
| save (create, update, revert an instruction) | FindDraft, (Insert, Copy,) Add, Submit, (Approve, Promote, Commit) |
| accept (hunks of a suggestion) | Insert, Copy, Add, Submit, (Approve, Promote, Commit) |
| delete | the same after the soft delete, then Refresh and perhaps Promote, Commit again |
| publish | Filter, (Submit,) Approve, Route, then Promote, Commit; or Diff, Insert, Copy, Apply, Approve, Promote, Commit on a merged build |
| learn | (Submit,) Approve, Promote, Commit |
| rollback | Insert, Copy, Approve, Promote, Commit |

One step ends at each commit, or at a read a later step relies on. `Promote` is the UPDATE
that clears `is_main` and `Commit` the one that sets it, with the transaction's end. On
SQLite (`Isolation = "sqlite"`) no other request writes between them; on PostgreSQL the
clearing statement skips rows that another transaction is changing, as READ COMMITTED does.
`Crash` ends a request between any two steps, `FinalizeFails` is the error that
`_auto_finalize_build` swallows.

`MainLine` is what users are promised: one live snapshot, open proposals forked from it;
landing a proposal merges its change into whatever is live; a rollback restores an approved
snapshot. `ImplementsMainLine` maps builds to it (drafts and pending builds are proposals,
and approved ones while their publish is under way; builds in the making do not show) and is
checked as a property and proved. It holds for requests that do not overlap.

Three runs of this module end in a violation and are findings: two mains under PostgreSQL, a rejection
that is overwritten, and a build without a base that replaces main unmerged. `ApprovedHasLanded` holds
because a save promotes what it approves, which its docstring denies (see
[below](#where-code-and-comments-disagree)). Overlapping requests also break `NoSilentRevert`,
`LiveOnlyOnce` and `ApprovedIsFrozen` (a stale shared draft, the delete's second promotion, an edit
that passed its guard before the approval), and an accepted hunk can undo a change of its
instruction made after its text was computed: those are listed as hazards and, where they can be,
checked and proved for requests that do not overlap only.

## Connection indexing

`ConnectionIndexing` is one connection, its indexing rows with their background runners, the
requests that start, force, wait, refresh and delete, and the periodic sweep.

| Variable | Code |
|---|---|
| `upstream` | the tables the data source has (external; changes at any time) |
| `exists` | the connection row |
| `catalog` | its `connection_tables` rows; a row is its table's name and who inserted it, so that duplicates and rows that were loaded earlier can be told apart |
| `status` | `connection_indexings.status` of each row, `absent` before its insert and after the cascade |
| `stale`, `gate` | `last_synced_at` older than the interval; `next_retry_at` in the future |
| `proc` | every request and runner: where it is and what its session has loaded |
| `kicks`, `unclaimed`, `crashed` | history only: sweeps that started a run in this interval; sweeps that came in while another was in flight; runs that have died |

`Check`, `Insert` and `Kick` (the runner is handed to the background loop after the commit) are `start`; `Begin`, `Finish`, `Fail`, `FailLate` are
`_run`; `Fetch`, `Read`, `Write` are `refresh_schema`, shared by runners and by the
synchronous data-source refresh (`Wait` first); `Look` and `Cancel` are `?force=true`;
`Stamp` is the sweep; `Drain`, `Load`, `Retry`, `Delete` are `delete_connection`. Requests
load the connection when they arrive; its cascade removes the indexing rows, which is why
runners test for `absent`. Updating an unchanged table row writes nothing, so only inserts
and deletes show. The database is PostgreSQL, which enforces foreign keys. SQLite, which the code
supports as well, does not: where `Retry` fires, it would delete the connection and leave the tables
inserted meanwhile. That nothing outlives a connection is therefore a fact about the database and not
about this code, and no property states it.

Any number of workers may sweep at once: `claim_scheduled_run` (`core/scheduler.py:121`) decides by a
30-second bucket of each worker's own clock and lets everybody through when the database fails, so
`Arrive` does not rely on it. What the backoff still gives is `BackoffHolds`: of the sweeps of one
interval only those that came in while another was in flight can start a run besides the first.

`ActiveHasRunner` is the safety side of "a run ends": whatever overlaps, fails or times out, an active
row has a runner at work or a request about to start one. A death is exempted by name, because nothing
recovers the row of a dead runner. That a runner at work gets to its end is not claimed: nothing bounds
the source's answer (`connection_indexing_service.py:365`).

**Fairness** (`FairSpec`): each request takes its own steps, and stops waiting at its deadline, which
the code sets itself (600 s in `wait_for_active`, 120 s in `delete_connection`). Runners, sources, timeouts
of anything else, arrivals, schema changes and deaths are not fair. `WaitersGetOn`, the only liveness
property of the project, holds under that alone.

## Usage quota

`UsageQuota` is the monthly quotas of one user, used by several agent runs at once. Language-model
calls are checked against a copy of the counters that a context keeps for thirty seconds, add
what they used to the context's buffer, and the buffer is written when the run is over. Queries
and bytes are counted at once. An agent has one context for itself and one for its tools
(`for_source`). The Judge and the planner of the knowledge harness call models without a context
(`agent_v2.py:420`, `:871`): nobody checks those calls or charges them (`CallWithout`).

| Variable | Code |
|---|---|
| `policy` | the effective limits, an index of the sequence `Policies` an administrator goes through |
| `used`, `holder` | the counter rows, and whose open transaction has changed each |
| `events` | the sums of the committed `UsageEvent` rows, per context and metric |
| `pending`, `cache` | `_pending_tokens` and `_pending_cost`; the counters and limits a context loaded last, fresh or expired |
| `proc`, `steps` | where each run is and what it remembers; the operations and faults so far |
| `spent`, `floor`, `faulty` | history only: what was really used; policy and counters when a cache last expired; runs that have met a fault |

| Operation | Steps |
|---|---|
| call without a context | CallWithout, also in the background when the run is over |
| check (`check_tokens`, `_enforce_spend_cap`) | StartCall, (Load, LoadCost, possibly again,) then Answer or NoAnswer |
| count an amount | Begin, Update, (Insert, perhaps Update again,) CommitWell or Refuse |
| query and its bytes | StartQuery, count, Run, count |
| flush | EndRun, Flush, count the tokens, Flush, count the cost |
| faults | DbError rolls back; AckLost commits and reports a failure; Die ends the run anywhere |

`Verdict` is the decision a check takes in memory. It may ask for a load because of the time to
live, of the cost or of the tokens, and refuses only after a load asked for on the same ground.
The database is PostgreSQL under READ COMMITTED: an UPDATE waits for a row another transaction
has changed, an INSERT waits for an uncommitted one of the same key and then fails on the unique
constraint, which rolls everything back and tries again.

## Completions and agent runs

`AgentRun` is a completion from its request to its end. A step is what the code does between two
awaits that another part can use.

| Variable | Code |
|---|---|
| `row` | `completions.status` |
| `run` | the background task, the agent's loop and the tool runner: stage, rounds, retries, circuit-breaker counts, what has been announced, whether the session is unusable (`poisoned`) |
| `heard` | `sigkill_event`, with the stage it was set in |
| `line`, `free` | `_AGENT_RUN_SEMAPHORE` and the tasks waiting for it |
| `queue`, `lost` | `CompletionEventQueue` and whether it has dropped an event |
| `reader`, `shown` | the client's end of the stream and what the browser shows |
| `stopper`, `stops` | `update_completion_sigkill` |
| `decided`, `faulty`, `faults` | history and bound: the last status taken for final; runs the database has failed |

| Part | Steps |
|---|---|
| request | Request (commits the rows), then Spawn (creates the task) or Abandon (something in between raises) |
| background task | Acquire, Start; Return, or Recover after an exception; End |
| stop | StopRead, StopWrite, Hear |
| a planner round | Prepare, then Interrupt, Answer, Malformed, Actionless, Undecided or Act |
| a tool call | Unresolved, Fails, Rejected, Breaks (with its retries), Succeeds |
| end of the loop | Settle; Write and Tell for every status that is written and announced; Raise, Fail |
| stream | `Put` and `Finish` are part of the steps that emit; Read |

`Abandon` leaves the row in progress without a run, as the code does; nothing finds it again but a stop.

`CompletionStatus` is the abstract specification: what the status promises to everybody who reads
it. A run settles it once; a stop that found it settled writes nothing; one that found it in progress is
written even if the run has settled it meanwhile (`Overtake`: a success can become "stopped", which a
comment of the code rules out, see [below](#where-code-and-comments-disagree)); a failure may spoil
it, an error never becomes a success, and a success or a stop is not decided on before it is written.
`StatusKept` says that `AgentRun` implements it, with `row`, `decided` and the completions an unwritten stop has
found in progress for its variables, and is checked as a property and proved.

No liveness is claimed of a run. It is a task created without a reference being kept
(`completion_service.py:2188`), of which the code says elsewhere that such tasks may be collected
(`agent_v2.py:3561`, `llm.py:42`); the hard timeout of a tool stops nothing (`tool_runner.py:99-104`), and
the planner's stream has no timeout (`agent_v2.py:2407`). The models say what holds of every run that
goes on, and of every state of one that does not.

## Review feed and automation

`AgentAutomation` is the automation runs of one agent in one worker: the gate that tests `_INFLIGHT`
and the rows, and the writes that come several awaits later. `ReviewFeed` extends it with the items
of one condition in the feed, their producers, the requests of administrators, and the workflows
that carry the outcome of an automation run back to the item it was started from.

| Variable | Code |
|---|---|
| `task` | every call of `run_automation`: its stage, kind, caller and verdict |
| `inflight`, `running` | `_INFLIGHT`; the `agent_automation_runs` rows that say running |
| `items` | the `review_items` rows: status, `group_count`, `spawned_json`, dismissed within the week |
| `emission`, `request`, `subject` | calls of `emit`, requests, and the item each workflow belongs to, with what their sessions have loaded |
| `faults`, `raced`, `sources`, `met`, `barred`, `revived` | history only: faults that struck; calls, or emissions, that overlapped; what was dismissed when an emission began; items brought back |

| Operation | Steps |
|---|---|
| automation run | Trigger or Resolve; Gate, Enter, Record, Evaluate, Finish |
| emit | Occur (look for an active item), then Bump; or Check (the dismissal) and Insert; EmissionFails |
| dismiss, run a workflow | Ask, then Dismiss, Resolve or Refuse |
| workflow's end | Reread, Report |
| faults | RecordFails, FinishFails, ReportFails, Crash |

An UPDATE writes the columns its session has given another value than it loaded (`Update`), which is
why a workflow that ends after a dismissal brings the item back. The properties name these
overlaps instead of excluding them: `Deduplicated` says that a second active item, or a wrong count,
needs two emissions in flight together or an item brought back; `GuardHolds` that two runs at once
need two calls between the gate and `_INFLIGHT`, and that an agent stays blocked only after a commit
that failed or a death. `_INFLIGHT` is set one commit before the `try` block whose `finally` clears it,
so a failure of that commit blocks the agent until the process restarts.

`ItemsHaveWorkflows` is the safety side of "no item is shown as running for ever": an item in progress
has a workflow started from it that is still to report, however the stale copies of requests and other
workflows are written in between. It holds because a workflow loads the item only to report, and the
one that has loaded it in progress names the status in its UPDATE. An outcome that could not be
recorded and a death are exempted by name, since nothing looks for items whose workflow is gone. That
a workflow ends is not claimed: it is a task without a reference (`review_service.py:494`), and it waits
for agent runs without a timeout (`agent_reliability_service.py:441`). One that hangs, or is collected, stands
still in the model.

## Runs

| Run | Shows | Bounds |
|---|---|---|
| `builds_serial` | Requests one after the other: live is approved, approved builds are not edited, promotions revert nobody else, rollbacks are exact, no build goes live twice, every approved build has landed, and the refinement to `MainLine` | 2 instructions, 2 versions, 4 requests, 5 builds: two users' drafts and a stale publish with its merge, or a rollback after it |
| `builds_concurrent` | Any three overlapping requests with deaths on SQLite: one main | 1 instruction, 2 versions, 4 builds |
| `builds_two_mains` | violation on PostgreSQL | 2 saves |
| `builds_rejected` | violation: rejected build published | 3 requests |
| `builds_unmerged` | violation: unmerged publish drops live instructions | 4 requests, no main at first |
| `indexing_serial` | Requests one after the other, runners in the background, deaths and timeouts: one active row, one row per table, completed means stored, draining suffices | 2 tables, 3 requests, 3 runs |
| `indexing_concurrent` | Everything overlapping, faults included: backoff, no active row without a runner, every waiter gets on | 1 table (the properties do not tell tables apart), 2 requests, 2 runs |
| `indexing_two_active` | violation: two active rows | 2 starts |
| `indexing_cancelled` | violation: a cancelled row becomes active or completed | start, then force |
| `quota` | Two agent runs of one user, whatever fails: counters add up, nobody is overcharged, no query is free, a run without a fault is charged exactly what its context's calls used, limits on queries and bytes hold, calls are admitted and refused on timely grounds | 3 calls, queries or faults; one policy edit that raises one limit, lowers two and lifts one |
| `agent` | Two completions for one slot: slots, announcements, stops and statuses, the stream's end, and the refinement to `CompletionStatus` | 2 rounds of up to 2 calls, every retry limit 1 or 2, a queue of 1, one stop, one failure of the database |
| `review` | One condition of one agent: deduplication, dismissals, the guard of automation runs, and no item in progress without a workflow | 2 emissions, 2 requests, 2 automation runs, 1 fault |

Every bound is a CONSTANT: `Requests` (each is served once), `MaxBuilds`, `MaxRuns`, `MaxSteps`,
`MaxFaults`, `MaxStops`, `MaxActions`, `MaxEmissions`, `MaxRequests`, `MaxTasks`, and the sets of
instructions, versions, tables, policies and amounts. Properties are violated, where they are, by
two actors and at most two instructions or tables; three or four requests leave room for a stale
third party. In `quota` an estimate is smaller than the amount really used, so that a buffer can
outgrow a limit that its check had passed; three steps are enough for one run to spend, flush
and fail while the other is checked against what it had cached. In `agent` a queue of one makes
every second event overflow, and one slot makes the second run wait for every way the first can
end. In `review` two of each are what every race between look-up and insert, or between a
workflow's end and a dismissal, needs. The mutants in `PROJECT.json` (the `Fault` definitions beside the actions they
replace) show that each property is reached within these bounds. `CHECK_DEADLOCK FALSE`:
when every request has been served, the system rests. Symmetry is used for safety only.
The four largest runs take between one and two minutes each.

## Where code and comments disagree

Five runs end in a violation; each is a finding. Three more findings are comments that say otherwise than what
a passing run shows of the code:

| Where | The comment | The code |
|---|---|---|
| `instruction_service.py:3752` (`builds_serial`, `ApprovedHasLanded`) | `:3721` "Admins: approve only (makes build ready, but doesn't auto-promote)", `:3724` "Promoting to main requires explicit action" | a save of an administrator approves and promotes |
| `usage_policy_service.py:1328` (`quota`, `LimitHolds`) | `:1299` the row lock is held "for the duration of the statement only", `:1305` "Slight over-shoot under heavy contention is acceptable" | PostgreSQL holds it until the transaction ends, which an amount beyond the limit rolls back: no over-shoot |
| `completion_service.py:2401` (`agent`, `StatusKept`) | `:2395` "we must not flip the completion to 'stopped' or UI would show "Generation stopped" over a successful answer" | a stop that read the status before the run settled it is written over the success (`Overtake`) |

## Proofs

`InstructionBuilds_proofs` proves, for any sets of requests, instructions and versions and
any number of builds:

* `TypeCorrect`: `TypeOK`. The inductive part is that a request past its lookups has a build
  (`HasBuild`), without which its UPDATEs would address no row.
* `MainStays`: main never vanishes, on either database and with deaths anywhere. `Commit` is
  the only step that changes `mains`, and it adds the request's build.
* `BasesWereLive`: the base of every build has been main (`BaseInv`: current mains have been
  promoted).
* `OneMainOnSQLite`: at most one main build when writers are serialized. The invariant
  `OneMainInv` says that at most one request is between its two UPDATEs and that what it has
  not cleared is its own build.
* `SerialLiveIsApproved`, `SerialApprovedIsFrozen`: for requests that do not overlap. The
  invariant `SerialInv` says that only one request is in flight and that what its session
  believes of its build (`AsBelieved`) is what the row holds; overlapping requests break
  exactly that.

`InstructionBuilds_mainline` goes on, for requests that do not overlap:

* `SerialLiveOnlyOnce`, `SerialRollbackIsExact`, with deaths anywhere. The invariant `PastInv` says
  which operation may be at which step (`Staged`), that what has been live is approved
  (`PastSound`), that what is about to go live has not been (`Fresh`), and that a rollback holds
  exactly its target (`Returning`).
* `SerialApprovedHasLanded`, without deaths: a request that dies after `Approve` leaves such a
  build, and so does a publish that finds after `Approve` that another request has moved main
  (409). `LandedInv` says that every approved build has landed or is what the one request in
  flight is landing.
* `OrderlyNoSilentRevert` and `OrderlyImplementsMainLine`. Their hypothesis `Orderly` is what
  `builds_serial` runs under: no overlap, no deaths, a main build from the beginning, no promotion
  of a learned suggestion, and nobody opening drafts of source `user`. None can be dropped
  altogether: without a main build a publish does not merge (`builds_unmerged`); a suggestion is
  promoted unmerged; a user's open draft, or one a dead request left, is found again by
  that user's next save and promoted however old it is. `LineInv` says that whatever a request is
  about to promote was forked from the build that is live now (`Forked`) or is the merge of a
  published change onto it (`Merging`). With it each action maps to one step of
  `MainLine` or a stutter: the proposals of the mapping are computed from all builds and requests,
  so the proof first shows, for each action, which single build enters, leaves or changes.

`ConnectionIndexing_proofs` proves, for any sets of tables and requests and any number of runs:

* `TypeCorrect`: `TypeOK`.
* `SerialOneActive`: at most one active row, for requests that do not overlap and never
  force. The invariant `ActiveInv` says that one request is in flight, that no row is active
  while it is about to insert one, and that a runner that has not begun has a row that is
  still pending (or gone), so that marking it running activates nothing new.
* `RowsHaveRunners`: an active row has a runner, or a request about to start one, or a death,
  whoever overlaps, forces or deletes. `RunnerInv` adds that a row which is about to be handed over has no
  runner yet (`KicksUnbegun`) and that nobody else hands it over (`KicksApart`).
* `BackoffAlwaysHolds`: no two sweeps start a run in one interval, but for sweeps that came in
  while another was in flight. `BackoffInv`: of the sweeps in flight one at most was alone when it came
  in (`OneClaimed`), and once a sweep has started a run the gate is up or the connection not stale
  (`GateClosed`), so that no sweep comes in any more.
* `SerialOneRowPerTable`, `SerialDrainSuffices`, `SerialCompletedIsStored`, under the hypotheses of
  `SerialOneActive` (forcing is what lets two runners write; so does a second request). One
  invariant, `StoreInv`, holds all three: a runner at work has an active row (`RunnersActive`), a
  request writes or deletes only while no row is active, unless its drain has timed out
  (`RequestsWait`), hence what a writer has loaded is still the catalog (`SawAll`) and what a
  runner at its end has fetched is what is stored (`Stored`).

`UsageQuota_proofs`, for any sets of agents, policies and amounts:

* `TypeCorrect`: `TypeOK`. It needs that a transaction of the agent's own context writes its buffer
  and one of its tools' context counts a query (`KindsAgree`).
* `LimitsHold`: `LimitHolds`. Only a commit raises a counter, it commits what was tested, and the
  limit it was tested against was in force when the transaction began (`SinceAgrees`).

`UsageQuota_accounts` (invariant `Accounts`): for each context, what has been counted, what an open
transaction carries and what is still buffered add up to what was used, in a run that has met no
fault (`Exact`). After a fault the sum is at most that as long as the run is not over, and without the buffer
for ever (`Covered`): a lost acknowledgement counts an amount and gives it back to the buffer as well, and
only the end of the run keeps it from being flushed again. Tokens are flushed before the cost
(`Ordered`), and queries are charged before they run (`Prepaid`). It yields `NobodyIsOvercharged`,
`QueriesAreCounted` and `RunsAreCharged`, which counts in what the tools' context was charged (nothing:
the context of the tools buffers and nobody flushes it) and not the calls made without a context.

The same module proves `CountersAddUp`: every counter is the sum of its committed events. The
invariants are `RowsLocked` (from its write to its commit a transaction holds the row, and what it has
written is the counter plus its amount) and `Explained` (the sum). The sum over all contexts is a
fold whose order the definition leaves open, so the module first shows that it exists and does
not depend on the order. That is an induction over finite sets; it is done by taking, among the
subsets of the contexts for which a statement fails, a smallest one (the strict-subset relation on a
finite set is well founded). It needs finitely many agents, which is part of `QuotaAssumption`: a
user has finitely many runs.

`UsageQuota_checks` (invariant `KInv`): `RowsAgree` says that whoever has changed a row is about to commit
what it found plus its amount, so that counters only grow; `Knowledge` says, for each run, that what
it loaded is a value the counter has had (`LoadSound`), that its cache holds at least what the counters
were when it last expired (`PastOf`, `CacheSound`), under a policy in force since. It yields
`RejectionsAreReal` and `AdmissionsAreTimely`.

`AgentRun_proofs`, for any numbers of completions, slots, rounds, tools and faults: `TypeCorrect`,
`SlotsAreConserved` (the holders of the semaphore, counted), and from one invariant over a single
completion, with a part per concern (`LoopSound`, `RowSound`, `WordSound`, `StopSound`, `Written`, `Closed`),
`AnnouncementsAreWritten`, `RunsSettle`, `StopsAreHonoured`, `StreamsEnd`, `RoundsEnd`, and
`StatusImplements`: initial states map to initial states of `CompletionStatus` and every step to a step
of it or a stutter. The invariant has to say, at every stage of the end of a run, which statuses
the row may hold and which one the run is about to write; the properties themselves only speak of
stages after that. `BrowsersShowTheRow` is `ShownIsWritten`: its invariant `SeenInv` follows a run that
nobody has asked to stop, that has lost no event and met no failure. Nothing in it is stopped
(`Unstopped`), the reader leaves only when the end mark has been read, which is last (`ReadOut`), and
an error is shown or still in the queue exactly when the row says error, but for the step between the
write and the announcement (`Foreseen`).

`ReviewFeed_proofs`, for any numbers of emissions, requests, runs and faults: `TypeCorrect`, `Guarded`,
`Deduplication`, `DismissalsHold`, `ItemsAreWatched`. `GuardSound` and `RowsLate` say that a call past the gate has either been
alone there or has raced, and that a row is running only from `Record` on; `FeedInv` says the same of
emissions that have looked and not yet inserted (`InsertSound`) or loaded and not yet bumped
(`BumpSound`): an active item they did not see comes from an emission they have met, or was brought
back. `Watched` strengthens `ItemsHaveWorkflows`: a workflow that is about to report and is the one the
item waits for has loaded it in progress, so that its UPDATE changes the status.

`MainStays` (`MainNeverVanishes`) and `BasesWereLive` (`BaseWasLive`) are proved and not checked by a run
any more.

Only model-checked is `WaitersGetOn`, a liveness property, which is out of the proof system's reach.
Every other property of a passing run is stated by a theorem, some with `Serial`, `Orderly` or a
database in their hypotheses. Those are needed: with `Serial = FALSE` and three or four requests (two
for `OneActive`), TLC finds each of
`LiveIsApproved`, `LiveOnlyOnce`, `RollbackIsExact`, `ApprovedHasLanded`, `NoSilentRevert`,
`ImplementsMainLine`, `OneActive`, `OneRowPerTable`, `DrainSuffices` and `CompletedIsStored` violated,
and so it does `OneRowPerTable` with `force` and `ApprovedHasLanded` with `crash` among `Ops` when nothing
overlaps. No theorem rests on a result of TLC; the invariants above were checked on small instances
before they were proved.

## What the models leave out

Builds: build numbers (two builds can get the same one), titles and totals, deleting a
build, the audit log and when it commits, the live row's text and current version, how a
version is created, `create_instruction`'s compensation when finalization fails, the order of
bulk operations, drafts of source `ai` and `git` being found again, edits of a chosen target
build, the texts of versions and with them which hunks a suggestion still shows, and PostgreSQL's row-lock order beyond the two UPDATEs of a promotion.
The commits inside a merge that add its rows one by one are one step, since nobody else can
find the merged build. Whether a user may publish or a policy promotes is a free choice.

Indexing: progress, events, cache warming, tool providers, per-user catalogs, the fan-out to
data-source tables, several connections in one sweep, the scheduler's claims (their outcome is free),
SQLite and wall-clock time. An interval is assumed not to elapse while a sweep is starting its runs.

Quota: the administration of policies (an edit only puts other limits in force), limits per
connection, several users, the change of month, and SQLite.

Agent runs: completions that run in the background without a stream, webhooks and chat platforms, the
hard timer of a tool (which raises in a task nobody awaits and stops nothing), prompts, blocks,
scoring, follow-ups, audit, progress events that differ in nothing a property tells apart, and
several worker processes (each has a semaphore of its own).

Review feed and automation: evaluation and training are one step with a free verdict; the policy
tree, training rounds and the agent's `reliability_status`; read flags, severity and titles; producers
that set an absolute count or ignore dismissals; the inbox rows fanned out to users; snoozing, which
nothing sets; several workers.

Other components are listed in `PROJECT.json` with the reason.
