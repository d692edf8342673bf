------------------------------- MODULE AgentRun -------------------------------
(***************************************************************************)
(* A completion from its request to its end: the request that opens it      *)
(* (completion_service), the slot its run waits for, the agent's loop of    *)
(* planner rounds and tool calls (agent_v2), the attempts of a tool call    *)
(* (tool_runner), the stop request, the queue of events the client reads    *)
(* (completion_stream), and the failures of the database on the way.        *)
(* A step is what the code does between two awaits another part can use.    *)
(***************************************************************************)
EXTENDS Integers, Sequences, FiniteSets

CONSTANTS Requests,         \* bound: completions, numbered as they are requested
          Calls,            \* tool calls the planner may ask for, one per tool
          Slots,            \* BOW_MAX_CONCURRENT_AGENTS
          StepLimit,        \* step_limit, 100 in the code
          MaxInvalid,       \* max_invalid_retries, 2 in the code
          MaxActions,       \* bound: tool calls of one decision
          MaxAttempts,      \* RetryPolicy.max_attempts
          MaxRejected,      \* ToolRunner.max_validation_failures
          MaxToolFailures,  \* max_tool_failures, 3 in the code
          MaxRepeats,       \* max_repeated_successes
          QueueSize,        \* _QUEUE_MAXSIZE, 512 in the code
          MaxFaults,        \* bound: failures of the database
          MaxStops          \* bound: stop requests

Positive(n) == n \in Nat /\ n > 0

ASSUME Parameters ==
  /\ Requests \in Nat
  /\ Positive(Slots) /\ Positive(QueueSize) /\ Positive(MaxActions)
  /\ Positive(MaxAttempts) /\ Positive(MaxToolFailures) /\ Positive(MaxRepeats)
  /\ StepLimit \in Nat /\ MaxInvalid \in Nat /\ MaxRejected \in Nat /\ MaxFaults \in Nat /\ MaxStops \in Nat

Completions == 1..Requests

VARIABLES
  row,      \* Completion.status, "none" before the rows are saved
  run,      \* the run of each completion: agent, tool runner and outer task
  heard,    \* sigkill_event: the stage in which it was set, or "never"
  line,     \* runs waiting for _AGENT_RUN_SEMAPHORE, oldest first
  free,     \* its value
  queue,    \* CompletionEventQueue of each completion
  lost,     \* whether the queue has dropped an event (_dropped > 0, or a drain)
  reader,   \* the client's end of the stream
  shown,    \* status of the message in the browser
  stopper,  \* update_completion_sigkill: "idle", the status it has read, or "over"
  stops,    \* stop requests so far
  decided,  \* history: the status the agent has last taken for final
  faulty,   \* history: the database has failed this run
  faults    \* failures of the database so far

slots  == <<line, free>>
pipe   == <<queue, lost>>
client == <<reader, shown>>
stream == <<pipe, client>>
errors == <<faulty, faults>>
stopping == <<stopper, stops>>
vars == <<row, run, heard, slots, stream, stopping, decided, errors>>

Final == {"success", "stopped", "error"}
\* Events the properties tell apart: completion.finished by its status,
\* completion.error, the sentinel, and all that is shown on the way.
Events == Final \cup {"failure", "progress", "end"}

\* Stages in which the agent object exists, and its handler is registered.
Agent == {"planning", "streaming", "tool", "writing", "telling", "tail", "failing"}
Stages == Agent \cup {"idle", "saved", "abandoned", "waiting", "starting", "returned", "raised", "ending", "ended"}

NoCall == "no call"

\* failed is failed_tool_count, last and times the end of successful_tool_actions.
Idle == [stage |-> "idle", verdict |-> "success", after |-> "tail", rounds |-> 0, invalid |-> 0,
         todo |-> 0, attempt |-> 1, rejected |-> 0, failed |-> [t \in Calls |-> 0],
         last |-> NoCall, times |-> 0, done |-> FALSE, emitted |-> FALSE, poisoned |-> FALSE]

Init ==
  /\ row = [c \in Completions |-> "none"]
  /\ run = [c \in Completions |-> Idle]
  /\ heard = [c \in Completions |-> "never"]
  /\ line = <<>> /\ free = Slots
  /\ queue = [c \in Completions |-> <<>>]
  /\ lost = [c \in Completions |-> FALSE]
  /\ reader = [c \in Completions |-> "none"]
  /\ shown = [c \in Completions |-> "none"]
  /\ stopper = [c \in Completions |-> "idle"] /\ stops = 0
  /\ decided = [c \in Completions |-> "none"]
  /\ faulty = [c \in Completions |-> FALSE] /\ faults = 0

At(c, stage) == run[c].stage = stage
Go(c, r) == run' = [run EXCEPT ![c] = r]
To(c, stage) == [run[c] EXCEPT !.stage = stage]

\* The loop is over: what it has counted is read no more.
Over(r, stage) == [Idle EXCEPT !.stage = stage, !.emitted = r.emitted, !.poisoned = r.poisoned]
-----------------------------------------------------------------------------
(* CompletionEventQueue                                                      *)

\* Fault: no bound.
PutUnbounded(c, e) == queue' = [queue EXCEPT ![c] = Append(@, e)] /\ UNCHANGED lost

Full(c) == Len(queue[c]) >= QueueSize

\* put: the newest event is dropped when the queue is full.
Put(c, e) ==
  /\ queue' = IF Full(c) THEN queue ELSE [queue EXCEPT ![c] = Append(@, e)]
  /\ lost' = [lost EXCEPT ![c] = @ \/ Full(c)]

\* Fault: finish only tries once.
FinishOnce(c) ==
  /\ queue' = IF Full(c) THEN queue ELSE [queue EXCEPT ![c] = Append(@, "end")]
  /\ lost' = [lost EXCEPT ![c] = @ \/ Full(c)]

\* finish: the sentinel takes the place of the oldest event when the queue is full.
Finish(c) ==
  /\ queue' = [queue EXCEPT ![c] = Append(IF Full(c) THEN Tail(@) ELSE @, "end")]
  /\ lost' = [lost EXCEPT ![c] = @ \/ Full(c)]

\* Fault: the message takes whatever status comes last.
ShowsLast(old, e) == IF e = "failure" THEN "error" ELSE IF e \in Final THEN e ELSE old

\* handleStreamingEvent: an error is shown at once, and what has been stopped or
\* has failed is not shown as anything else but an error.
Shows(old, e) ==
  IF e \in {"failure", "error"} THEN "error"
  ELSE IF e \in Final /\ old \notin {"error", "stopped"} THEN e ELSE old

\* get_events, until the sentinel.  A client that goes away just reads no more.
Read(c) ==
  /\ reader[c] = "reading" /\ queue[c] # <<>>
  /\ queue' = [queue EXCEPT ![c] = Tail(@)]
  /\ reader' = [reader EXCEPT ![c] = IF Head(queue[c]) = "end" THEN "closed" ELSE "reading"]
  /\ shown' = [shown EXCEPT ![c] = Shows(@, Head(queue[c]))]
  /\ UNCHANGED <<row, run, heard, slots, lost, stopping, decided, errors>>

-----------------------------------------------------------------------------
(* completion_service: the request and the task around the agent            *)

\* create_completion_stream: the rows are saved.
Request(c) ==
  /\ At(c, "idle") /\ \A d \in 1..(c - 1) : ~At(d, "idle")
  /\ row' = [row EXCEPT ![c] = "in_progress"]
  /\ Go(c, To(c, "saved"))
  /\ UNCHANGED <<heard, slots, stream, stopping, decided, errors>>

\* An exception before the task is started: the client gets an error 500, and
\* nobody ever settles the row.
Abandon(c) ==
  /\ At(c, "saved")
  /\ Go(c, To(c, "abandoned"))
  /\ UNCHANGED <<row, heard, slots, stream, stopping, decided, errors>>

\* The task is started and the client is given its stream.
Spawn(c) ==
  /\ At(c, "saved")
  /\ Go(c, To(c, "waiting"))
  /\ line' = Append(line, c)
  /\ reader' = [reader EXCEPT ![c] = "reading"]
  /\ shown' = [shown EXCEPT ![c] = "in_progress"]
  /\ UNCHANGED <<row, heard, free, pipe, stopping, decided, errors>>

\* Fault: the slot is taken without counting it.
AcquireUncounted(c) ==
  /\ At(c, "waiting") /\ line # <<>> /\ Head(line) = c /\ free > 0
  /\ line' = Tail(line) /\ UNCHANGED free
  /\ Go(c, To(c, "starting"))
  /\ UNCHANGED <<row, heard, stream, stopping, decided, errors>>

\* The semaphore serves the runs in the order they came.
Acquire(c) ==
  /\ At(c, "waiting") /\ line # <<>> /\ Head(line) = c /\ free > 0
  /\ line' = Tail(line) /\ free' = free - 1
  /\ Go(c, To(c, "starting"))
  /\ UNCHANGED <<row, heard, stream, stopping, decided, errors>>

\* The task leaves its try block, and everything main_execution kept is gone.
Leave(c) ==
  /\ Go(c, [Idle EXCEPT !.stage = "ending"])
  /\ heard' = [heard EXCEPT ![c] = "never"]

\* A statement or a row of this run fails.
Fault(c) ==
  /\ faults < MaxFaults /\ faults' = faults + 1
  /\ faulty' = [faulty EXCEPT ![c] = TRUE]

\* Rows re-fetched, clients and agent constructed, execution started; an
\* exception; or rows that are gone, for which nobody writes a status.
Start(c) ==
  /\ At(c, "starting")
  /\ \/ Go(c, To(c, "planning")) /\ UNCHANGED <<heard, pipe, errors>>
     \/ Go(c, To(c, "raised")) /\ UNCHANGED <<heard, pipe, errors>>
     \/ /\ Fault(c) /\ Go(c, [To(c, "raised") EXCEPT !.poisoned = TRUE])
        /\ UNCHANGED <<heard, pipe>>
     \/ Fault(c) /\ Leave(c) /\ Put(c, "failure")
  /\ UNCHANGED <<row, slots, client, stopping, decided>>

\* main_execution has returned: a finished event of its own, whatever the agent
\* has announced.
Return(c) ==
  /\ At(c, "returned")
  /\ Leave(c) /\ Put(c, "success")
  /\ UNCHANGED <<row, slots, client, stopping, decided, errors>>

\* Fault: the error is announced and not written.
RecoverUnwritten(c) ==
  /\ At(c, "raised")
  /\ Leave(c) /\ Put(c, "failure")
  /\ UNCHANGED <<row, errors>>
  /\ UNCHANGED <<slots, client, stopping, decided>>

\* except: completion.error, then the status, on the session of the agent; a
\* failure of that is swallowed.
Recover(c) ==
  /\ At(c, "raised")
  /\ Leave(c) /\ Put(c, "failure")
  /\ \/ ~run[c].poisoned /\ row' = [row EXCEPT ![c] = "error"] /\ UNCHANGED errors
     \/ run[c].poisoned /\ UNCHANGED <<row, errors>>
     \/ Fault(c) /\ UNCHANGED row
  /\ UNCHANGED <<slots, client, stopping, decided>>

\* finally: the slot is released and the stream ended.
End(c) ==
  /\ At(c, "ending")
  /\ Go(c, To(c, "ended"))
  /\ free' = free + 1
  /\ Finish(c)
  /\ UNCHANGED <<row, heard, line, client, stopping, decided, errors>>
-----------------------------------------------------------------------------
(* update_completion_sigkill and the broadcast of its update                 *)

StopRead(c) ==
  /\ stopper[c] = "idle" /\ row[c] # "none"
  /\ stops < MaxStops /\ stops' = stops + 1
  /\ stopper' = [stopper EXCEPT ![c] = row[c]]
  /\ UNCHANGED <<row, run, heard, slots, stream, decided, errors>>

\* Fault: the status is written whatever it was.
StopBlind(c) ==
  /\ stopper[c] \in Final \cup {"in_progress"}
  /\ row' = [row EXCEPT ![c] = "stopped"]
  /\ stopper' = [stopper EXCEPT ![c] = "over"]
  /\ UNCHANGED <<stops, run, heard, slots, stream, decided, errors>>

\* The stamp is always written, the status only if it was in progress when it
\* was read.  This is the flush, which the broadcast follows at once: nobody else
\* can write the row from here to the commit.
StopWrite(c) ==
  /\ stopper[c] \in Final \cup {"in_progress"}
  /\ row' = IF stopper[c] = "in_progress" THEN [row EXCEPT ![c] = "stopped"] ELSE row
  /\ stopper' = [stopper EXCEPT ![c] = "over"]
  /\ UNCHANGED <<stops, run, heard, slots, stream, decided, errors>>

\* The stamp reaches the agent's handler, with the broadcast of this update or
\* with one of the agent's own updates after its session has loaded the stamp; or
\* never, if the agent is not there yet or a websocket of the report is broken.
Hear(c) ==
  /\ stopper[c] = "over" /\ run[c].stage \in Agent /\ heard[c] = "never"
  /\ heard' = [heard EXCEPT ![c] = run[c].stage]
  /\ UNCHANGED <<row, run, slots, stream, stopping, decided, errors>>
-----------------------------------------------------------------------------
(* agent_v2.main_execution: the loop of planner rounds                       *)

Heard(c) == heard[c] # "never"

\* The steps of the loop leave these alone.
Others == UNCHANGED <<row, heard, slots, client, stopping, decided, errors>>

\* Another round of the loop, after an output the planner is asked to repeat.
Again(c) == [To(c, "planning") EXCEPT !.invalid = @ + 1]

\* Writes status s, announces it, and goes on at stage after.
Conclude(r, s, after) == [r EXCEPT !.stage = "writing", !.verdict = s, !.after = after]

\* Top of the loop: a stop or the step limit ends it; the planner's input is
\* built, and an invalid one is tried again.
Prepare(c) ==
  /\ At(c, "planning")
  /\ IF Heard(c) \/ run[c].rounds = StepLimit
     THEN Go(c, Over(run[c], "tail")) /\ UNCHANGED pipe
     ELSE \/ /\ Go(c, [To(c, "streaming") EXCEPT !.rounds = @ + 1, !.done = FALSE])
             /\ Put(c, "progress")
          \/ /\ run[c].invalid < MaxInvalid
             /\ Go(c, [Again(c) EXCEPT !.rounds = @ + 1])
             /\ Put(c, "progress")
          \/ /\ run[c].invalid >= MaxInvalid
             /\ Go(c, Over(run[c], "tail")) /\ UNCHANGED pipe
  /\ Others

\* An event of the planner: a stop breaks the stream off.
Interrupt(c) ==
  /\ At(c, "streaming") /\ Heard(c)
  /\ Go(c, To(c, "planning")) /\ Put(c, "progress")
  /\ Others

\* A final answer without an action.
Answer(c) ==
  /\ At(c, "streaming") /\ ~Heard(c)
  /\ Go(c, IF run[c].emitted
           THEN Over(run[c], "tail")
           ELSE Conclude(Over(run[c], "tail"), "success", "tail"))
  /\ Put(c, "progress")
  /\ Others

\* Invalid output or a failed model call: tried again, in the end an error.
Malformed(c) ==
  /\ At(c, "streaming") /\ ~Heard(c)
  /\ Go(c, IF run[c].invalid < MaxInvalid
           THEN Again(c)
           ELSE Conclude([Over(run[c], "tail") EXCEPT !.emitted = TRUE], "error", "tail"))
  /\ Put(c, "progress")
  /\ Others

\* A plan to act without an action: tried again; after the last retry the break
\* only leaves the stream, and the loop goes on to its step limit.
Actionless(c) ==
  /\ At(c, "streaming") /\ ~Heard(c)
  /\ Go(c, IF run[c].invalid < MaxInvalid THEN Again(c) ELSE To(c, "planning"))
  /\ Put(c, "progress")
  /\ Others

\* The stream ends without a decision to act on.
Undecided(c) ==
  /\ At(c, "streaming") /\ ~Heard(c)
  /\ Go(c, To(c, "planning"))
  /\ UNCHANGED pipe /\ Others

\* A decision with n tool calls; a planner that asks for one never calls the
\* analysis complete.
Act(c, n) ==
  /\ At(c, "streaming") /\ ~Heard(c)
  /\ Go(c, [To(c, "tool") EXCEPT !.todo = n, !.attempt = 1])
  /\ Put(c, "progress")
  /\ Others
-----------------------------------------------------------------------------
(* ToolRunner.run, and what the loop makes of its result                     *)

\* Fault: a complete analysis does not end the loop.
NextCallOn(r) ==
  [r EXCEPT !.todo = @ - 1, !.attempt = 1, !.stage = IF r.todo > 1 THEN "tool" ELSE "planning"]

\* The next call of the decision, the next round, or the end of the loop.
NextCall(r) ==
  IF r.todo = 1 /\ r.done
  THEN Over(r, "tail")
  ELSE [r EXCEPT !.todo = @ - 1, !.attempt = 1, !.stage = IF r.todo > 1 THEN "tool" ELSE "planning"]

\* A tool that is unknown or not made for the plan.
Unresolved(c) ==
  /\ At(c, "tool")
  /\ Go(c, NextCall(run[c]))
  /\ UNCHANGED pipe /\ Others

\* A call has ended: what is left of its decision is still called, and a result
\* that completes the analysis is concluded first, once.
Observe(c, r, complete) ==
  LET next == NextCall([r EXCEPT !.invalid = 0, !.done = @ \/ complete])
  IN  Go(c, IF complete /\ ~r.emitted THEN Conclude(next, "success", next.stage) ELSE next)

\* The call has failed: its tool's count decides with complete.
Failure(c, t, r, complete) ==
  Observe(c, [r EXCEPT !.failed[t] = @ + 1], complete \/ r.failed[t] + 1 >= MaxToolFailures)

\* Not allowed in this mode, an error the tool reports, no or bad output.
Fails(c, t) ==
  /\ At(c, "tool")
  /\ \E rejected \in {0, run[c].rejected} :
       Failure(c, t, [run[c] EXCEPT !.rejected = rejected], FALSE)
  /\ Put(c, "progress") /\ Others

\* Arguments that do not fit the schema of the tool.
Rejected(c, t) ==
  /\ At(c, "tool")
  /\ Failure(c, t, [run[c] EXCEPT !.rejected = @ + 1], run[c].rejected + 1 >= MaxRejected)
  /\ Put(c, "progress") /\ Others

\* An exception or a timeout: another attempt, or a failure that ends the run.
Breaks(c, t) ==
  /\ At(c, "tool")
  /\ IF run[c].attempt < MaxAttempts
     THEN Go(c, [run[c] EXCEPT !.attempt = @ + 1])
     ELSE Failure(c, t, run[c], TRUE)
  /\ Put(c, "progress") /\ Others

\* A result, which may complete the analysis by itself or by its repetition.
Succeeds(c, t, complete) ==
  LET times == IF run[c].last = t THEN run[c].times + 1 ELSE 1 IN
  /\ At(c, "tool")
  /\ Observe(c, [run[c] EXCEPT !.rejected = 0, !.failed[t] = 0, !.last = t, !.times = times],
             complete \/ times >= MaxRepeats)
  /\ Put(c, "progress") /\ Others
-----------------------------------------------------------------------------
(* The end of main_execution                                                 *)

\* Fault: a stop is only used to leave the loop.
SettleDeaf(c) ==
  /\ At(c, "tail") /\ ~run[c].poisoned
  /\ Go(c, IF run[c].emitted THEN To(c, "returned") ELSE Conclude(run[c], "success", "returned"))
  /\ UNCHANGED pipe /\ Others

\* After the loop: builds, titles and follow-ups; then the execution is finished,
\* and the status written unless it has been announced.
Settle(c) ==
  /\ At(c, "tail") /\ ~run[c].poisoned
  /\ Go(c, IF run[c].emitted
           THEN To(c, "returned")
           ELSE Conclude(run[c], IF Heard(c) THEN "stopped" ELSE "success", "returned"))
  /\ UNCHANGED pipe /\ Others

\* What follows a write that has failed: the terminal error of the planner is
\* announced all the same, the handler of the last error gives up, and
\* everything else ends in that handler.
Astray(r) ==
  IF r.after = "raised" THEN Over(r, "raised")
  ELSE IF r.verdict = "error" THEN [r EXCEPT !.stage = "telling"] ELSE Over(r, "failing")

\* Fault: finished is announced before the status is written.
TellFirst(c) ==
  /\ At(c, "writing")
  /\ Go(c, [run[c] EXCEPT !.stage = "telling"])
  /\ Put(c, run[c].verdict)
  /\ UNCHANGED <<row, heard, slots, client, stopping, decided, errors>>

\* update_completion_status: a status the session holds already need not be
\* written; it may fail before or after it has committed, and leave the session
\* unusable.  The handler of the last error tries it twice.
Write(c) ==
  /\ At(c, "writing")
  /\ \/ /\ ~run[c].poisoned
        /\ \/ row' = [row EXCEPT ![c] = run[c].verdict]
           \/ decided[c] = run[c].verdict /\ UNCHANGED row
        /\ Go(c, To(c, "telling")) /\ UNCHANGED errors
     \/ /\ run[c].poisoned
        /\ Go(c, Astray(run[c])) /\ UNCHANGED <<row, errors>>
     \/ /\ ~run[c].poisoned /\ Fault(c)
        /\ \/ UNCHANGED row
           \/ row' = [row EXCEPT ![c] = run[c].verdict]
        /\ \E p \in BOOLEAN : Go(c, Astray([run[c] EXCEPT !.poisoned = p]))
     \/ /\ ~run[c].poisoned /\ Fault(c) /\ run[c].after = "raised"
        /\ row' = [row EXCEPT ![c] = "error"]
        /\ Go(c, To(c, "telling"))
  /\ UNCHANGED <<heard, slots, stream, stopping, decided>>

\* completion.finished with the status that was written.
Tell(c) ==
  /\ At(c, "telling")
  /\ decided' = [decided EXCEPT ![c] = run[c].verdict]
  /\ LET r == [run[c] EXCEPT !.emitted = TRUE]
     IN  Go(c, IF r.after = "tool" THEN [r EXCEPT !.stage = "tool"] ELSE Over(r, r.after))
  /\ Put(c, run[c].verdict)
  /\ UNCHANGED <<row, heard, slots, client, stopping, errors>>

\* An exception that none of the inner handlers takes, of the database or not.
Raise(c) ==
  /\ run[c].stage \in {"planning", "streaming", "tool", "tail"}
  /\ \/ Go(c, Over(run[c], "failing")) /\ UNCHANGED errors
     \/ Fault(c) /\ Go(c, [Over(run[c], "failing") EXCEPT !.poisoned = TRUE])
  /\ UNCHANGED <<row, heard, slots, stream, stopping, decided>>

\* except: the execution is finished first, and on a session that needs a
\* rollback the handler gets no further.
Fail(c) ==
  /\ At(c, "failing")
  /\ Go(c, IF run[c].poisoned THEN To(c, "raised") ELSE Conclude(run[c], "error", "raised"))
  /\ UNCHANGED pipe /\ Others
-----------------------------------------------------------------------------
RunStep(c) ==
  \/ Acquire(c) \/ Start(c) \/ Return(c) \/ Recover(c) \/ End(c)
  \/ Prepare(c) \/ Interrupt(c) \/ Answer(c) \/ Malformed(c) \/ Actionless(c) \/ Undecided(c)
  \/ \E n \in 1..MaxActions : Act(c, n)
  \/ Unresolved(c)
  \/ \E t \in Calls : Fails(c, t) \/ Rejected(c, t) \/ Breaks(c, t)
  \/ \E t \in Calls, complete \in BOOLEAN : Succeeds(c, t, complete)
  \/ Settle(c) \/ Write(c) \/ Tell(c) \/ Raise(c) \/ Fail(c)

ClientStep(c) ==
  \/ Request(c) \/ Abandon(c) \/ Spawn(c) \/ Read(c)
  \/ StopRead(c) \/ StopWrite(c) \/ Hear(c)

Next == \E c \in Completions : RunStep(c) \/ ClientStep(c)

Spec == Init /\ [][Next]_vars
-----------------------------------------------------------------------------
(* Properties                                                                *)

Run == [stage : Stages, verdict : Final,
        after : {"tool", "tail", "returned", "raised"}, rounds : Nat, invalid : Nat,
        todo : Nat, attempt : Nat, rejected : Nat, failed : [Calls -> Nat],
        last : Calls \cup {NoCall}, times : Nat, done : BOOLEAN, emitted : BOOLEAN, poisoned : BOOLEAN]

\* Every variable keeps its type; a queue never outgrows its size, and only runs
\* that wait are in line.
TypeOK ==
  /\ row \in [Completions -> {"none", "in_progress"} \cup Final]
  /\ run \in [Completions -> Run]
  /\ heard \in [Completions -> Agent \cup {"never"}]
  /\ line \in Seq(Completions) /\ free \in 0..Slots
  /\ queue \in [Completions -> Seq(Events)]
  /\ \A c \in Completions : Len(queue[c]) <= QueueSize
  /\ lost \in [Completions -> BOOLEAN]
  /\ reader \in [Completions -> {"none", "reading", "closed"}]
  /\ shown \in [Completions -> {"none", "in_progress"} \cup Final]
  /\ stops \in Nat
  /\ stopper \in [Completions -> {"idle", "over", "in_progress"} \cup Final]
  /\ decided \in [Completions -> Final \cup {"none"}]
  /\ faulty \in [Completions -> BOOLEAN] /\ faults \in Nat

\* The runs between Acquire and End.
Holders == {c \in Completions : run[c].stage \notin {"idle", "saved", "abandoned", "waiting", "ended"}}

\* _AGENT_RUN_SEMAPHORE: whatever way a run ends, its slot is neither lost nor
\* given back twice, so no more than Slots agents ever run at once.
SlotsConserved == free + Cardinality(Holders) = Slots

\* A client that learns from completion.finished that a run has ended finds it
\* ended when it loads the completion, unless the database has failed the run.
AnnouncedIsWritten ==
  \A c \in Completions :
    ~faulty[c] /\ (\E i \in DOMAIN queue[c] : queue[c][i] \in Final) => row[c] \in Final

\* A run that is over has settled its completion unless the database has failed
\* it, and without a stop the status is the one it last decided on, or an error.
EndsSettled ==
  \A c \in Completions :
    At(c, "ended") /\ ~faulty[c] =>
      /\ row[c] \in Final
      /\ stopper[c] = "idle" => row[c] = "error" \/ row[c] = decided[c]

\* A stop that reaches the agent at the top of its loop or in the planner's
\* stream is obeyed: the run never decides for a success after it.
StopIsHonoured ==
  \A c \in Completions :
    heard[c] \in {"planning", "streaming"} => decided[c] \in {"none", "stopped", "error"}

\* No planner round starts after the end was announced, after a stop was heard,
\* or after a circuit breaker has tripped.
NoRoundAfterEnd ==
  [][\A c \in Completions : At(c, "planning") /\ run'[c].stage = "streaming" =>
       /\ decided[c] = "none" /\ heard[c] = "never"
       /\ run[c].times < MaxRepeats
       /\ \A t \in Calls : run[c].failed[t] < MaxToolFailures]_vars

\* The statuses every reader of the row goes by obey CompletionStatus: no success
\* is written over an error, none is decided on before it is written, and a stop
\* that came when the run had settled does not touch its status.  One that came
\* before may still be written over it, which the comment in
\* update_completion_sigkill rules out.
CS == INSTANCE CompletionStatus WITH pending <- {c \in Completions : stopper[c] = "in_progress"}
StatusKept == CS!Spec

\* A stream can always be read to its end: the sentinel of a run that has ended
\* waits in the queue until it is read, even if the queue was full.
StreamEnds ==
  \A c \in Completions :
    At(c, "ended") => reader[c] = "closed" \/ (queue[c] # <<>> /\ queue[c][Len(queue[c])] = "end")

\* A browser that has followed the stream to its end shows what a reload would
\* show, though the task around the agent announces a success over an error,
\* unless an event was dropped, somebody asked for a stop, or the database failed.
ShownIsWritten ==
  \A c \in Completions :
    reader[c] = "closed" /\ ~lost[c] /\ ~faulty[c] /\ stopper[c] = "idle" => shown[c] = row[c]
=============================================================================
