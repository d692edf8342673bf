------------------------------ MODULE UsageQuota ------------------------------
(***************************************************************************)
(* The monthly quotas of one user (usage_policy_service).  Language-model  *)
(* calls are checked against a cached copy of the counters, add what they  *)
(* used to a buffer of their context, and the buffer is written to the     *)
(* counters by a background task when the agent run is over.  Queries      *)
(* consume their quota at once, in a transaction of their own.             *)
(*                                                                         *)
(* An agent has a context of its own and one for its tools (for_source).   *)
(* The Judge and the planner of the knowledge harness are given neither.   *)
(* The counters live in PostgreSQL under READ COMMITTED: an UPDATE locks   *)
(* the row until its transaction ends, an INSERT waits for an uncommitted  *)
(* one of the same key.  All steps fall in one month.                      *)
(***************************************************************************)
EXTENDS Naturals, Sequences, FiniteSetsExt

CONSTANTS
  Agents,     \* agent runs of the user
  Policies,   \* the sequence of limits, in the order administrators put them in force
  NoLimit,    \* the limit of a metric a policy leaves open
  Estimates,  \* tokens a call announces
  Amounts,    \* tokens a call uses, bytes a query returns
  Costs,      \* what a call costs
  MaxSteps,   \* bound: calls and queries started, and faults met, by all runs
  Faults      \* the faults that happen, a subset of FaultKinds

Metrics == {"tokens", "cost", "queries", "bytes"}
Buffered == {"tokens", "cost"}
Enforced == {"queries", "bytes"}
FaultKinds == {"db_error", "ack_lost", "death"}
Times == DOMAIN Policies

ASSUME QuotaAssumption ==
  /\ NoLimit \notin Nat
  /\ Policies \in Seq([Metrics -> Nat \cup {NoLimit}]) /\ Policies # <<>>
  /\ \A n \in Estimates \cup Amounts : n \in Nat /\ n > 0
  /\ Costs \subseteq Nat
  /\ MaxSteps \in Nat
  /\ Faults \subseteq FaultKinds
  /\ IsFiniteSet(Agents) /\ "none" \notin Agents

Contexts == Agents \X {"agent", "tool"}

\* Where what a run really uses is entered: under the context that is told of
\* it, or under none.
Uses == Contexts \cup Agents \X {"none"}

VARIABLES
  policy,   \* the policy in force, an index of Policies
  used,     \* Metrics -> the committed counter; the row appears with the first amount
  holder,   \* Metrics -> the agent whose open transaction has changed the row
  events,   \* Contexts -> Metrics -> the sum of its committed UsageEvents
  pending,  \* Contexts -> Buffered -> the amounts not flushed yet
  cache,    \* Contexts -> the counters and the policy it loaded last
  proc,     \* Agents -> where each run is and what it remembers
  steps,    \* calls and queries started and faults met so far
  spent,    \* history: Uses -> Metrics -> what calls and queries really used
  floor,    \* history: Contexts -> policy and counters when its cache last expired
  faulty    \* history: the agents that have met a fault

counters == <<used, holder, events>>
buffers == <<pending, cache>>
history == <<spent, floor, faulty>>
vars == <<policy, counters, buffers, proc, steps, history>>

Labels == {"ready", "load", "load cost", "asking", "refused", "run",
           "flush", "begin", "update", "insert", "commit", "over"}

Process == [pc : Labels, kind : {"agent", "tool"}, metric : Metrics,
            amount : Nat,      \* announced by a call, or counted by a transaction
            value : Nat,       \* what its transaction has written to the row
            why : {"ttl", "cost", "tokens"},   \* what made it load the counters
            since : Times]     \* the policy in force when its check or transaction began

Known == [state : {"never", "fresh", "expired"}, policy : Times, tokens : Nat, cost : Nat]
Seen == [policy : Times, tokens : Nat, cost : Nat]

Context(a) == <<a, proc[a].kind>>
At(a, l) == proc[a].pc = l

\* Between two operations, and after the last, a run remembers nothing.
Resting(l) == [pc |-> l, kind |-> "agent", metric |-> "tokens", amount |-> 0,
               value |-> 0, why |-> "ttl", since |-> 1]

Go(a, p) == proc' = [proc EXCEPT ![a] = IF p.pc \in {"ready", "over"} THEN Resting(p.pc) ELSE p]

Limit(t, m) == Policies[t][m]

\* One more call, query or fault.
Another == steps < MaxSteps /\ steps' = steps + 1

\* An amount fits a limit, if there is one.
Fits(n, limit) == limit = NoLimit \/ n <= limit
-----------------------------------------------------------------------------
Init ==
  /\ policy = 1
  /\ used = [m \in Metrics |-> 0]
  /\ holder = [m \in Metrics |-> "none"]
  /\ events = [c \in Contexts |-> [m \in Metrics |-> 0]]
  /\ pending = [c \in Contexts |-> [m \in Buffered |-> 0]]
  /\ cache = [c \in Contexts |-> [state |-> "never", policy |-> policy, tokens |-> 0, cost |-> 0]]
  /\ proc = [a \in Agents |-> Resting("ready")]
  /\ steps = 0
  /\ spent = [u \in Uses |-> [m \in Metrics |-> 0]]
  /\ floor = [c \in Contexts |-> [policy |-> policy, tokens |-> 0, cost |-> 0]]
  /\ faulty = {}

\* An administrator edits the policy or its assignments.
EditPolicy ==
  /\ policy + 1 \in Times
  /\ policy' = policy + 1
  /\ UNCHANGED <<steps, counters, buffers, proc, history>>

\* Fault: a misspelt state.
ExpireMisspelt(c) ==
  /\ cache[c].state = "fresh"
  /\ cache' = [cache EXCEPT ![c].state = "stale"]
  /\ UNCHANGED <<policy, steps, counters, pending, proc, history>>

\* Thirty seconds have passed since c loaded the counters; a load under way
\* starts them afresh.
Expire(c) ==
  /\ cache[c].state = "fresh"
  /\ ~(Context(c[1]) = c /\ proc[c[1]].pc \in {"load", "load cost"})
  /\ cache' = [cache EXCEPT ![c].state = "expired"]
  /\ floor' = [floor EXCEPT ![c] = [policy |-> policy, tokens |-> used["tokens"], cost |-> used["cost"]]]
  /\ UNCHANGED <<policy, steps, counters, pending, proc, spent, faulty>>
-----------------------------------------------------------------------------
(* check_tokens, _enforce_spend_cap and _refresh_quota_cache *)

\* Fault: what does not fit the cached counters is refused at once.
VerdictHasty(known, buffer, amount, why) ==
  IF /\ Fits(known.cost + buffer["cost"] + 1, Limit(known.policy, "cost"))
     /\ Fits(known.tokens + buffer["tokens"] + amount, Limit(known.policy, "tokens"))
  THEN "asking" ELSE "refused"

\* What a check of an announced amount finds in what the context knows: the
\* call may go ahead, it must not, or the counters must be loaded first.
Verdict(known, buffer, amount, why) ==
  LET overspent == /\ why # "tokens" /\ Limit(known.policy, "cost") # NoLimit
                   /\ known.cost + buffer["cost"] >= Limit(known.policy, "cost")
      fits == Fits(known.tokens + buffer["tokens"] + amount, Limit(known.policy, "tokens"))
  IN  CASE overspent           -> IF why = "cost" THEN "refused" ELSE "reload cost"
        [] ~overspent /\ fits  -> "asking"
        [] ~overspent /\ ~fits -> IF why = "tokens" THEN "refused" ELSE "reload tokens"

\* a goes on as the verdict says.
Follow(a, p, verdict) ==
  Go(a, CASE verdict = "reload cost"   -> [p EXCEPT !.pc = "load", !.why = "cost"]
          [] verdict = "reload tokens" -> [p EXCEPT !.pc = "load", !.why = "tokens"]
          [] OTHER                     -> [p EXCEPT !.pc = verdict])

\* Fault: a cache once loaded is good for ever.
StartCallUntimed(a, k, n) ==
  LET c == <<a, k>>
      p == [proc[a] EXCEPT !.kind = k, !.amount = n, !.since = policy]
  IN  /\ At(a, "ready") /\ Another
      /\ IF cache[c].state # "never"
         THEN Follow(a, p, Verdict(cache[c], pending[c], n, "ttl"))
         ELSE Go(a, [p EXCEPT !.pc = "load", !.why = "ttl"])
      /\ UNCHANGED <<policy, counters, buffers, history>>

\* A call of the agent or of one of its tools, made with the context of either,
\* announces n tokens.
StartCall(a, k, n) ==
  LET c == <<a, k>>
      p == [proc[a] EXCEPT !.kind = k, !.amount = n, !.since = policy]
  IN  /\ At(a, "ready") /\ Another
      /\ IF cache[c].state = "fresh"
         THEN Follow(a, p, Verdict(cache[c], pending[c], n, "ttl"))
         ELSE Go(a, [p EXCEPT !.pc = "load", !.why = "ttl"])
      /\ UNCHANGED <<policy, counters, buffers, history>>

\* The limits and the token counter are read; a counter without a limit is not.
Load(a) ==
  LET c == Context(a) IN
  /\ At(a, "load")
  /\ cache' = [cache EXCEPT ![c].policy = policy,
                            ![c].tokens = IF Limit(policy, "tokens") = NoLimit THEN 0 ELSE used["tokens"]]
  /\ Go(a, [proc[a] EXCEPT !.pc = "load cost"])
  /\ UNCHANGED <<policy, steps, counters, pending, history>>

\* The spend counter is read by the next statement, and the check goes on.
LoadCost(a) ==
  LET c == Context(a)
      known == [cache[c] EXCEPT !.state = "fresh",
                                !.cost = IF Limit(cache[c].policy, "cost") = NoLimit THEN 0 ELSE used["cost"]]
  IN  /\ At(a, "load cost")
      /\ cache' = [cache EXCEPT ![c] = known]
      /\ Follow(a, proc[a], Verdict(known, pending[c], proc[a].amount, proc[a].why))
      /\ UNCHANGED <<policy, steps, counters, pending, history>>

\* The provider answers: the call adds what it used to the buffer of its
\* context.  A call that fails or is broken off adds nothing.
Answer(a, n, cost) ==
  LET c == Context(a) IN
  /\ At(a, "asking")
  /\ pending' = [pending EXCEPT ![c] = [tokens |-> @["tokens"] + n, cost |-> @["cost"] + cost]]
  /\ spent' = [spent EXCEPT ![c]["tokens"] = @ + n, ![c]["cost"] = @ + cost]
  /\ Go(a, [proc[a] EXCEPT !.pc = "ready"])
  /\ UNCHANGED <<policy, steps, counters, cache, floor, faulty>>

NoAnswer(a) ==
  /\ At(a, "asking") \/ At(a, "refused")
  /\ Go(a, [proc[a] EXCEPT !.pc = "ready"])
  /\ UNCHANGED <<policy, steps, counters, buffers, history>>

\* A call of the Judge or of the harness's planner, made without a context, is
\* neither checked nor buffered.  The Judge works in the background, the last
\* time perhaps after the run's flush.
CallWithout(a, n, cost) ==
  /\ ~(At(a, "over") /\ a \in faulty) /\ Another
  /\ spent' = [spent EXCEPT ![<<a, "none">>]["tokens"] = @ + n, ![<<a, "none">>]["cost"] = @ + cost]
  /\ UNCHANGED <<policy, counters, buffers, proc, floor, faulty>>
-----------------------------------------------------------------------------
(* record_llm_tokens, record_llm_cost, consume_data_query, consume_data_bytes *)
(* and _increment_counter: one transaction per amount                         *)

\* The transaction of an amount of metric m begins.
Count(a, p, m, n) == Go(a, [p EXCEPT !.pc = "begin", !.metric = m, !.amount = n])

\* Fault: a query answered from the result cache is not counted.
StartQueryUncounted(a) ==
  /\ At(a, "ready") /\ Another
  /\ Go(a, [proc[a] EXCEPT !.pc = "run", !.kind = "tool", !.metric = "queries"])
  /\ UNCHANGED <<policy, counters, buffers, history>>

\* A query of a tool asks for its quota before it runs.
StartQuery(a) ==
  /\ At(a, "ready") /\ Another
  /\ Count(a, [proc[a] EXCEPT !.kind = "tool"], "queries", 1)
  /\ UNCHANGED <<policy, counters, buffers, history>>

\* Fault: a flush ends with the tokens.
SucceedEarly(a) ==
  LET m == proc[a].metric IN
  /\ Go(a, [proc[a] EXCEPT !.pc = IF m = "queries" THEN "run" ELSE IF m = "bytes" THEN "ready" ELSE "over"])
  /\ UNCHANGED buffers

\* After the transaction of an amount has ended well: a flush goes on with the
\* cost, a query runs.  A flush adds the amount to what the context knows.
Succeed(a) ==
  LET c == Context(a)
      m == proc[a].metric
  IN  /\ Go(a, [proc[a] EXCEPT !.pc = CASE m = "tokens"  -> "flush"
                                        [] m = "cost"    -> "over"
                                        [] m = "queries" -> "run"
                                        [] m = "bytes"   -> "ready",
                               !.metric = IF m = "tokens" THEN "cost" ELSE m,
                               !.amount = 0, !.value = 0])
      /\ cache' = CASE m = "tokens" -> [cache EXCEPT ![c].tokens = @ + proc[a].amount]
                    [] m = "cost"   -> [cache EXCEPT ![c].cost = @ + proc[a].amount]
                    [] OTHER        -> cache
      /\ UNCHANGED pending

\* Fault: a failed flush is tried again at once.
FailRetried(a) ==
  LET m == proc[a].metric IN
  /\ pending' = IF m \in Buffered
                THEN [pending EXCEPT ![Context(a)][m] = @ + proc[a].amount]
                ELSE pending
  /\ Go(a, [proc[a] EXCEPT !.pc = IF m \in Buffered THEN "flush" ELSE "ready"])
  /\ UNCHANGED cache

\* After it has failed: a flush gives the amount back to the buffer and stops
\* there, a query fails.
Fail(a) ==
  LET m == proc[a].metric IN
  /\ pending' = IF m \in Buffered
                THEN [pending EXCEPT ![Context(a)][m] = @ + proc[a].amount]
                ELSE pending
  /\ Go(a, [proc[a] EXCEPT !.pc = IF m \in Buffered THEN "over" ELSE "ready"])
  /\ UNCHANGED cache

\* The effective limits are resolved; without one nothing is counted.
Begin(a) ==
  /\ At(a, "begin")
  /\ IF Limit(policy, proc[a].metric) = NoLimit
     THEN Succeed(a)
     ELSE /\ Go(a, [proc[a] EXCEPT !.pc = "update", !.since = policy])
          /\ UNCHANGED buffers
  /\ UNCHANGED <<policy, steps, counters, history>>

\* Fault: the UPDATE writes a value read earlier, without waiting for the row.
UpdateUnlocked(a) ==
  LET m == proc[a].metric IN
  /\ At(a, "update")
  /\ IF used[m] = 0
     THEN Go(a, [proc[a] EXCEPT !.pc = "insert"]) /\ UNCHANGED holder
     ELSE /\ holder' = [holder EXCEPT ![m] = a]
          /\ Go(a, [proc[a] EXCEPT !.pc = "commit", !.value = used[m] + proc[a].amount])
  /\ UNCHANGED <<policy, steps, used, events, buffers, history>>

\* UPDATE ... SET used = used + amount finds no committed row, or waits for it.
Update(a) ==
  LET m == proc[a].metric IN
  /\ At(a, "update")
  /\ \/ /\ used[m] = 0
        /\ Go(a, [proc[a] EXCEPT !.pc = "insert"])
        /\ UNCHANGED holder
     \/ /\ used[m] > 0 /\ holder[m] = "none"
        /\ holder' = [holder EXCEPT ![m] = a]
        /\ Go(a, [proc[a] EXCEPT !.pc = "commit", !.value = used[m] + proc[a].amount])
  /\ UNCHANGED <<policy, steps, used, events, buffers, history>>

\* INSERT waits for an uncommitted row of the same key.  If that one has been
\* committed, the unique constraint fails, everything is rolled back and the
\* UPDATE is tried again.
Insert(a) ==
  LET m == proc[a].metric IN
  /\ At(a, "insert") /\ holder[m] = "none"
  /\ \/ /\ used[m] > 0
        /\ Go(a, [proc[a] EXCEPT !.pc = "update"])
        /\ UNCHANGED holder
     \/ /\ used[m] = 0
        /\ holder' = [holder EXCEPT ![m] = a]
        /\ Go(a, [proc[a] EXCEPT !.pc = "commit", !.value = proc[a].amount])
  /\ UNCHANGED <<policy, steps, used, events, buffers, history>>

\* Fault: the limit is compared with the counter as it was before.
WithinBefore(a) ==
  proc[a].metric \in Buffered \/ Fits(used[proc[a].metric], Limit(proc[a].since, proc[a].metric))

\* A query's quota is enforced on what the transaction itself sees in the row.
Within(a) ==
  proc[a].metric \in Buffered \/ Fits(proc[a].value, Limit(proc[a].since, proc[a].metric))

\* Closing the session of a refused query rolls its transaction back.
Refuse(a) ==
  /\ At(a, "commit") /\ ~Within(a)
  /\ holder' = [holder EXCEPT ![proc[a].metric] = "none"]
  /\ Fail(a)
  /\ UNCHANGED <<policy, steps, used, events, history>>

\* The new value of the row and the event that explains it become visible.
Commit(a) ==
  LET m == proc[a].metric IN
  /\ At(a, "commit") /\ Within(a)
  /\ used' = [used EXCEPT ![m] = proc[a].value]
  /\ events' = [events EXCEPT ![Context(a)][m] = @ + proc[a].amount]
  /\ holder' = [holder EXCEPT ![m] = "none"]

CommitWell(a) ==
  /\ Commit(a)
  /\ Succeed(a)
  /\ UNCHANGED <<policy, steps, history>>

\* The query runs, whether it succeeds or not; the bytes of its result are
\* counted when they have been read.
Run(a, n) ==
  /\ At(a, "run")
  /\ spent' = [spent EXCEPT ![Context(a)]["queries"] = @ + 1, ![Context(a)]["bytes"] = @ + n]
  /\ IF n = 0 THEN Go(a, [proc[a] EXCEPT !.pc = "ready"]) ELSE Count(a, proc[a], "bytes", n)
  /\ UNCHANGED <<policy, steps, counters, buffers, floor, faulty>>
-----------------------------------------------------------------------------
(* flush *)

\* The run is over: the agent's context is flushed in the background, the
\* context of its tools is not.
EndRun(a) ==
  /\ At(a, "ready")
  /\ Go(a, [proc[a] EXCEPT !.pc = "flush", !.kind = "agent", !.metric = "tokens"])
  /\ UNCHANGED <<policy, steps, counters, buffers, history>>

\* _flush_tokens, then _flush_cost: the buffer is emptied before its amount is
\* written.
Flush(a) ==
  LET m == proc[a].metric
      n == pending[Context(a)][m]
  IN  /\ At(a, "flush")
      /\ IF n > 0
         THEN Count(a, proc[a], m, n) /\ pending' = [pending EXCEPT ![Context(a)][m] = 0]
         ELSE /\ Go(a, [proc[a] EXCEPT !.pc = IF m = "tokens" THEN "flush" ELSE "over", !.metric = "cost"])
              /\ UNCHANGED pending
      /\ UNCHANGED <<policy, steps, counters, cache, history>>
-----------------------------------------------------------------------------
(* faults *)

\* Fault f happens to a.
Happens(a, f) == f \in Faults /\ Another /\ faulty' = faulty \cup {a}

InTransaction(a) == proc[a].pc \in {"begin", "update", "insert", "commit"}

\* What a has written and not committed is rolled back.
Release(a) == holder' = [m \in Metrics |-> IF holder[m] = a THEN "none" ELSE holder[m]]

\* A statement fails: a check fails with it, a transaction is rolled back.
DbError(a) ==
  /\ Happens(a, "db_error")
  /\ \/ InTransaction(a) /\ Fail(a)
     \/ proc[a].pc \in {"load", "load cost"} /\ Go(a, [proc[a] EXCEPT !.pc = "ready"]) /\ UNCHANGED buffers
  /\ Release(a)
  /\ UNCHANGED <<policy, used, events, spent, floor>>

\* COMMIT takes effect but its answer is lost.
AckLost(a) ==
  /\ Happens(a, "ack_lost")
  /\ Commit(a)
  /\ Fail(a)
  /\ UNCHANGED <<policy, spent, floor>>

\* The worker process dies, or its loop stops before the flush has run.
Die(a) ==
  /\ Happens(a, "death")
  /\ ~At(a, "over")
  /\ Release(a)
  /\ pending' = [c \in Contexts |-> IF c[1] = a THEN [m \in Buffered |-> 0] ELSE pending[c]]
  /\ Go(a, Resting("over"))
  /\ UNCHANGED <<policy, used, events, cache, spent, floor>>
-----------------------------------------------------------------------------
CallStep(a) ==
  \/ \E k \in {"agent", "tool"}, n \in Estimates : StartCall(a, k, n)
  \/ Load(a)
  \/ LoadCost(a)
  \/ \E n \in Amounts, cost \in Costs : Answer(a, n, cost)
  \/ NoAnswer(a)

CountStep(a) ==
  \/ StartQuery(a)
  \/ Begin(a)
  \/ Update(a)
  \/ Insert(a)
  \/ Refuse(a)
  \/ CommitWell(a)
  \/ \E n \in Amounts \cup {0} : Run(a, n)
  \/ EndRun(a)
  \/ Flush(a)

Next ==
  \/ EditPolicy
  \/ \E c \in Contexts : Expire(c)
  \/ \E a \in Agents, n \in Amounts, cost \in Costs : CallWithout(a, n, cost)
  \/ \E a \in Agents : CallStep(a) \/ CountStep(a) \/ DbError(a) \/ AckLost(a) \/ Die(a)

Spec == Init /\ [][Next]_vars
-----------------------------------------------------------------------------
TypeOK ==
  /\ policy \in Times
  /\ used \in [Metrics -> Nat]
  /\ holder \in [Metrics -> Agents \cup {"none"}]
  /\ events \in [Contexts -> [Metrics -> Nat]]
  /\ pending \in [Contexts -> [Buffered -> Nat]]
  /\ cache \in [Contexts -> Known]
  /\ proc \in [Agents -> Process]
  /\ steps \in Nat
  /\ spent \in [Uses -> [Metrics -> Nat]]
  /\ floor \in [Contexts -> Seen]
  /\ faulty \subseteq Agents

\* Every counter is the sum of the events that explain it: two transactions of
\* the same user never overwrite each other's amounts, not even when both find
\* no row and race to insert the first one of the month.
EventsAddUp ==
  \A m \in Metrics : used[m] = MapThenSumSet(LAMBDA c : events[c][m], Contexts)

\* Nobody is charged for more than calls and results really used, whatever
\* fails: a flush whose commit took effect and was reported as failed gives its
\* amount back to the buffer, and only the end of the run keeps it from being
\* counted again.
NeverOvercharged ==
  \A c \in Contexts, m \in Metrics \ {"queries"} : events[c][m] <= spent[c][m]

\* A metric has a limit under every policy.
Capped(m) == \A t \in Times : Limit(t, m) # NoLimit

\* No query reaches the data source without having been counted.
NoFreeQuery ==
  Capped("queries") => \A c \in Contexts : spent[c]["queries"] <= events[c]["queries"]

\* When the flush of a run that meets no fault has ended, what the run is charged
\* is exactly what the calls made with its agent's context have used, tokens and
\* cost alike: neither more nor less, and nothing of what its tools' calls and
\* the calls of the Judge and of the harness, made without a context, have used.
RunIsCharged ==
  \A a \in Agents \ faulty, m \in Buffered :
    At(a, "over") /\ Capped(m) =>
      events[<<a, "agent">>][m] + events[<<a, "tool">>][m] = spent[<<a, "agent">>][m]

\* n of metric m is within a limit that has been in force since t.
Allowed(n, m, t) == \E s \in t .. policy : Fits(n, Limit(s, m))

\* A call goes ahead only if it fits the budget as it was when the context's
\* cache last expired, under a policy in force since: what other runs flush is
\* taken into account after the time to live at the latest.  (A load that fails
\* half-way leaves a new limit beside an old count.)
AdmissionIsTimely ==
  [][\A a \in Agents \ faulty : LET c == Context(a)' IN
       ~At(a, "asking") /\ At(a, "asking")' =>
         /\ Allowed(floor[c].tokens + pending[c]["tokens"] + proc'[a].amount, "tokens", floor[c].policy)
         /\ Allowed(floor[c].cost + pending[c]["cost"] + 1, "cost", floor[c].policy)]_vars

\* A call is refused only if it does not fit a budget that was in force while
\* it was checked, on the counters as they are: never because of what the cache
\* remembers of an older policy.
RejectionIsReal ==
  [][\A a \in Agents : LET c == Context(a) IN
       ~At(a, "refused") /\ At(a, "refused")' =>
         \E t \in proc[a].since .. policy :
           \/ ~Fits(used["tokens"] + pending[c]["tokens"] + proc[a].amount, Limit(t, "tokens"))
           \/ ~Fits(used["cost"] + pending[c]["cost"] + 1, Limit(t, "cost"))]_vars

\* Queries and bytes never take a counter beyond a limit that was in force
\* during their transaction, however many runs consume at once: the row stays
\* locked until the transaction ends, and an increment that passes the limit is
\* rolled back with it.  The docstring of _increment_counter says otherwise: the
\* row lock is released after the statement, and a slight over-shoot accepted.
LimitHolds ==
  [][\A m \in Enforced : used'[m] > used[m] =>
       \E a \in Agents : At(a, "commit") /\ proc[a].metric = m /\ Allowed(used'[m], m, proc[a].since)]_vars
=============================================================================
