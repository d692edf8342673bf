-------------------------- MODULE UsageQuota_proofs --------------------------
(***************************************************************************)
(* Theorems about UsageQuota, for any runs, policies, amounts and faults.  *)
(***************************************************************************)
EXTENDS UsageQuota, TLAPS

InAgent(a) == proc[a].kind = "agent"

\* A transaction of the agent's own context writes its buffer, one of a tool's
\* context counts a query.
KindsAgree ==
  \A a \in Agents :
    /\ At(a, "flush") => InAgent(a) /\ proc[a].metric \in Buffered
    /\ At(a, "run") => ~InAgent(a) /\ proc[a].metric = "queries"
    /\ InTransaction(a) => (InAgent(a) <=> proc[a].metric \in Buffered)
-----------------------------------------------------------------------------
(* types *)

LEMMA RestingType ==
  ASSUME NEW l \in Labels
  PROVE  Resting(l) \in Process /\ Resting(l).pc = l
BY QuotaAssumption DEF Resting, Process, Metrics, Times

\* a is the only run that moves.
Moves(a) ==
  /\ proc' \in [Agents -> Process]
  /\ \A b \in Agents \ {a} : proc'[b] = proc[b]

\* Where a step of a leaves the runs.
LEMMA GoType ==
  ASSUME proc \in [Agents -> Process], NEW a \in Agents, NEW p \in Process, Go(a, p)
  PROVE  /\ Moves(a)
         /\ proc'[a].pc = p.pc
         /\ p.pc \notin {"ready", "over"} => proc'[a] = p
<1>1. p.pc \in Labels
  BY DEF Process
<1>2. Resting(p.pc) \in Process /\ Resting(p.pc).pc = p.pc
  BY <1>1, RestingType
<1> QED
  BY <1>2 DEF Go, Moves

LEMMA ContextType ==
  ASSUME proc \in [Agents -> Process], NEW a \in Agents
  PROVE  Context(a) \in Contexts /\ Context(a)[1] = a
BY DEF Context, Contexts, Process

Verdicts == {"asking", "refused", "reload cost", "reload tokens"}

LEMMA VerdictKinds ==
  ASSUME NEW known, NEW buffer, NEW n, NEW why
  PROVE  Verdict(known, buffer, n, why) \in Verdicts
BY DEF Verdict, Verdicts

LEMMA FollowType ==
  ASSUME proc \in [Agents -> Process], NEW a \in Agents, NEW p \in Process,
         NEW v \in Verdicts, Follow(a, p, v)
  PROVE  /\ Moves(a)
         /\ v = "reload cost" => proc'[a] = [p EXCEPT !.pc = "load", !.why = "cost"]
         /\ v = "reload tokens" => proc'[a] = [p EXCEPT !.pc = "load", !.why = "tokens"]
         /\ v \in {"asking", "refused"} => proc'[a] = [p EXCEPT !.pc = v]
         /\ proc'[a].pc \in {"load", "asking", "refused"}
<1>1. CASE v = "reload cost"
  <2>1. Go(a, [p EXCEPT !.pc = "load", !.why = "cost"])
    BY <1>1 DEF Follow
  <2>2. [p EXCEPT !.pc = "load", !.why = "cost"] \in Process /\ [p EXCEPT !.pc = "load", !.why = "cost"].pc = "load"
    BY DEF Process, Labels
  <2> QED
    BY <1>1, <2>1, <2>2, GoType
<1>2. CASE v = "reload tokens"
  <2>1. Go(a, [p EXCEPT !.pc = "load", !.why = "tokens"])
    BY <1>2 DEF Follow
  <2>2. [p EXCEPT !.pc = "load", !.why = "tokens"] \in Process /\ [p EXCEPT !.pc = "load", !.why = "tokens"].pc = "load"
    BY DEF Process, Labels
  <2> QED
    BY <1>2, <2>1, <2>2, GoType
<1>3. CASE v \in {"asking", "refused"}
  <2>1. Go(a, [p EXCEPT !.pc = v])
    BY <1>3 DEF Follow
  <2>2. [p EXCEPT !.pc = v] \in Process /\ [p EXCEPT !.pc = v].pc = v
    BY <1>3 DEF Process, Labels
  <2> QED
    BY <1>3, <2>1, <2>2, GoType
<1> QED
  BY <1>1, <1>2, <1>3 DEF Verdicts

\* What a call or a query adds to what it used keeps its type.
LEMMA SpentType ==
  ASSUME TypeOK, NEW x \in Uses, NEW i \in Metrics, NEW j \in Metrics, NEW n \in Nat, NEW k \in Nat,
         spent' = [spent EXCEPT ![x] = [spent[x] EXCEPT ![i] = @ + n, ![j] = @ + k]]
  PROVE  spent' \in [Uses -> [Metrics -> Nat]]
<1> DEFINE f == spent[x]
           q == [f EXCEPT ![i] = @ + n, ![j] = @ + k]
<1>1. f \in [Metrics -> Nat] /\ spent' = [spent EXCEPT ![x] = q]
  BY DEF TypeOK
<1> HIDE DEF f
<1>2. q \in [Metrics -> Nat]
  BY <1>1
<1> HIDE DEF q
<1> QED
  BY <1>1, <1>2 DEF TypeOK

LEMMA ContextsUsed == Contexts \subseteq Uses
BY DEF Uses

LEMMA TypeCall ==
  ASSUME TypeOK, NEW a \in Agents, CallStep(a)
  PROVE  TypeOK'
<1> USE DEF TypeOK
<1>0. proc[a] \in Process /\ Context(a) \in Contexts
  BY ContextType
<1>1. CASE \E k \in {"agent", "tool"}, n \in Estimates : StartCall(a, k, n)
  <2>1. PICK k \in {"agent", "tool"}, n \in Estimates : StartCall(a, k, n)
    BY <1>1
  <2> DEFINE p == [proc[a] EXCEPT !.kind = k, !.amount = n, !.since = policy]
  <2>2. n \in Nat /\ p \in Process
    BY <1>0, QuotaAssumption DEF Process
  <2>3. steps' \in Nat
    BY <2>1 DEF StartCall, Another
  <2>4. proc' \in [Agents -> Process]
    <3>1. CASE cache[<<a, k>>].state = "fresh"
      <4>1. Follow(a, p, Verdict(cache[<<a, k>>], pending[<<a, k>>], n, "ttl"))
        BY <2>1, <3>1 DEF StartCall
      <4> HIDE DEF p
      <4>2. Verdict(cache[<<a, k>>], pending[<<a, k>>], n, "ttl")
              \in Verdicts
        BY VerdictKinds
      <4> QED
        BY <2>2, <4>1, <4>2, FollowType DEF Moves
    <3>2. CASE cache[<<a, k>>].state # "fresh"
      <4>1. Go(a, [p EXCEPT !.pc = "load", !.why = "ttl"])
        BY <2>1, <3>2 DEF StartCall
      <4>2. [p EXCEPT !.pc = "load", !.why = "ttl"] \in Process
        BY <2>2 DEF Process, Labels
      <4> QED
        BY <4>1, <4>2, GoType DEF Moves
    <3> QED
      BY <3>1, <3>2
  <2> QED
    BY <2>1, <2>3, <2>4 DEF StartCall, counters, buffers, history
<1>2. CASE Load(a)
  <2>1. [proc[a] EXCEPT !.pc = "load cost"] \in Process
    BY <1>0 DEF Process, Labels
  <2>2. proc' \in [Agents -> Process]
    BY <1>2, <2>1, GoType DEF Moves, Load
  <2>3. cache' \in [Contexts -> Known]
    BY <1>0, <1>2, ZenonT(60) DEF Load, Known, Metrics
  <2> QED
    BY <1>2, <2>2, <2>3 DEF Load, counters, history
<1>3. CASE LoadCost(a)
  <2> DEFINE known == [cache[Context(a)] EXCEPT !.state = "fresh",
                         !.cost = IF Limit(cache[Context(a)].policy, "cost") = NoLimit THEN 0 ELSE used["cost"]]
  <2>1. known \in Known
    BY <1>0 DEF Known, Metrics
  <2>2. cache' = [cache EXCEPT ![Context(a)] = known]
    BY <1>3 DEF LoadCost
  <2>3. cache' \in [Contexts -> Known]
    BY <2>1, <2>2
  <2>4. Follow(a, proc[a], Verdict(known, pending[Context(a)], proc[a].amount, proc[a].why))
    BY <1>3 DEF LoadCost
  <2> HIDE DEF known
  <2>5. Verdict(known, pending[Context(a)], proc[a].amount, proc[a].why)
          \in Verdicts
    BY VerdictKinds
  <2>6. proc' \in [Agents -> Process]
    BY <1>0, <2>4, <2>5, FollowType DEF Moves
  <2> QED
    BY <1>3, <2>3, <2>6 DEF LoadCost, counters, history
<1>4. CASE \E n \in Amounts, cost \in Costs : Answer(a, n, cost)
  <2>1. PICK n \in Amounts, cost \in Costs : Answer(a, n, cost)
    BY <1>4
  <2>2. n \in Nat /\ cost \in Nat
    BY QuotaAssumption
  <2>3. [proc[a] EXCEPT !.pc = "ready"] \in Process
    BY <1>0 DEF Process, Labels
  <2>4. proc' \in [Agents -> Process]
    BY <2>1, <2>3, GoType DEF Moves, Answer
  <2>5. pending' \in [Contexts -> [Buffered -> Nat]]
    <3> DEFINE q == [tokens |-> pending[Context(a)]["tokens"] + n, cost |-> pending[Context(a)]["cost"] + cost]
    <3>1. pending' = [pending EXCEPT ![Context(a)] = q]
      BY <1>0, <2>1 DEF Answer
    <3>2. q["tokens"] \in Nat /\ q["cost"] \in Nat /\ q = [m \in {"tokens", "cost"} |-> q[m]]
      BY <1>0, <2>2 DEF Buffered
    <3> HIDE DEF q
    <3>3. q \in [Buffered -> Nat]
      BY <3>2 DEF Buffered
    <3> QED
      BY <3>1, <3>3
  <2>6. spent' \in [Uses -> [Metrics -> Nat]]
    <3> DEFINE c == Context(a)
    <3>1. spent' = [spent EXCEPT ![c] = [spent[c] EXCEPT !["tokens"] = @ + n, !["cost"] = @ + cost]]
      BY <2>1 DEF Answer
    <3>2. c \in Uses /\ "tokens" \in Metrics /\ "cost" \in Metrics
      BY <1>0, ContextsUsed DEF Metrics
    <3> HIDE DEF c
    <3> QED
      BY <2>2, <3>1, <3>2, SpentType
  <2> QED
    BY <2>1, <2>4, <2>5, <2>6 DEF Answer, counters
<1>5. CASE NoAnswer(a)
  <2>1. [proc[a] EXCEPT !.pc = "ready"] \in Process
    BY <1>0 DEF Process, Labels
  <2>2. proc' \in [Agents -> Process]
    BY <1>5, <2>1, GoType DEF Moves, NoAnswer
  <2> QED
    BY <1>5, <2>2 DEF NoAnswer, counters, buffers, history
<1> QED
  BY <1>1, <1>2, <1>3, <1>4, <1>5 DEF CallStep

\* A call made without a context is entered under none and changes nothing else.
LEMMA TypeWithout ==
  ASSUME TypeOK, NEW a \in Agents, NEW n \in Amounts, NEW cost \in Costs, CallWithout(a, n, cost)
  PROVE  TypeOK' /\ \A c \in Contexts : spent'[c] = spent[c]
<1>1. n \in Nat /\ cost \in Nat /\ <<a, "none">> \in Uses
  BY QuotaAssumption DEF Uses
<1> DEFINE x == <<a, "none">>
<1>2. spent' = [spent EXCEPT ![x] = [spent[x] EXCEPT !["tokens"] = @ + n, !["cost"] = @ + cost]]
  BY DEF CallWithout
<1>3. x \in Uses /\ "tokens" \in Metrics /\ "cost" \in Metrics
  BY <1>1 DEF Metrics
<1>4. spent' \in [Uses -> [Metrics -> Nat]] /\ steps' \in Nat
  <2> HIDE DEF x
  <2>1. spent' \in [Uses -> [Metrics -> Nat]]
    BY <1>1, <1>2, <1>3, SpentType
  <2>2. steps' \in Nat
    BY DEF CallWithout, Another, TypeOK
  <2> QED
    BY <2>1, <2>2
<1>5. \A c \in Contexts : c \in Uses /\ c # <<a, "none">>
  BY DEF Contexts, Uses
<1>6. \A c \in Contexts : spent'[c] = spent[c]
  BY <1>2, <1>5 DEF TypeOK
<1> QED
  BY <1>4, <1>6 DEF CallWithout, counters, buffers, TypeOK

\* The run a whose transaction has ended well.
Succeeded(a) ==
  LET m == proc[a].metric IN
  [proc[a] EXCEPT !.pc = CASE m = "tokens"  -> "flush"
                           [] m = "cost"    -> "over"
                           [] m = "queries" -> "run"
                           [] m = "bytes"   -> "ready",
                  !.metric = IF m = "tokens" THEN "cost" ELSE m,
                  !.amount = 0, !.value = 0]

LEMMA KnownSet ==
  ASSUME NEW k \in Known, NEW n \in Nat
  PROVE  [k EXCEPT !.tokens = n] \in Known /\ [k EXCEPT !.cost = n] \in Known
BY DEF Known

LEMMA SucceedEffect ==
  ASSUME TypeOK, NEW a \in Agents, Succeed(a)
  PROVE  /\ Moves(a)
         /\ proc'[a].pc = Succeeded(a).pc
         /\ Succeeded(a).pc \notin {"ready", "over"} => proc'[a] = Succeeded(a)
         /\ cache' \in [Contexts -> Known]
         /\ pending' = pending
<1> USE DEF TypeOK
<1>0. proc[a] \in Process /\ Context(a) \in Contexts
  BY ContextType
<1>1. Succeeded(a) \in Process
  BY <1>0 DEF Succeeded, Process, Metrics, Labels
<1>2. Go(a, Succeeded(a))
  BY DEF Succeed, Succeeded
<1>3. cache' \in [Contexts -> Known]
  <2>1. proc[a].amount \in Nat
    BY <1>0 DEF Process
  <2>2. cache[Context(a)] \in Known /\ cache[Context(a)].tokens \in Nat /\ cache[Context(a)].cost \in Nat
    BY <1>0 DEF Known
  <2>3. CASE proc[a].metric = "tokens"
    <3> DEFINE n == cache[Context(a)].tokens + proc[a].amount
               k == [cache[Context(a)] EXCEPT !.tokens = n]
    <3>1. cache' = [cache EXCEPT ![Context(a)] = k]
      BY <1>0, <2>3 DEF Succeed
    <3>2. n \in Nat
      BY <2>1, <2>2
    <3> HIDE DEF n
    <3>3. k \in Known
      BY <2>2, <3>2, KnownSet
    <3> HIDE DEF k
    <3> QED
      BY <1>0, <3>1, <3>3
  <2>4. CASE proc[a].metric = "cost"
    <3> DEFINE n == cache[Context(a)].cost + proc[a].amount
               k == [cache[Context(a)] EXCEPT !.cost = n]
    <3>1. cache' = [cache EXCEPT ![Context(a)] = k]
      BY <1>0, <2>4 DEF Succeed
    <3>2. n \in Nat
      BY <2>1, <2>2
    <3> HIDE DEF n
    <3>3. k \in Known
      BY <2>2, <3>2, KnownSet
    <3> HIDE DEF k
    <3> QED
      BY <1>0, <3>1, <3>3
  <2>5. CASE proc[a].metric \notin {"tokens", "cost"}
    BY <2>5 DEF Succeed
  <2> QED
    BY <2>3, <2>4, <2>5
<1>4. pending' = pending
  BY DEF Succeed
<1> HIDE DEF TypeOK
<1> QED
  BY <1>1, <1>2, <1>3, <1>4, GoType DEF TypeOK

LEMMA FailEffect ==
  ASSUME TypeOK, NEW a \in Agents, Fail(a)
  PROVE  /\ Moves(a)
         /\ proc'[a].pc = IF proc[a].metric \in Buffered THEN "over" ELSE "ready"
         /\ cache' = cache
         /\ pending' \in [Contexts -> [Buffered -> Nat]]
         /\ proc[a].metric \notin Buffered => pending' = pending
<1> DEFINE p == [proc[a] EXCEPT !.pc = IF proc[a].metric \in Buffered THEN "over" ELSE "ready"]
<1>0. proc[a] \in Process /\ Context(a) \in Contexts /\ proc[a].amount \in Nat
  BY ContextType DEF TypeOK, Process
<1>1. p \in Process /\ p.pc = IF proc[a].metric \in Buffered THEN "over" ELSE "ready"
  BY <1>0 DEF Process, Labels
<1>2. Go(a, p)
  BY DEF Fail
<1>3. pending' \in [Contexts -> [Buffered -> Nat]]
  <2>1. CASE proc[a].metric \in Buffered
    <3>1. pending' = [pending EXCEPT ![Context(a)][proc[a].metric] = @ + proc[a].amount]
      BY <2>1 DEF Fail
    <3> QED
      BY <1>0, <2>1, <3>1 DEF TypeOK
  <2>2. CASE proc[a].metric \notin Buffered
    BY <2>2 DEF Fail, TypeOK
  <2> QED
    BY <2>1, <2>2
<1>4. cache' = cache /\ (proc[a].metric \notin Buffered => pending' = pending)
  BY DEF Fail
<1> HIDE DEF p
<1> QED
  BY <1>1, <1>2, <1>3, <1>4, GoType DEF TypeOK

LEMMA CommitType ==
  ASSUME TypeOK, NEW a \in Agents, Commit(a)
  PROVE  /\ used' \in [Metrics -> Nat]
         /\ events' \in [Contexts -> [Metrics -> Nat]]
         /\ holder' \in [Metrics -> Agents \cup {"none"}]
<1> DEFINE m == proc[a].metric
<1>0. proc[a] \in Process /\ Context(a) \in Contexts /\ proc[a].amount \in Nat /\ proc[a].value \in Nat /\ m \in Metrics
  BY ContextType DEF TypeOK, Process
<1>1. used' \in [Metrics -> Nat]
  BY <1>0 DEF Commit, TypeOK
<1>2. events' \in [Contexts -> [Metrics -> Nat]]
  <2>1. events' = [events EXCEPT ![Context(a)][m] = @ + proc[a].amount]
    BY DEF Commit
  <2> QED
    BY <1>0, <2>1 DEF TypeOK
<1>3. holder' \in [Metrics -> Agents \cup {"none"}]
  BY <1>0 DEF Commit, TypeOK
<1> QED
  BY <1>1, <1>2, <1>3

\* Run p when the transaction of an amount of metric m begins.
Counting(p, m, n) == [p EXCEPT !.pc = "begin", !.metric = m, !.amount = n]

LEMMA CountType ==
  ASSUME proc \in [Agents -> Process], NEW a \in Agents, NEW p \in Process,
         NEW m \in Metrics, NEW n \in Nat, Count(a, p, m, n)
  PROVE  /\ Moves(a)
         /\ proc'[a] = Counting(p, m, n)
<1>1. Counting(p, m, n) \in Process /\ Counting(p, m, n).pc = "begin"
  BY DEF Counting, Process, Labels
<1>2. Go(a, Counting(p, m, n))
  BY DEF Count, Counting
<1> QED
  BY <1>1, <1>2, GoType

LEMMA CallEffect ==
  ASSUME TypeOK, NEW a \in Agents, CallStep(a)
  PROVE  /\ Moves(a)
         /\ proc'[a].pc \in {"ready", "load", "load cost", "asking", "refused"}
         /\ UNCHANGED <<policy, used, holder, events, faulty, floor>>
<1>0. proc \in [Agents -> Process] /\ proc[a] \in Process
  BY DEF TypeOK
<1>1. CASE \E k \in {"agent", "tool"}, n \in Estimates : StartCall(a, k, n)
  <2>1. PICK k \in {"agent", "tool"}, n \in Estimates : StartCall(a, k, n)
    BY <1>1
  <2> DEFINE p == [proc[a] EXCEPT !.kind = k, !.amount = n, !.since = policy]
             v == Verdict(cache[<<a, k>>], pending[<<a, k>>], n, "ttl")
  <2>2. n \in Nat /\ p \in Process
    BY <1>0, QuotaAssumption DEF Process, TypeOK
  <2>3. \/ Follow(a, p, v)
        \/ Go(a, [p EXCEPT !.pc = "load", !.why = "ttl"])
    BY <2>1 DEF StartCall
  <2>4. v \in Verdicts
    BY VerdictKinds
  <2>5. UNCHANGED <<policy, used, holder, events, faulty, floor>>
    BY <2>1 DEF StartCall, counters, history
  <2> HIDE DEF p, v
  <2>6. CASE Follow(a, p, v)
    BY <1>0, <2>2, <2>4, <2>5, <2>6, FollowType
  <2>7. CASE Go(a, [p EXCEPT !.pc = "load", !.why = "ttl"])
    <3>1. /\ [p EXCEPT !.pc = "load", !.why = "ttl"] \in Process
          /\ [p EXCEPT !.pc = "load", !.why = "ttl"].pc = "load"
      BY <2>2 DEF Process, Labels
    <3> QED
      BY <1>0, <2>5, <2>7, <3>1, GoType
  <2> QED
    BY <2>3, <2>6, <2>7
<1>2. CASE Load(a)
  <2>1. [proc[a] EXCEPT !.pc = "load cost"] \in Process /\ [proc[a] EXCEPT !.pc = "load cost"].pc = "load cost"
    BY <1>0 DEF Process, Labels
  <2> QED
    BY <1>0, <1>2, <2>1, GoType DEF Load, Moves, counters, history
<1>3. CASE LoadCost(a)
  <2>1. PICK v \in Verdicts : Follow(a, proc[a], v)
    BY <1>3, VerdictKinds DEF LoadCost
  <2>2. UNCHANGED <<policy, used, holder, events, faulty, floor>>
    BY <1>3 DEF LoadCost, counters, history
  <2> QED
    BY <1>0, <2>1, <2>2, FollowType
<1>4. CASE NoAnswer(a) \/ \E n \in Amounts, cost \in Costs : Answer(a, n, cost)
  <2>1. [proc[a] EXCEPT !.pc = "ready"] \in Process /\ [proc[a] EXCEPT !.pc = "ready"].pc = "ready"
    BY <1>0 DEF Process, Labels
  <2>2. Go(a, [proc[a] EXCEPT !.pc = "ready"])
    BY <1>4 DEF Answer, NoAnswer
  <2>3. UNCHANGED <<policy, used, holder, events, faulty, floor>>
    BY <1>4 DEF Answer, NoAnswer, counters, history
  <2> QED
    BY <1>0, <2>1, <2>2, <2>3, GoType
<1> QED
  BY <1>1, <1>2, <1>3, <1>4 DEF CallStep

LEMMA StartQueryEffect ==
  ASSUME TypeOK, NEW a \in Agents, StartQuery(a)
  PROVE  Moves(a) /\ proc'[a] = Counting([proc[a] EXCEPT !.kind = "tool"], "queries", 1)
<1> DEFINE p == [proc[a] EXCEPT !.kind = "tool"]
<1>1. proc \in [Agents -> Process] /\ p \in Process
  BY DEF TypeOK, Process
<1>2. Count(a, p, "queries", 1) /\ "queries" \in Metrics /\ 1 \in Nat
  BY DEF StartQuery, Metrics
<1> HIDE DEF p
<1>3. Moves(a) /\ proc'[a] = Counting(p, "queries", 1)
  BY <1>1, <1>2, CountType
<1> QED
  BY <1>3 DEF p

LEMMA BeginEffect ==
  ASSUME TypeOK, NEW a \in Agents, Begin(a), Limit(policy, proc[a].metric) # NoLimit
  PROVE  Moves(a) /\ proc'[a] = [proc[a] EXCEPT !.pc = "update", !.since = policy] /\ UNCHANGED buffers
<1> DEFINE p == [proc[a] EXCEPT !.pc = "update", !.since = policy]
<1>1. proc \in [Agents -> Process] /\ p \in Process /\ p.pc = "update"
  BY DEF TypeOK, Process, Labels
<1>2. Go(a, p) /\ UNCHANGED buffers
  BY DEF Begin
<1> HIDE DEF p
<1>3. Moves(a) /\ proc'[a] = p
  BY <1>1, <1>2, GoType
<1> QED
  BY <1>2, <1>3 DEF p

LEMMA UpdateEffect ==
  ASSUME TypeOK, NEW a \in Agents, Update(a)
  PROVE  /\ Moves(a)
         /\ \/ /\ proc'[a] = [proc[a] EXCEPT !.pc = "insert"]
               /\ holder' = holder
            \/ /\ holder[proc[a].metric] = "none" /\ holder' = [holder EXCEPT ![proc[a].metric] = a]
               /\ proc'[a] = [proc[a] EXCEPT !.pc = "commit", !.value = used[proc[a].metric] + proc[a].amount]
<1> DEFINE n == used[proc[a].metric] + proc[a].amount
           p == [proc[a] EXCEPT !.pc = "commit", !.value = n]
           q == [proc[a] EXCEPT !.pc = "insert"]
<1>1. proc \in [Agents -> Process] /\ proc[a] \in Process /\ n \in Nat
  BY DEF TypeOK, Process
<1>2. \/ Go(a, q) /\ holder' = holder
      \/ Go(a, p) /\ holder[proc[a].metric] = "none" /\ holder' = [holder EXCEPT ![proc[a].metric] = a]
  BY DEF Update
<1> HIDE DEF n
<1>3. p \in Process /\ p.pc = "commit" /\ q \in Process /\ q.pc = "insert"
  BY <1>1 DEF Process, Labels
<1> HIDE DEF p, q
<1>4. CASE Go(a, q) /\ holder' = holder
  <2>1. Moves(a) /\ proc'[a] = q
    BY <1>1, <1>3, <1>4, GoType
  <2> QED
    BY <1>4, <2>1 DEF q
<1>5. CASE Go(a, p) /\ holder[proc[a].metric] = "none" /\ holder' = [holder EXCEPT ![proc[a].metric] = a]
  <2>1. Moves(a) /\ proc'[a] = p
    BY <1>1, <1>3, <1>5, GoType
  <2> QED
    BY <1>5, <2>1 DEF p, n
<1> QED
  BY <1>2, <1>4, <1>5

LEMMA InsertEffect ==
  ASSUME TypeOK, NEW a \in Agents, Insert(a)
  PROVE  /\ Moves(a)
         /\ holder[proc[a].metric] = "none"
         /\ \/ /\ proc'[a] = [proc[a] EXCEPT !.pc = "update"]
               /\ holder' = holder
            \/ /\ used[proc[a].metric] = 0 /\ holder' = [holder EXCEPT ![proc[a].metric] = a]
               /\ proc'[a] = [proc[a] EXCEPT !.pc = "commit", !.value = proc[a].amount]
<1> DEFINE p == [proc[a] EXCEPT !.pc = "commit", !.value = proc[a].amount]
           q == [proc[a] EXCEPT !.pc = "update"]
<1>1. proc \in [Agents -> Process] /\ proc[a] \in Process
  BY DEF TypeOK
<1>2. /\ holder[proc[a].metric] = "none"
      /\ \/ Go(a, q) /\ holder' = holder
         \/ Go(a, p) /\ used[proc[a].metric] = 0 /\ holder' = [holder EXCEPT ![proc[a].metric] = a]
  BY DEF Insert
<1>3. p \in Process /\ p.pc = "commit" /\ q \in Process /\ q.pc = "update"
  BY <1>1 DEF Process, Labels
<1> HIDE DEF p, q
<1>4. CASE Go(a, q) /\ holder' = holder
  <2>1. Moves(a) /\ proc'[a] = q
    BY <1>1, <1>3, <1>4, GoType
  <2> QED
    BY <1>2, <1>4, <2>1 DEF q
<1>5. CASE Go(a, p) /\ used[proc[a].metric] = 0 /\ holder' = [holder EXCEPT ![proc[a].metric] = a]
  <2>1. Moves(a) /\ proc'[a] = p
    BY <1>1, <1>3, <1>5, GoType
  <2> QED
    BY <1>2, <1>5, <2>1 DEF p
<1> QED
  BY <1>2, <1>4, <1>5

LEMMA RunEffect ==
  ASSUME TypeOK, NEW a \in Agents, NEW n \in Amounts \cup {0}, Run(a, n)
  PROVE  /\ Moves(a)
         /\ n = 0 => proc'[a].pc = "ready"
         /\ n # 0 => proc'[a] = Counting(proc[a], "bytes", n)
<1>1. proc \in [Agents -> Process] /\ proc[a] \in Process /\ n \in Nat /\ "bytes" \in Metrics
  BY QuotaAssumption DEF TypeOK, Metrics
<1>2. CASE n = 0
  <2>1. [proc[a] EXCEPT !.pc = "ready"] \in Process /\ [proc[a] EXCEPT !.pc = "ready"].pc = "ready"
    BY <1>1 DEF Process, Labels
  <2> QED
    BY <1>1, <1>2, <2>1, GoType DEF Run
<1>3. CASE n # 0
  <2>1. Count(a, proc[a], "bytes", n)
    BY <1>3 DEF Run
  <2>2. Moves(a) /\ proc'[a] = Counting(proc[a], "bytes", n)
    BY <1>1, <2>1, CountType
  <2> QED
    BY <1>3, <2>2
<1> QED
  BY <1>2, <1>3

LEMMA EndRunEffect ==
  ASSUME TypeOK, NEW a \in Agents, EndRun(a)
  PROVE  Moves(a) /\ proc'[a] = [proc[a] EXCEPT !.pc = "flush", !.kind = "agent", !.metric = "tokens"]
<1> DEFINE p == [proc[a] EXCEPT !.pc = "flush", !.kind = "agent", !.metric = "tokens"]
<1>1. proc \in [Agents -> Process] /\ p \in Process /\ p.pc = "flush"
  BY ZenonT(60) DEF TypeOK, Process, Labels, Metrics
<1>2. Go(a, p)
  BY DEF EndRun
<1> HIDE DEF p
<1>3. Moves(a) /\ proc'[a] = p
  BY <1>1, <1>2, GoType
<1> QED
  BY <1>3 DEF p

LEMMA FlushEffect ==
  ASSUME TypeOK, KindsAgree, NEW a \in Agents, Flush(a)
  PROVE  LET c == Context(a)
             m == proc[a].metric
         IN
         /\ Moves(a) /\ m \in Buffered /\ c = <<a, "agent">>
         /\ pending[c][m] > 0 => /\ proc'[a] = Counting(proc[a], m, pending[c][m])
                                /\ pending' = [pending EXCEPT ![c][m] = 0]
         /\ pending[c][m] = 0 => /\ pending' = pending
                                /\ (m = "tokens" => proc'[a] = [proc[a] EXCEPT !.pc = "flush", !.metric = "cost"])
                                /\ (m = "cost" => proc'[a].pc = "over")
         /\ pending[c][m] \in Nat
         /\ \/ proc'[a] = Counting(proc[a], m, pending[c][m])
            \/ proc'[a] = [proc[a] EXCEPT !.pc = "flush", !.metric = "cost"]
            \/ proc'[a].pc = "over"
<1> DEFINE c == Context(a)
           m == proc[a].metric
<1>1. /\ proc \in [Agents -> Process] /\ proc[a] \in Process /\ m \in Metrics
      /\ c \in Contexts
  BY ContextType DEF TypeOK, Process
<1>2. m \in Buffered /\ c = <<a, "agent">>
  BY DEF Flush, KindsAgree, InAgent, Context
<1>3. pending[c][m] \in Nat
  BY <1>1, <1>2 DEF TypeOK
<1>4. CASE pending[c][m] > 0
  <2>1. Count(a, proc[a], m, pending[c][m]) /\ pending' = [pending EXCEPT ![c][m] = 0]
    BY <1>4 DEF Flush
  <2>2. Moves(a) /\ proc'[a] = Counting(proc[a], m, pending[c][m])
    BY <1>1, <1>3, <2>1, CountType
  <2>3. pending[c][m] # 0
    BY <1>3, <1>4
  <2> QED
    BY <1>2, <1>3, <2>1, <2>2, <2>3
<1>5. CASE pending[c][m] = 0 /\ m = "tokens"
  <2> DEFINE p == [proc[a] EXCEPT !.pc = "flush", !.metric = "cost"]
  <2>1. Go(a, p) /\ pending' = pending
    BY <1>5 DEF Flush
  <2>2. p \in Process /\ p.pc = "flush"
    BY <1>1 DEF Process, Labels, Metrics
  <2> HIDE DEF p
  <2>3. Moves(a) /\ proc'[a] = p
    BY <1>1, <2>1, <2>2, GoType
  <2> QED
    BY <1>2, <1>3, <1>5, <2>1, <2>3 DEF p
<1>6. CASE pending[c][m] = 0 /\ m = "cost"
  <2> DEFINE p == [proc[a] EXCEPT !.pc = "over", !.metric = "cost"]
  <2>1. Go(a, p) /\ pending' = pending
    BY <1>6 DEF Flush
  <2>2. p \in Process /\ p.pc = "over"
    BY <1>1 DEF Process, Labels, Metrics
  <2> HIDE DEF p
  <2>3. Moves(a) /\ proc'[a].pc = "over"
    BY <1>1, <2>1, <2>2, GoType
  <2> QED
    BY <1>2, <1>3, <1>6, <2>1, <2>3
<1> QED
  BY <1>2, <1>3, <1>4, <1>5, <1>6 DEF Buffered

LEMMA AnotherType ==
  ASSUME steps \in Nat, Another
  PROVE  steps' \in Nat
BY DEF Another

LEMMA HolderType ==
  ASSUME TypeOK, NEW a \in Agents, NEW m \in Metrics,
         holder' = holder \/ holder' = [holder EXCEPT ![m] = a]
  PROVE  holder' \in [Metrics -> Agents \cup {"none"}]
BY DEF TypeOK

LEMMA TypeCount ==
  ASSUME TypeOK, KindsAgree, NEW a \in Agents, CountStep(a)
  PROVE  TypeOK'
<1>0. proc[a] \in Process /\ Context(a) \in Contexts /\ proc[a].metric \in Metrics
  BY ContextType DEF TypeOK, Process
<1>1. CASE StartQuery(a)
  BY <1>1, StartQueryEffect, AnotherType DEF StartQuery, Moves, counters, buffers, history, TypeOK
<1>2. CASE Begin(a)
  <2>1. CASE Limit(policy, proc[a].metric) = NoLimit
    BY <1>2, <2>1, SucceedEffect DEF Moves, Begin, counters, history, TypeOK
  <2>2. CASE Limit(policy, proc[a].metric) # NoLimit
    BY <1>2, <2>2, BeginEffect DEF Process, Begin, Moves, counters, buffers, history, TypeOK
  <2> QED
    BY <2>1, <2>2
<1>3. CASE Update(a)
  BY <1>0, <1>3, UpdateEffect, HolderType DEF Update, Moves, buffers, history, TypeOK
<1>4. CASE Insert(a)
  BY <1>0, <1>4, InsertEffect, HolderType DEF Insert, Moves, buffers, history, TypeOK
<1>5. CASE Refuse(a)
  <2>1. holder' \in [Metrics -> Agents \cup {"none"}]
    BY <1>5 DEF Refuse, TypeOK
  <2> QED
    BY <1>5, <2>1, FailEffect DEF Moves, Refuse, history, TypeOK
<1>6. CASE CommitWell(a)
  BY <1>6, SucceedEffect, CommitType DEF Moves, CommitWell, history, TypeOK
<1>7. CASE \E n \in Amounts \cup {0} : Run(a, n)
  <2>1. PICK n \in Amounts \cup {0} : Run(a, n)
    BY <1>7
  <2>2. n \in Nat
    BY QuotaAssumption
  <2>3. spent' \in [Uses -> [Metrics -> Nat]]
    <3> DEFINE c == Context(a)
    <3>1. spent' = [spent EXCEPT ![c] = [spent[c] EXCEPT !["queries"] = @ + 1, !["bytes"] = @ + n]]
      BY <2>1 DEF Run
    <3>2. c \in Uses /\ "queries" \in Metrics /\ "bytes" \in Metrics
      BY <1>0, ContextsUsed DEF Metrics
    <3> HIDE DEF c
    <3> QED
      BY <2>2, <3>1, <3>2, SpentType
  <2> QED
    BY <2>1, <2>3, RunEffect DEF Process, Run, Moves, counters, buffers, TypeOK
<1>8. CASE EndRun(a)
  BY <1>8, EndRunEffect DEF Process, Process, EndRun, Moves, counters, buffers, history, TypeOK
<1>9. CASE Flush(a)
  <2>1. /\ proc[a].metric \in Buffered
        /\ \/ pending' = pending
           \/ pending' = [pending EXCEPT ![Context(a)][proc[a].metric] = 0]
    BY <1>9, FlushEffect DEF Flush
  <2>2. pending' \in [Contexts -> [Buffered -> Nat]]
    <3> DEFINE q == [pending[Context(a)] EXCEPT ![proc[a].metric] = 0]
    <3>1. q \in [Buffered -> Nat]
      BY <1>0, <2>1 DEF TypeOK
    <3>2. pending' = pending \/ pending' = [pending EXCEPT ![Context(a)] = q]
      BY <2>1
    <3> HIDE DEF q
    <3> QED
      BY <1>0, <3>1, <3>2 DEF TypeOK
  <2> QED
    BY <1>9, <2>2, FlushEffect DEF Flush, Moves, counters, history, TypeOK
<1> QED
  BY <1>1, <1>2, <1>3, <1>4, <1>5, <1>6, <1>7, <1>8, <1>9 DEF CountStep

LEMMA TypeFault ==
  ASSUME TypeOK, NEW a \in Agents, DbError(a) \/ AckLost(a) \/ Die(a)
  PROVE  TypeOK'
<1>0. proc \in [Agents -> Process] /\ proc[a] \in Process
  BY DEF TypeOK
<1>1. steps' \in Nat /\ faulty' \subseteq Agents
  <2>1. Another /\ faulty' = faulty \cup {a}
    BY DEF DbError, AckLost, Die, Happens
  <2> QED
    BY <2>1, AnotherType DEF TypeOK
<1>2. Release(a) => holder' \in [Metrics -> Agents \cup {"none"}]
  BY DEF Release, TypeOK
<1>3. CASE DbError(a)
  <2>1. CASE Fail(a)
    BY <1>1, <1>2, <1>3, <2>1, FailEffect DEF Moves, DbError, TypeOK
  <2>2. CASE Go(a, [proc[a] EXCEPT !.pc = "ready"]) /\ UNCHANGED buffers
    <3>1. [proc[a] EXCEPT !.pc = "ready"] \in Process
      BY <1>0 DEF Process, Labels
    <3>2. proc' \in [Agents -> Process]
      BY <1>0, <2>2, <3>1, GoType DEF Moves
    <3> QED
      BY <1>1, <1>2, <1>3, <2>2, <3>2 DEF DbError, buffers, TypeOK
  <2> QED
    BY <1>3, <2>1, <2>2 DEF DbError
<1>4. CASE AckLost(a)
  BY <1>1, <1>4, FailEffect, CommitType DEF Moves, AckLost, TypeOK
<1>5. CASE Die(a)
  <2>1. proc' \in [Agents -> Process]
    <3>1. Resting("over") \in Process
      BY RestingType DEF Labels
    <3> QED
      BY <1>0, <1>5, <3>1, GoType DEF Moves, Die
  <2>2. pending' \in [Contexts -> [Buffered -> Nat]]
    BY <1>5 DEF Die, TypeOK
  <2> QED
    BY <1>1, <1>2, <1>5, <2>1, <2>2 DEF Die, TypeOK
<1> QED
  BY <1>3, <1>4, <1>5

LEMMA TypeStep ==
  ASSUME TypeOK, KindsAgree, [Next]_vars
  PROVE  TypeOK'
<1>1. CASE EditPolicy
  BY <1>1 DEF EditPolicy, counters, buffers, history, TypeOK
<1>2. CASE \E c \in Contexts : Expire(c)
  <2>1. PICK c \in Contexts : Expire(c)
    BY <1>2
  <2>2. cache' \in [Contexts -> Known]
    <3>1. [cache[c] EXCEPT !.state = "expired"] \in Known
      BY DEF Known, TypeOK
    <3> QED
      BY <2>1, <3>1 DEF Expire, TypeOK
  <2>3. floor' \in [Contexts -> Seen]
    <3>1. [policy |-> policy, tokens |-> used["tokens"], cost |-> used["cost"]] \in Seen
      BY DEF Seen, Metrics, TypeOK
    <3> QED
      BY <2>1, <3>1 DEF Expire, TypeOK
  <2> QED
    BY <2>1, <2>2, <2>3 DEF Expire, counters, TypeOK
<1>3. CASE \E a \in Agents : CallStep(a) \/ CountStep(a) \/ DbError(a) \/ AckLost(a) \/ Die(a)
  BY <1>3, TypeCall, TypeCount, TypeFault
<1>4. CASE \E a \in Agents, n \in Amounts, cost \in Costs : CallWithout(a, n, cost)
  BY <1>4, TypeWithout
<1>5. CASE UNCHANGED vars
  BY <1>5 DEF vars, counters, buffers, history, TypeOK
<1> QED
  BY <1>1, <1>2, <1>3, <1>4, <1>5 DEF Next

LEMMA KindsStep ==
  ASSUME TypeOK, KindsAgree, [Next]_vars
  PROVE  KindsAgree'
<1> DEFINE Agree(p) ==
      /\ p.pc = "flush" => p.kind = "agent" /\ p.metric \in Buffered
      /\ p.pc = "run" => p.kind # "agent" /\ p.metric = "queries"
      /\ p.pc \in {"begin", "update", "insert", "commit"} => (p.kind = "agent" <=> p.metric \in Buffered)
<1>0. /\ proc \in [Agents -> Process]
      /\ KindsAgree <=> \A a \in Agents : Agree(proc[a])
      /\ KindsAgree' <=> \A a \in Agents : Agree(proc'[a])
  BY DEF KindsAgree, InAgent, InTransaction, At, TypeOK
<1>1. SUFFICES ASSUME NEW a \in Agents, CallStep(a) \/ CountStep(a) \/ DbError(a) \/ AckLost(a) \/ Die(a)
               PROVE  Agree(proc'[a]) /\ \A b \in Agents \ {a} : proc'[b] = proc[b]
  BY <1>0 DEF Next, EditPolicy, Expire, CallWithout, vars
<1>2. /\ proc[a] \in Process /\ Agree(proc[a]) /\ proc[a].amount \in Nat
      /\ Context(a) \in Contexts
  BY <1>0, ContextType DEF Process
<1> USE DEF At
<1>3. CASE CallStep(a)
  BY <1>3, CallEffect DEF Moves
<1>4. CASE StartQuery(a)
  BY <1>2, <1>4, StartQueryEffect DEF Counting, Process, Moves, Buffered
<1>5. CASE Begin(a) /\ Limit(policy, proc[a].metric) # NoLimit
  BY <1>2, <1>5, BeginEffect DEF Process, Begin, Moves
<1>6. CASE Update(a)
  <2> DEFINE p == [proc[a] EXCEPT !.pc = "insert"]
             q == [proc[a] EXCEPT !.pc = "commit", !.value = used[proc[a].metric] + proc[a].amount]
  <2>1. Moves(a) /\ (proc'[a] = p \/ proc'[a] = q)
    BY <1>6, UpdateEffect
  <2>2. Agree(p) /\ Agree(q)
    BY <1>2, <1>6 DEF Process, Update
  <2> HIDE DEF p, q, Agree
  <2> QED
    BY <2>1, <2>2 DEF Moves
<1>7. CASE Insert(a)
  <2> DEFINE p == [proc[a] EXCEPT !.pc = "update"]
             q == [proc[a] EXCEPT !.pc = "commit", !.value = proc[a].amount]
  <2>1. Moves(a) /\ (proc'[a] = p \/ proc'[a] = q)
    BY <1>7, InsertEffect
  <2>2. Agree(p) /\ Agree(q)
    BY <1>2, <1>7 DEF Process, Insert
  <2> HIDE DEF p, q, Agree
  <2> QED
    BY <2>1, <2>2 DEF Moves
<1>8. CASE \E n \in Amounts \cup {0} : Run(a, n)
  <2>1. PICK n \in Amounts \cup {0} : Run(a, n)
    BY <1>8
  <2>2. Moves(a) /\ (proc'[a].pc = "ready" \/ proc'[a] = Counting(proc[a], "bytes", n))
    BY <2>1, RunEffect
  <2>3. Agree(Counting(proc[a], "bytes", n))
    BY <1>2, <2>1 DEF Counting, Process, Run, Buffered
  <2> QED
    BY <2>2, <2>3 DEF Moves
<1>9. CASE EndRun(a)
  BY <1>2, <1>9, EndRunEffect DEF Process, Process, Moves, Buffered
<1>10. CASE Flush(a)
  <2> DEFINE m == proc[a].metric
             n == pending[Context(a)][m]
  <2>1. /\ Moves(a) /\ m \in Buffered
        /\ \/ proc'[a] = Counting(proc[a], m, n)
           \/ proc'[a] = [proc[a] EXCEPT !.pc = "flush", !.metric = "cost"]
           \/ proc'[a].pc = "over"
    BY <1>10, FlushEffect
  <2>2. Agree(Counting(proc[a], m, n)) /\ Agree([proc[a] EXCEPT !.pc = "flush", !.metric = "cost"])
    BY <1>2, <1>10, <2>1 DEF Counting, Process, Flush, Buffered
  <2>3. proc'[a].pc = "over" => Agree(proc'[a])
    OBVIOUS
  <2> HIDE DEF m, n, Agree
  <2> QED
    BY <2>1, <2>2, <2>3 DEF Moves
<1>11. CASE InTransaction(a) /\ Succeed(a)
  <2>1. proc[a].kind = "agent" <=> proc[a].metric \in Buffered
    BY <1>2, <1>11 DEF InTransaction
  <2>2. Succeeded(a).pc \in {"flush", "run", "over", "ready"}
    BY <1>2 DEF Succeeded, Process, Metrics
  <2>3. Agree(Succeeded(a))
    BY <1>2, <2>1 DEF Succeeded, Process, Metrics, Buffered
  <2> QED
    BY <1>11, <2>2, <2>3, SucceedEffect DEF Moves
<1>12. CASE Fail(a)
  BY <1>12, FailEffect DEF Moves
<1>13. CASE (DbError(a) /\ ~Fail(a)) \/ Die(a)
  <2>1. PICK p \in Process : p.pc \in {"ready", "over"} /\ Go(a, p)
    <3>1. [proc[a] EXCEPT !.pc = "ready"] \in Process /\ [proc[a] EXCEPT !.pc = "ready"].pc = "ready"
      BY <1>2 DEF Process, Labels
    <3>2. Resting("over") \in Process /\ Resting("over").pc = "over"
      BY RestingType DEF Labels
    <3>3. Go(a, [proc[a] EXCEPT !.pc = "ready"]) \/ Go(a, Resting("over"))
      BY <1>13 DEF DbError, Die
    <3> QED
      BY <3>1, <3>2, <3>3
  <2> QED
    BY <1>0, <2>1, GoType DEF Moves
<1> QED
  BY <1>1, <1>3, <1>4, <1>5, <1>6, <1>7, <1>8, <1>9, <1>10, <1>11, <1>12, <1>13
     DEF CountStep, Begin, Refuse, CommitWell, Commit, DbError, AckLost, InTransaction

LEMMA InitType == Init => TypeOK /\ KindsAgree
<1> SUFFICES ASSUME Init PROVE TypeOK /\ KindsAgree
  OBVIOUS
<1>1. Resting("ready") \in Process /\ Resting("ready").pc = "ready"
  BY RestingType DEF Labels
<1>2. 1 \in Times
  BY QuotaAssumption DEF Times
<1>3. TypeOK
  BY <1>1, <1>2 DEF Init, TypeOK, Known, Seen
<1> QED
  BY <1>1, <1>3 DEF Init, KindsAgree, At, InTransaction

\* The state after every step is well-formed: the types, with which context a
\* transaction works for, are what the code's branches rely on.
THEOREM TypeCorrect == Spec => []TypeOK
<1>1. Init => TypeOK /\ KindsAgree
  BY InitType
<1>2. TypeOK /\ KindsAgree /\ [Next]_vars => (TypeOK /\ KindsAgree)'
  BY TypeStep, KindsStep
<1> QED
  BY <1>1, <1>2, PTL DEF Spec
-----------------------------------------------------------------------------
(* limits and queries *)

LEMMA CommitEffect ==
  ASSUME TypeOK, NEW a \in Agents, Commit(a)
  PROVE  /\ \A m \in Metrics : used'[m] = IF m = proc[a].metric THEN proc[a].value ELSE used[m]
         /\ \A c \in Contexts, m \in Metrics :
              events'[c][m] = IF c = Context(a) /\ m = proc[a].metric
                              THEN events[c][m] + proc[a].amount ELSE events[c][m]
<1>1. Context(a) \in Contexts /\ proc[a].metric \in Metrics /\ proc[a] \in Process
  BY ContextType DEF TypeOK, Process
<1>2. \A m \in Metrics : used'[m] = IF m = proc[a].metric THEN proc[a].value ELSE used[m]
  BY DEF Commit, TypeOK
<1>3. events' = [events EXCEPT ![Context(a)] = [events[Context(a)] EXCEPT ![proc[a].metric] = @ + proc[a].amount]]
  BY DEF Commit, TypeOK
<1>4. events \in [Contexts -> [Metrics -> Nat]]
  BY DEF TypeOK
<1>5. ASSUME NEW c \in Contexts, NEW m \in Metrics
      PROVE  events'[c][m] = IF c = Context(a) /\ m = proc[a].metric
                             THEN events[c][m] + proc[a].amount ELSE events[c][m]
  <2>1. CASE c = Context(a)
    <3>1. events'[c] = [events[c] EXCEPT ![proc[a].metric] = @ + proc[a].amount]
      BY <1>3, <1>4, <2>1
    <3> QED
      BY <1>4, <2>1, <3>1
  <2>2. CASE c # Context(a)
    BY <1>3, <1>4, <2>2
  <2> QED
    BY <2>1, <2>2
<1> QED
  BY <1>2, <1>5

\* The policy a transaction goes by has been in force since it began.
SinceAgrees ==
  \A a \in Agents : proc[a].pc \in {"update", "insert", "commit"} => proc[a].since <= policy

LEMMA SinceStep ==
  ASSUME TypeOK, KindsAgree, SinceAgrees, [Next]_vars
  PROVE  SinceAgrees'
<1> DEFINE Past(p) == p.pc \in {"update", "insert", "commit"} => p.since <= policy
<1>1. proc \in [Agents -> Process] /\ policy \in Nat /\ \A a \in Agents : proc[a].since \in Nat
  BY QuotaAssumption DEF TypeOK, Process, Times
<1>2. CASE EditPolicy
  BY <1>1, <1>2 DEF EditPolicy, SinceAgrees
<1>3. CASE UNCHANGED <<proc, policy>>
  BY <1>3 DEF SinceAgrees
<1>4. ASSUME NEW a \in Agents, CallStep(a) \/ CountStep(a) \/ DbError(a) \/ AckLost(a) \/ Die(a)
      PROVE  SinceAgrees'
  <2>0. proc[a] \in Process /\ Past(proc[a])
    BY <1>1 DEF SinceAgrees
  <2>1. SUFFICES policy' = policy /\ Moves(a) /\ Past(proc'[a])
    BY DEF SinceAgrees, Moves
  <2>2. policy' = policy
    BY <1>4, CallEffect
       DEF CountStep, StartQuery, Begin, Update, Insert, Refuse, CommitWell, Run, EndRun, Flush,
           DbError, AckLost, Die
  <2> SUFFICES Moves(a) /\ Past(proc'[a])
    BY <2>2
  <2>3. CASE CallStep(a)
    BY <2>3, CallEffect
  <2>4. CASE StartQuery(a)
    BY <2>0, <2>4, StartQueryEffect DEF Counting, Process
  <2>5. CASE Begin(a) /\ Limit(policy, proc[a].metric) # NoLimit
    <3>1. Moves(a) /\ proc'[a].since = policy
      BY <2>0, <2>5, BeginEffect DEF Process
    <3> QED
      BY <1>1, <3>1
  <2>6. CASE Update(a)
    <3> DEFINE p == [proc[a] EXCEPT !.pc = "insert"]
               q == [proc[a] EXCEPT !.pc = "commit", !.value = used[proc[a].metric] + proc[a].amount]
    <3>1. Moves(a) /\ (proc'[a] = p \/ proc'[a] = q)
      BY <2>6, UpdateEffect
    <3>2. Past(p) /\ Past(q)
      BY <2>0, <2>6 DEF Process, Update, At
    <3> HIDE DEF p, q, Past
    <3> QED
      BY <3>1, <3>2
  <2>7. CASE Insert(a)
    <3> DEFINE p == [proc[a] EXCEPT !.pc = "update"]
               q == [proc[a] EXCEPT !.pc = "commit", !.value = proc[a].amount]
    <3>1. Moves(a) /\ (proc'[a] = p \/ proc'[a] = q)
      BY <2>7, InsertEffect
    <3>2. Past(p) /\ Past(q)
      BY <2>0, <2>7 DEF Process, Insert, At
    <3> HIDE DEF p, q, Past
    <3> QED
      BY <3>1, <3>2
  <2>8. CASE \E n \in Amounts \cup {0} : Run(a, n)
    <3>1. PICK n \in Amounts \cup {0} : Run(a, n)
      BY <2>8
    <3>2. Moves(a) /\ (proc'[a].pc = "ready" \/ proc'[a] = Counting(proc[a], "bytes", n))
      BY <3>1, RunEffect
    <3>3. Past(Counting(proc[a], "bytes", n))
      BY <2>0 DEF Counting, Process
    <3> HIDE DEF Past
    <3>4. proc'[a].pc = "ready" => Past(proc'[a])
      BY DEF Past
    <3> QED
      BY <3>2, <3>3, <3>4
  <2>9. CASE EndRun(a)
    BY <2>0, <2>9, EndRunEffect DEF Process
  <2>10. CASE Flush(a)
    <3> DEFINE m == proc[a].metric
               n == pending[Context(a)][m]
    <3>1. /\ Moves(a)
          /\ \/ proc'[a] = Counting(proc[a], m, n)
             \/ proc'[a] = [proc[a] EXCEPT !.pc = "flush", !.metric = "cost"]
             \/ proc'[a].pc = "over"
      BY <2>10, FlushEffect
    <3>2. Past(Counting(proc[a], m, n)) /\ Past([proc[a] EXCEPT !.pc = "flush", !.metric = "cost"])
      BY <2>0 DEF Counting, Process
    <3>3. proc'[a].pc = "over" => Past(proc'[a])
      OBVIOUS
    <3> HIDE DEF m, n, Past
    <3> QED
      BY <3>1, <3>2, <3>3
  <2>11. CASE Succeed(a)
    <3>1. Succeeded(a).pc \in {"flush", "run", "over", "ready"}
      BY <2>0 DEF Succeeded, Process, Metrics
    <3>2. Moves(a) /\ proc'[a].pc = Succeeded(a).pc
      BY <2>11, SucceedEffect
    <3> QED
      BY <3>1, <3>2
  <2>12. CASE Fail(a)
    BY <2>12, FailEffect
  <2>13. CASE (DbError(a) /\ ~Fail(a)) \/ Die(a)
    <3>1. [proc[a] EXCEPT !.pc = "ready"] \in Process /\ [proc[a] EXCEPT !.pc = "ready"].pc = "ready"
      BY <2>0 DEF Process, Labels
    <3>2. Resting("over") \in Process /\ Resting("over").pc = "over"
      BY RestingType DEF Labels
    <3>3. Go(a, [proc[a] EXCEPT !.pc = "ready"]) \/ Go(a, Resting("over"))
      BY <2>13 DEF DbError, Die
    <3> QED
      BY <1>1, <3>1, <3>2, <3>3, GoType
  <2> QED
    BY <1>4, <2>3, <2>4, <2>5, <2>6, <2>7, <2>8, <2>9, <2>10, <2>11, <2>12, <2>13
       DEF CountStep, Begin, Refuse, CommitWell, DbError, AckLost
<1> QED
  BY <1>2, <1>3, <1>4 DEF Next, Expire, CallWithout, vars

LEMMA LimitStep ==
  ASSUME TypeOK, SinceAgrees, [Next]_vars, NEW m \in Enforced, used'[m] > used[m]
  PROVE  \E a \in Agents : At(a, "commit") /\ proc[a].metric = m /\ Allowed(used'[m], m, proc[a].since)
<1>1. used \in [Metrics -> Nat] /\ m \in Metrics /\ used[m] \in Nat
  BY DEF TypeOK, Enforced, Metrics
<1>2. PICK a \in Agents : Commit(a)
  <2>1. ~UNCHANGED used
    BY <1>1
  <2>2. PICK a \in Agents : CallStep(a) \/ CountStep(a) \/ DbError(a) \/ AckLost(a) \/ Die(a)
    BY <2>1 DEF Next, EditPolicy, Expire, CallWithout, counters, vars
  <2>3. ~CallStep(a) /\ ~DbError(a) /\ ~Die(a)
    BY <2>1, CallEffect DEF DbError, Die
  <2> QED
    BY <2>1, <2>2, <2>3
       DEF CountStep, StartQuery, Begin, Update, Insert, Refuse, CommitWell, Run, EndRun, Flush,
           AckLost, counters
<1>3. proc[a] \in Process /\ proc[a].since \in Nat /\ policy \in Nat
  BY QuotaAssumption DEF TypeOK, Process, Times
<1>4. proc[a].metric = m /\ used'[m] = proc[a].value
  BY <1>1, <1>2, CommitEffect
<1>5. At(a, "commit") /\ Fits(used'[m], Limit(proc[a].since, m))
  BY <1>2, <1>4 DEF Commit, Within, Enforced, Buffered
<1>6. proc[a].since \in proc[a].since .. policy
  BY <1>3, <1>5 DEF SinceAgrees, At
<1> QED
  BY <1>4, <1>5, <1>6 DEF Allowed

\* Whatever runs consume at once, whatever fails and whenever the policy is
\* edited, no counter of queries or bytes passes a limit that was in force
\* during the transaction that raises it.
THEOREM LimitsHold == Spec => LimitHolds
<1>1. Init => TypeOK /\ KindsAgree /\ SinceAgrees
  BY InitType, RestingType DEF Init, SinceAgrees, Labels
<1>2. TypeOK /\ KindsAgree /\ SinceAgrees /\ [Next]_vars => (TypeOK /\ KindsAgree /\ SinceAgrees)'
  BY TypeStep, KindsStep, SinceStep
<1>3. TypeOK /\ SinceAgrees /\ [Next]_vars =>
        [\A m \in Enforced : used'[m] > used[m] =>
           \E a \in Agents : At(a, "commit") /\ proc[a].metric = m /\ Allowed(used'[m], m, proc[a].since)]_vars
  BY LimitStep
<1> QED
  BY <1>1, <1>2, <1>3, PTL DEF Spec, LimitHolds
=============================================================================
