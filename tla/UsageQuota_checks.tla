--------------------------- MODULE UsageQuota_checks ---------------------------
(***************************************************************************)
(* Theorems about the checks of UsageQuota: what a cached copy of the       *)
(* counters and limits is worth when a call is admitted or refused.         *)
(***************************************************************************)
EXTENDS UsageQuota_accounts

Loading(a) == proc[a].pc \in {"load", "load cost"}

\* Whoever has changed a row is about to commit what it found plus its amount, so
\* counters only grow.
RowsAgree ==
  /\ \A m \in Metrics, a \in Agents : holder[m] = a => At(a, "commit") /\ proc[a].metric = m
  /\ \A a \in Agents : At(a, "commit") =>
       holder[proc[a].metric] = a /\ proc[a].value = used[proc[a].metric] + proc[a].amount

\* What c knows of metric m, which has counter n, is not older than its last expiry.
NotOlder(c, m, n) == Limit(cache[c].policy, m) # NoLimit => floor[c][m] <= n

\* a is half-way through a load of context c.
HalfLoaded(a, c) == At(a, "load cost") /\ Context(a) = c

\* Histories and caches are of the past.
PastOf(c) ==
  /\ floor[c].policy <= policy /\ cache[c].policy <= policy
  /\ floor[c].tokens <= used["tokens"] /\ floor[c].cost <= used["cost"]

\* A load has begun under a policy since the check began, and has read no more
\* tokens than have been counted.
LoadSound(a) ==
  /\ Loading(a) => proc[a].since <= policy
  /\ At(a, "load cost") => LET c == Context(a) IN
       /\ proc[a].since <= cache[c].policy
       /\ Limit(cache[c].policy, "tokens") # NoLimit => cache[c].tokens <= used["tokens"]

\* A fresh cache is not older than its last expiry, nor is one that is being
\* loaded as far as it has been; a load for the tokens' sake follows a check of
\* the cost that went well.
CacheSound(a, c) ==
  /\ cache[c].state = "fresh" \/ HalfLoaded(a, c) =>
       floor[c].policy <= cache[c].policy /\ NotOlder(c, "tokens", cache[c].tokens)
  /\ cache[c].state = "fresh" /\ ~HalfLoaded(a, c) => NotOlder(c, "cost", cache[c].cost)
  /\ Loading(a) /\ Context(a) = c /\ proc[a].why = "tokens" =>
       Allowed(floor[c].cost + pending[c]["cost"] + 1, "cost", floor[c].policy)

\* What a knows and remembers.
Knowledge(a) ==
  /\ LoadSound(a)
  /\ \A c \in {Own(a), Tools(a)} : PastOf(c) /\ (a \notin faulty => CacheSound(a, c))

KInv == RowsAgree /\ \A a \in Agents : Knowledge(a)
-----------------------------------------------------------------------------
(* counters only grow *)

LEMMA RowsCount ==
  ASSUME TypeOK, KindsAgree, RowsAgree, NEW a \in Agents, CountStep(a)
  PROVE  RowsAgree'
<1>0. /\ proc[a] \in Process /\ proc[a].metric \in Metrics /\ proc[a].amount \in Nat /\ holder \in [Metrics -> Agents \cup {"none"}]
      /\ used \in [Metrics -> Nat]
  BY AccountTypes DEF TypeOK, Process
<1>1. ASSUME Moves(a), UNCHANGED <<used, holder>>, ~At(a, "commit"), proc'[a].pc # "commit"
      PROVE  RowsAgree'
  BY <1>1 DEF RowsAgree, Moves, At
<1>2. CASE StartQuery(a)
  BY <1>0, <1>1, <1>2, StartQueryEffect DEF Counting, Process, StartQuery, At, counters
<1>3. CASE Begin(a)
  <2>1. Moves(a) /\ proc'[a].pc # "commit"
    <3>1. CASE Limit(policy, proc[a].metric) = NoLimit
      <4>1. Succeeded(a).pc \in {"flush", "over", "run", "ready"}
        BY <1>0 DEF Succeeded, Process, Metrics
      <4> QED
        BY <1>3, <3>1, <4>1, SucceedEffect DEF Begin
    <3>2. CASE Limit(policy, proc[a].metric) # NoLimit
      BY <1>0, <1>3, <3>2, BeginEffect DEF Process
    <3> QED
      BY <3>1, <3>2
  <2> QED
    BY <1>1, <1>3, <2>1 DEF Begin, At, counters
<1>4. CASE Update(a) \/ Insert(a)
  <2> DEFINE m == proc[a].metric
  <2>1. /\ Moves(a) /\ UNCHANGED used /\ ~At(a, "commit")
        /\ \/ proc'[a].pc # "commit" /\ holder' = holder
           \/ /\ holder[m] = "none" /\ holder' = [holder EXCEPT ![m] = a]
              /\ proc'[a].pc = "commit" /\ proc'[a].metric = m /\ proc'[a].amount = proc[a].amount
              /\ proc'[a].value = used[m] + proc[a].amount
    <3>1. CASE Update(a)
      <4>1. CASE proc'[a] = [proc[a] EXCEPT !.pc = "insert"] /\ holder' = holder
        BY <1>0, <3>1, <4>1, UpdateEffect DEF Process, Update, At
      <4>2. CASE /\ holder[m] = "none" /\ holder' = [holder EXCEPT ![m] = a]
                 /\ proc'[a] = [proc[a] EXCEPT !.pc = "commit", !.value = used[m] + proc[a].amount]
        <5>1. /\ proc'[a].pc = "commit" /\ proc'[a].metric = m /\ proc'[a].amount = proc[a].amount
              /\ proc'[a].value = used[m] + proc[a].amount
          BY <1>0, <4>2 DEF Process
        <5> QED
          BY <3>1, <4>2, <5>1, UpdateEffect DEF Update, At
      <4> QED
        BY <3>1, <4>1, <4>2, UpdateEffect
    <3>2. CASE Insert(a)
      <4>1. CASE proc'[a] = [proc[a] EXCEPT !.pc = "update"] /\ holder' = holder
        BY <1>0, <3>2, <4>1, InsertEffect DEF Process, Insert, At
      <4>2. CASE /\ used[m] = 0 /\ holder' = [holder EXCEPT ![m] = a]
                 /\ proc'[a] = [proc[a] EXCEPT !.pc = "commit", !.value = proc[a].amount]
        <5>1. /\ proc'[a].pc = "commit" /\ proc'[a].metric = m /\ proc'[a].amount = proc[a].amount
              /\ proc'[a].value = proc[a].amount
          BY <1>0, <4>2 DEF Process
        <5>2. proc'[a].value = used[m] + proc[a].amount
          BY <1>0, <4>2, <5>1
        <5> QED
          BY <3>2, <4>2, <5>1, <5>2, InsertEffect DEF Insert, At
      <4> QED
        BY <3>2, <4>1, <4>2, InsertEffect
    <3> QED
      BY <1>4, <3>1, <3>2
  <2>2. "none" \notin Agents
    BY QuotaAssumption
  <2> HIDE DEF m
  <2>3. CASE proc'[a].pc # "commit" /\ holder' = holder
    BY <1>1, <2>1, <2>3
  <2>4. CASE holder[m] = "none" /\ holder' = [holder EXCEPT ![m] = a]
    <3>1. \A k \in Metrics : holder'[k] = IF k = m THEN a ELSE holder[k]
      BY <1>0, <2>4
    <3>2. proc'[a].pc = "commit" /\ proc'[a].metric = m /\ m \in Metrics
          /\ proc'[a].value = used[m] + proc'[a].amount
      <4>1. holder' # holder
        BY <1>0, <2>2, <2>4, <3>1 DEF m
      <4> QED
        BY <1>0, <2>1, <4>1 DEF m
    <3>3. ASSUME NEW b \in Agents \ {a}
          PROVE  /\ proc'[b] = proc[b] /\ proc[b].metric \in Metrics
                 /\ At(b, "commit") => holder[proc[b].metric] = b /\ proc[b].metric # m
      BY <2>1, <2>2, <2>4 DEF Moves, RowsAgree, TypeOK, Process
    <3>4. \A k \in Metrics : holder[k] # a
      BY <2>1 DEF RowsAgree
    <3> QED
      BY <2>1, <3>1, <3>2, <3>3, <3>4 DEF RowsAgree, At
  <2> QED
    BY <2>1, <2>3, <2>4
<1>5. CASE Refuse(a) \/ CommitWell(a)
  <2> DEFINE m == proc[a].metric
  <2>1. /\ Moves(a) /\ At(a, "commit") /\ holder' = [holder EXCEPT ![m] = "none"]
        /\ proc'[a].pc # "commit"
        /\ \A k \in Metrics \ {m} : used'[k] = used[k]
    <3>1. CASE Refuse(a)
      BY <3>1, FailEffect DEF Refuse
    <3>2. CASE CommitWell(a)
      <4>1. Succeeded(a).pc \in {"flush", "over", "run", "ready"}
        BY <1>0 DEF Succeeded, Process, Metrics
      <4> QED
        BY <3>2, <4>1, SucceedEffect, CommitEffect DEF CommitWell, Commit
    <3> QED
      BY <1>5, <3>1, <3>2
  <2>2. /\ "none" \notin Agents
        /\ \A k \in Metrics : holder'[k] = IF k = m THEN "none" ELSE holder[k]
    BY <1>0, <2>1, QuotaAssumption
  <2>3. holder[m] = a
    BY <2>1 DEF RowsAgree
  <2>4. ASSUME NEW b \in Agents \ {a}
        PROVE  /\ proc'[b] = proc[b] /\ proc[b].metric \in Metrics
               /\ At(b, "commit") => holder[proc[b].metric] = b /\ proc[b].metric # m
    BY <2>1, <2>3 DEF Moves, RowsAgree, TypeOK, Process
  <2>5. \A k \in Metrics \ {m} : holder[k] # a
    BY DEF RowsAgree
  <2> HIDE DEF m
  <2> QED
    BY <1>0, <2>1, <2>2, <2>4, <2>5 DEF RowsAgree, At
<1>6. CASE \E n \in Amounts \cup {0} : Run(a, n)
  <2>1. PICK n \in Amounts \cup {0} : Run(a, n)
    BY <1>6
  <2>2. Counting(proc[a], "bytes", n).pc = "begin"
    BY <1>0 DEF Counting, Process
  <2>3. Moves(a) /\ proc'[a].pc # "commit"
    <3>1. Moves(a) /\ (n = 0 => proc'[a].pc = "ready") /\ (n # 0 => proc'[a] = Counting(proc[a], "bytes", n))
      BY <2>1, RunEffect
    <3> QED
      BY <2>2, <3>1
  <2> QED
    BY <1>1, <2>1, <2>3 DEF Run, At, counters
<1>7. CASE EndRun(a)
  BY <1>0, <1>1, <1>7, EndRunEffect DEF Process, EndRun, At, counters
<1>8. CASE Flush(a)
  <2>1. Counting(proc[a], proc[a].metric, pending[Context(a)][proc[a].metric]).pc = "begin"
    BY <1>0 DEF Counting, Process
  <2>2. [proc[a] EXCEPT !.pc = "flush", !.metric = "cost"].pc = "flush"
    BY <1>0 DEF Process
  <2>3. Moves(a) /\ proc'[a].pc # "commit"
    BY <1>8, <2>1, <2>2, FlushEffect
  <2> QED
    BY <1>1, <1>8, <2>3 DEF Flush, At, counters
<1> QED
  BY <1>2, <1>3, <1>4, <1>5, <1>6, <1>7, <1>8 DEF CountStep

LEMMA RowsFault ==
  ASSUME TypeOK, RowsAgree, NEW a \in Agents, DbError(a) \/ AckLost(a) \/ Die(a)
  PROVE  RowsAgree'
<1>0. /\ proc[a] \in Process /\ proc[a].metric \in Metrics /\ "none" \notin Agents
      /\ holder \in [Metrics -> Agents \cup {"none"}]
  BY QuotaAssumption DEF TypeOK, Process
<1>1. /\ Moves(a) /\ proc'[a].pc # "commit"
      /\ \A k \in Metrics : holder'[k] = IF holder[k] = a THEN "none" ELSE holder[k]
      /\ \A k \in Metrics : holder[k] # a => used'[k] = used[k]
  <2>1. CASE DbError(a)
    BY <2>1, FailEffect, ReadyEffect DEF DbError, Release
  <2>2. CASE Die(a)
    BY <2>2, DieEffect DEF Die, Release
  <2>3. CASE AckLost(a)
    <3>1. holder[proc[a].metric] = a
      BY <2>3 DEF AckLost, Commit, RowsAgree
    <3>2. \A k \in Metrics \ {proc[a].metric} : holder[k] # a
      BY DEF RowsAgree
    <3>3. holder' = [holder EXCEPT ![proc[a].metric] = "none"]
      BY <2>3 DEF AckLost, Commit
    <3> QED
      BY <1>0, <2>3, <3>1, <3>2, <3>3, FailEffect, CommitEffect DEF AckLost
  <2> QED
    BY <2>1, <2>2, <2>3
<1>2. ASSUME NEW b \in Agents \ {a}
      PROVE  proc'[b] = proc[b] /\ proc[b].metric \in Metrics
  BY <1>1 DEF Moves, TypeOK, Process
<1> QED
  BY <1>0, <1>1, <1>2 DEF RowsAgree, At

LEMMA RowsStep ==
  ASSUME TypeOK, KindsAgree, RowsAgree, [Next]_vars
  PROVE  RowsAgree'
<1>1. CASE \E a \in Agents : CallStep(a)
  <2>1. PICK a \in Agents : CallStep(a)
    BY <1>1
  <2>2. proc[a].pc # "commit"
    BY <2>1 DEF CallStep, StartCall, Load, LoadCost, Answer, NoAnswer, At
  <2>3. Moves(a) /\ proc'[a].pc # "commit" /\ UNCHANGED <<used, holder>>
    BY <2>1, CallEffect
  <2> QED
    BY <2>2, <2>3 DEF RowsAgree, Moves, At
<1>2. CASE \E a \in Agents : CountStep(a)
  BY <1>2, RowsCount
<1>3. CASE \E a \in Agents : DbError(a) \/ AckLost(a) \/ Die(a)
  BY <1>3, RowsFault
<1>4. CASE UNCHANGED <<used, holder, proc>>
  BY <1>4 DEF RowsAgree, At
<1> QED
  BY <1>1, <1>2, <1>3, <1>4 DEF Next, EditPolicy, Expire, CallWithout, vars, counters

\* No step takes anything back from a counter.
LEMMA UsedGrows ==
  ASSUME TypeOK, RowsAgree, [Next]_vars
  PROVE  \A m \in Metrics : used'[m] >= used[m]
<1>0. used \in [Metrics -> Nat]
  BY DEF TypeOK
<1>1. CASE UNCHANGED used
  BY <1>0, <1>1
<1>2. ASSUME NEW a \in Agents, Commit(a)
      PROVE  \A m \in Metrics : used'[m] >= used[m]
  <2>1. proc[a].value = used[proc[a].metric] + proc[a].amount /\ proc[a].amount \in Nat
    BY <1>2, AccountTypes DEF Commit, RowsAgree
  <2> QED
    BY <1>0, <1>2, <2>1, CommitEffect
<1>3. CASE \E a \in Agents : CallStep(a) \/ CountStep(a) \/ DbError(a) \/ AckLost(a) \/ Die(a)
  <2>1. PICK a \in Agents : CallStep(a) \/ CountStep(a) \/ DbError(a) \/ AckLost(a) \/ Die(a)
    BY <1>3
  <2>2. CASE CallStep(a)
    BY <1>1, <2>2, CallEffect
  <2>3. CASE CountStep(a)
    BY <1>1, <1>2, <2>3 DEF CountStep, StartQuery, Begin, Update, Insert, Refuse, CommitWell, Run, EndRun, Flush, counters
  <2>4. CASE DbError(a) \/ AckLost(a) \/ Die(a)
    BY <1>1, <1>2, <2>4 DEF DbError, AckLost, Die
  <2> QED
    BY <2>1, <2>2, <2>3, <2>4
<1> QED
  BY <1>1, <1>3 DEF Next, EditPolicy, Expire, CallWithout, vars, counters
-----------------------------------------------------------------------------
(* what a run knows *)

LEMMA LimitType ==
  ASSUME NEW t \in Times, NEW m \in Metrics
  PROVE  t \in Nat /\ Limit(t, m) \in Nat \cup {NoLimit}
BY QuotaAssumption DEF Limit, Times

LEMMA KnownTypes ==
  ASSUME TypeOK, NEW a \in Agents, NEW c \in {Own(a), Tools(a)}
  PROVE  /\ policy \in Times /\ policy \in Nat
         /\ used["tokens"] \in Nat /\ used["cost"] \in Nat
         /\ cache[c] \in Known /\ cache[c].policy \in Times /\ cache[c].policy \in Nat
         /\ cache[c].tokens \in Nat /\ cache[c].cost \in Nat
         /\ floor[c].policy \in Nat /\ floor[c].tokens \in Nat /\ floor[c].cost \in Nat
         /\ pending[c]["tokens"] \in Nat /\ pending[c]["cost"] \in Nat
         /\ proc[a] \in Process /\ proc[a].since \in Nat /\ proc[a].amount \in Nat
<1>1. c \in Contexts
  BY ContextKinds
<1>2. cache[c] \in Known /\ floor[c] \in Seen /\ proc[a] \in Process /\ policy \in Times
      /\ pending[c] \in [Buffered -> Nat] /\ used \in [Metrics -> Nat]
  BY <1>1 DEF TypeOK
<1>3. \A t \in Times : t \in Nat
  BY QuotaAssumption DEF Times
<1> QED
  BY <1>2, <1>3 DEF Known, Seen, Process, Metrics, Buffered

\* Time passes: the counters and the policies go on.
Later == policy' \in Nat /\ policy' >= policy /\ \A m \in Metrics : used'[m] >= used[m] /\ used'[m] \in Nat

LEMMA AllowedLater ==
  ASSUME policy \in Nat, Later, NEW n, NEW m, NEW t \in Nat, Allowed(n, m, t)
  PROVE  \E s \in t .. policy' : Fits(n, Limit(s, m))
BY DEF Allowed, Later

\* Context c is as it was.
Kept(c) == cache'[c] = cache[c] /\ floor'[c] = floor[c] /\ pending'[c] = pending[c]

LEMMA KnowledgeKept ==
  ASSUME TypeOK, Later, NEW a \in Agents, NEW c \in {Own(a), Tools(a)},
         PastOf(c), Kept(c), proc'[a] = proc[a]
  PROVE  PastOf(c)' /\ (CacheSound(a, c) => CacheSound(a, c)')
<1>1. PastOf(c)'
  BY KnownTypes DEF PastOf, Later, Kept, Metrics
<1>2. Context(a)' = Context(a) /\ (HalfLoaded(a, c)' <=> HalfLoaded(a, c)) /\ (Loading(a)' <=> Loading(a))
  BY DEF Context, HalfLoaded, Loading, At
<1>3. ASSUME CacheSound(a, c)
      PROVE  CacheSound(a, c)'
  <2>1. Allowed(floor[c].cost + pending[c]["cost"] + 1, "cost", floor[c].policy) =>
          \E s \in floor[c].policy .. policy' : Fits(floor[c].cost + pending[c]["cost"] + 1, Limit(s, "cost"))
    BY KnownTypes, AllowedLater
  <2>2. Allowed(floor[c].cost + pending[c]["cost"] + 1, "cost", floor[c].policy)' <=>
          \E s \in floor[c].policy .. policy' : Fits(floor[c].cost + pending[c]["cost"] + 1, Limit(s, "cost"))
    BY DEF Allowed, Kept
  <2>3. /\ NotOlder(c, "tokens", cache[c].tokens)' <=> NotOlder(c, "tokens", cache[c].tokens)
        /\ NotOlder(c, "cost", cache[c].cost)' <=> NotOlder(c, "cost", cache[c].cost)
        /\ cache'[c] = cache[c] /\ floor'[c] = floor[c]
    BY DEF NotOlder, Kept
  <2>4. Loading(a) /\ Context(a) = c /\ proc[a].why = "tokens" => Allowed(floor[c].cost + pending[c]["cost"] + 1, "cost", floor[c].policy)'
    BY <1>3, <2>1, <2>2 DEF CacheSound
  <2> QED
    BY <1>2, <1>3, <2>3, <2>4, ZenonT(60) DEF CacheSound
<1> QED
  BY <1>1, <1>3

LEMMA LoadKept ==
  ASSUME TypeOK, Later, NEW a \in Agents, LoadSound(a), proc'[a] = proc[a],
         \A c \in {Own(a), Tools(a)} : Kept(c)
  PROVE  LoadSound(a)'
<1>1. Context(a)' = Context(a) /\ Context(a) \in {Own(a), Tools(a)}
  BY ContextKinds DEF Context
<1>2. cache'[Context(a)] = cache[Context(a)]
  BY <1>1 DEF Kept
<1>3. Loading(a)' <=> Loading(a)
  BY DEF Loading
<1>4. At(a, "load cost")' <=> At(a, "load cost")
  BY DEF At
<1>5. cache[Context(a)].tokens \in Nat /\ used["tokens"] \in Nat /\ proc[a].since \in Nat /\ policy \in Nat
  BY <1>1, KnownTypes
<1>6. Loading(a) => proc'[a].since <= policy'
  <2>1. Loading(a) => proc[a].since <= policy
    BY DEF LoadSound
  <2>2. policy <= policy' /\ policy' \in Nat
    BY <1>5 DEF Later
  <2> QED
    BY <1>5, <2>1, <2>2
<1>7. At(a, "load cost") =>
        /\ proc'[a].since <= cache'[Context(a)].policy
        /\ Limit(cache'[Context(a)].policy, "tokens") # NoLimit => cache'[Context(a)].tokens <= used'["tokens"]
  <2>1. At(a, "load cost") =>
          /\ proc[a].since <= cache[Context(a)].policy
          /\ Limit(cache[Context(a)].policy, "tokens") # NoLimit => cache[Context(a)].tokens <= used["tokens"]
    BY DEF LoadSound
  <2>2. used["tokens"] <= used'["tokens"] /\ used'["tokens"] \in Nat
    BY <1>5 DEF Later, Metrics
  <2>3. cache[Context(a)].tokens <= used["tokens"] => cache[Context(a)].tokens <= used'["tokens"]
    BY <1>5, <2>2
  <2> QED
    BY <1>2, <2>1, <2>3
<1> QED
  BY <1>1, <1>3, <1>4, <1>6, <1>7 DEF LoadSound

LEMMA OthersKnow ==
  ASSUME TypeOK, Later, NEW b \in Agents, Knowledge(b), proc'[b] = proc[b], b \in faulty' <=> b \in faulty,
         \A c \in {Own(b), Tools(b)} : Kept(c)
  PROVE  Knowledge(b)'
<1>1. LoadSound(b)'
  BY LoadKept DEF Knowledge
<1>2. ASSUME NEW c \in {Own(b), Tools(b)}
      PROVE  PastOf(c)' /\ (b \notin faulty' => CacheSound(b, c)')
  BY KnowledgeKept DEF Knowledge
<1> QED
  BY <1>1, <1>2 DEF Knowledge, Own, Tools

\* A run that neither was nor is loading keeps a cache that has at most grown.
LEMMA KnowledgeRests ==
  ASSUME TypeOK, Later, NEW a \in Agents, Knowledge(a), ~Loading(a), ~Loading(a)', a \in faulty => a \in faulty',
         \A c \in {Own(a), Tools(a)} :
           /\ floor'[c] = floor[c] /\ cache'[c].policy = cache[c].policy /\ cache'[c].state = cache[c].state
           /\ cache'[c].tokens \in Nat /\ cache'[c].tokens >= cache[c].tokens
           /\ cache'[c].cost \in Nat /\ cache'[c].cost >= cache[c].cost
  PROVE  Knowledge(a)'
<1>1. LoadSound(a)'
  BY DEF LoadSound, Loading, At
<1>2. ASSUME NEW c \in {Own(a), Tools(a)}
      PROVE  PastOf(c)' /\ (a \notin faulty' => CacheSound(a, c)')
  <2>1. PastOf(c)'
    BY KnownTypes DEF PastOf, Later, Knowledge, Metrics
  <2>2. ASSUME a \notin faulty'
        PROVE  CacheSound(a, c)'
    <3>1. CacheSound(a, c) /\ a \notin faulty
      BY <2>2 DEF Knowledge
    <3>2. ~HalfLoaded(a, c) /\ ~HalfLoaded(a, c)'
      BY DEF HalfLoaded, Loading, At
    <3> QED
      BY <3>1, <3>2, KnownTypes DEF CacheSound, NotOlder
  <2> QED
    BY <2>1, <2>2
<1> QED
  BY <1>1, <1>2 DEF Knowledge, Own, Tools

\* A fault ends a load; nothing is asked of the cache any more.
LEMMA KnowledgeFails ==
  ASSUME TypeOK, Later, NEW a \in Agents, Knowledge(a), ~Loading(a)', a \in faulty', UNCHANGED <<cache, floor>>
  PROVE  Knowledge(a)'
<1>1. LoadSound(a)'
  BY DEF LoadSound, Loading, At
<1>2. ASSUME NEW c \in {Own(a), Tools(a)}
      PROVE  PastOf(c)'
  BY KnownTypes DEF PastOf, Later, Knowledge, Metrics
<1> QED
  BY <1>1, <1>2 DEF Knowledge, Own, Tools
-----------------------------------------------------------------------------
(* the verdict *)

\* Within the budget of the spend cap, and of the tokens.
Solvent(known, buffer) == Fits(known.cost + buffer["cost"] + 1, Limit(known.policy, "cost"))
Frugal(known, buffer, n) == Fits(known.tokens + buffer["tokens"] + n, Limit(known.policy, "tokens"))

\* What a verdict v says.
Judged(v, known, buffer, n, why) ==
  /\ v \in Verdicts
  /\ v = "asking" => Frugal(known, buffer, n) /\ (why # "tokens" => Solvent(known, buffer))
  /\ v = "reload tokens" => why # "tokens" /\ Solvent(known, buffer)
  /\ v = "reload cost" => why # "tokens"
  /\ v = "refused" => \/ why = "cost" /\ ~Solvent(known, buffer)
                      \/ why = "tokens" /\ ~Frugal(known, buffer, n)

LEMMA VerdictMeans ==
  ASSUME NEW known \in Known, NEW buffer \in [Buffered -> Nat], NEW n \in Nat, NEW why
  PROVE  Judged(Verdict(known, buffer, n, why), known, buffer, n, why)
<1> DEFINE v == Verdict(known, buffer, n, why)
           overspent == /\ why # "tokens" /\ Limit(known.policy, "cost") # NoLimit
                        /\ known.cost + buffer["cost"] >= Limit(known.policy, "cost")
<1>1. overspent <=> why # "tokens" /\ ~Solvent(known, buffer)
  <2>1. /\ known.cost + buffer["cost"] \in Nat
        /\ Limit(known.policy, "cost") \in Nat \cup {NoLimit}
    BY LimitType DEF Known, Buffered, Metrics
  <2> QED
    BY <2>1 DEF Solvent, Fits
<1>2. v = CASE overspent                                -> IF why = "cost" THEN "refused" ELSE "reload cost"
            [] ~overspent /\ Frugal(known, buffer, n)  -> "asking"
            [] ~overspent /\ ~Frugal(known, buffer, n) -> IF why = "tokens" THEN "refused" ELSE "reload tokens"
  BY DEF Verdict, Frugal
<1> HIDE DEF overspent, v
<1>3. CASE overspent
  <2>1. v = IF why = "cost" THEN "refused" ELSE "reload cost"
    BY <1>2, <1>3
  <2>2. Judged(v, known, buffer, n, why)
    BY <1>1, <1>3, <2>1 DEF Verdicts, Judged
  <2> QED
    BY <2>2 DEF v
<1>4. CASE ~overspent /\ Frugal(known, buffer, n)
  <2>1. v = "asking"
    BY <1>2, <1>4
  <2>2. Judged(v, known, buffer, n, why)
    BY <1>1, <1>4, <2>1 DEF Verdicts, Judged
  <2> QED
    BY <2>2 DEF v
<1>5. CASE ~overspent /\ ~Frugal(known, buffer, n)
  <2>1. v = IF why = "tokens" THEN "refused" ELSE "reload tokens"
    BY <1>2, <1>5
  <2>2. Judged(v, known, buffer, n, why)
    BY <1>1, <1>5, <2>1 DEF Verdicts, Judged
  <2> QED
    BY <2>2 DEF v
<1> QED
  BY <1>3, <1>4, <1>5

\* What a context's cache, not older than its last expiry, says of a limit holds
\* for the counters at that expiry.
LEMMA SolventThen ==
  ASSUME TypeOK, NEW a \in Agents, NEW c \in {Own(a), Tools(a)}, NEW known \in Known,
         floor[c].policy <= known.policy, known.policy <= policy,
         NotOlder(c, "cost", known.cost), known.policy = cache[c].policy, Solvent(known, pending[c])
  PROVE  Allowed(floor[c].cost + pending[c]["cost"] + 1, "cost", floor[c].policy)
<1>1. known.policy \in floor[c].policy .. policy /\ Limit(known.policy, "cost") \in Nat \cup {NoLimit}
  BY KnownTypes, LimitType DEF Known, Metrics
<1>2. Fits(floor[c].cost + pending[c]["cost"] + 1, Limit(known.policy, "cost"))
  BY <1>1, KnownTypes DEF Solvent, Fits, NotOlder, Known
<1> QED
  BY <1>1, <1>2 DEF Allowed

LEMMA FrugalThen ==
  ASSUME TypeOK, NEW a \in Agents, NEW c \in {Own(a), Tools(a)}, NEW known \in Known, NEW n \in Nat,
         floor[c].policy <= known.policy, known.policy <= policy,
         NotOlder(c, "tokens", known.tokens), known.policy = cache[c].policy, Frugal(known, pending[c], n)
  PROVE  Allowed(floor[c].tokens + pending[c]["tokens"] + n, "tokens", floor[c].policy)
<1>1. known.policy \in floor[c].policy .. policy /\ Limit(known.policy, "tokens") \in Nat \cup {NoLimit}
  BY KnownTypes, LimitType DEF Known, Metrics
<1>2. Fits(floor[c].tokens + pending[c]["tokens"] + n, Limit(known.policy, "tokens"))
  BY <1>1, KnownTypes DEF Frugal, Fits, NotOlder, Known
<1> QED
  BY <1>1, <1>2 DEF Allowed

LEMMA FollowFields ==
  ASSUME proc \in [Agents -> Process], NEW a \in Agents, NEW p \in Process,
         NEW v \in Verdicts, Follow(a, p, v)
  PROVE  /\ proc'[a].kind = p.kind /\ proc'[a].amount = p.amount /\ proc'[a].since = p.since
         /\ v = "reload cost" => proc'[a].pc = "load" /\ proc'[a].why = "cost"
         /\ v = "reload tokens" => proc'[a].pc = "load" /\ proc'[a].why = "tokens"
         /\ v \in {"asking", "refused"} => proc'[a].pc = v
<1>1. ASSUME NEW w \in {"cost", "tokens"}, Go(a, [p EXCEPT !.pc = "load", !.why = w])
      PROVE  /\ proc'[a].kind = p.kind /\ proc'[a].amount = p.amount /\ proc'[a].since = p.since
             /\ proc'[a].pc = "load" /\ proc'[a].why = w
  <2> DEFINE q == [p EXCEPT !.pc = "load", !.why = w]
  <2>1. /\ q \in Process /\ q.pc = "load" /\ q.why = w
        /\ q.kind = p.kind /\ q.amount = p.amount /\ q.since = p.since
    BY DEF Process, Labels
  <2>2. Go(a, q)
    BY <1>1
  <2> HIDE DEF q
  <2>3. proc'[a] = q
    BY <2>1, <2>2, GoType
  <2> QED
    BY <2>1, <2>3
<1>2. CASE v \in {"asking", "refused"}
  <2> DEFINE q == [p EXCEPT !.pc = v]
  <2>1. /\ q \in Process /\ q.pc = v
        /\ q.kind = p.kind /\ q.amount = p.amount /\ q.since = p.since
    BY <1>2 DEF Process, Labels
  <2>2. Go(a, q)
    BY <1>2 DEF Follow
  <2> HIDE DEF q
  <2>3. proc'[a] = q
    BY <1>2, <2>1, <2>2, GoType
  <2> QED
    BY <1>2, <2>1, <2>3
<1>3. CASE v = "reload cost"
  <2>1. Go(a, [p EXCEPT !.pc = "load", !.why = "cost"])
    BY <1>3 DEF Follow
  <2> QED
    BY <1>1, <1>3, <2>1
<1>4. CASE v = "reload tokens"
  <2>1. Go(a, [p EXCEPT !.pc = "load", !.why = "tokens"])
    BY <1>4 DEF Follow
  <2> QED
    BY <1>1, <1>4, <2>1
<1> QED
  BY <1>2, <1>3, <1>4 DEF Verdicts

LEMMA StartCallMeans ==
  ASSUME TypeOK, NEW a \in Agents, NEW k \in {"agent", "tool"}, NEW n \in Estimates, StartCall(a, k, n)
  PROVE  LET c == <<a, k>> IN
         /\ Context(a)' = c /\ proc'[a].amount = n /\ proc'[a].since = policy
         /\ \/ proc'[a].pc = "load" /\ proc'[a].why # "tokens"
            \/ proc'[a].pc = "load" /\ cache[c].state = "fresh" /\ Solvent(cache[c], pending[c])
            \/ /\ proc'[a].pc = "asking" /\ cache[c].state = "fresh"
               /\ Solvent(cache[c], pending[c]) /\ Frugal(cache[c], pending[c], n)
         /\ UNCHANGED <<policy, used, buffers, floor, faulty>>
<1> DEFINE c == <<a, k>>
           p == [proc[a] EXCEPT !.kind = k, !.amount = n, !.since = policy]
           v == Verdict(cache[c], pending[c], n, "ttl")
<1>1. /\ proc \in [Agents -> Process] /\ p \in Process /\ c \in Contexts /\ n \in Nat
      /\ p.kind = k /\ p.amount = n /\ p.since = policy
      /\ cache[c] \in Known /\ pending[c] \in [Buffered -> Nat]
  <2>1. proc \in [Agents -> Process] /\ proc[a] \in Process /\ policy \in Times /\ n \in Nat
    BY QuotaAssumption DEF TypeOK
  <2>2. p \in Process /\ p.kind = k /\ p.amount = n /\ p.since = policy
    BY <2>1 DEF Process
  <2>3. c \in Contexts /\ cache[c] \in Known /\ pending[c] \in [Buffered -> Nat]
    BY DEF TypeOK, Contexts
  <2> QED
    BY <2>1, <2>2, <2>3
<1>2. /\ \/ cache[c].state = "fresh" /\ Follow(a, p, v)
         \/ Go(a, [p EXCEPT !.pc = "load", !.why = "ttl"])
      /\ UNCHANGED <<policy, used, buffers, floor, faulty>>
  BY DEF StartCall, counters, history
<1>3. /\ v \in Verdicts /\ v # "refused"
      /\ v = "asking" => Frugal(cache[c], pending[c], n) /\ Solvent(cache[c], pending[c])
      /\ v = "reload tokens" => Solvent(cache[c], pending[c])
  <2>1. Judged(v, cache[c], pending[c], n, "ttl")
    BY <1>1, VerdictMeans
  <2> QED
    BY <2>1 DEF Judged
<1> HIDE DEF p, v
<1>4. CASE Go(a, [p EXCEPT !.pc = "load", !.why = "ttl"])
  <2>1. proc'[a] = [p EXCEPT !.pc = "load", !.why = "ttl"]
    <3>1. /\ [p EXCEPT !.pc = "load", !.why = "ttl"] \in Process
          /\ [p EXCEPT !.pc = "load", !.why = "ttl"].pc = "load"
      BY <1>1 DEF Process, Labels
    <3> QED
      BY <1>1, <1>4, <3>1, GoType
  <2> QED
    BY <1>1, <1>2, <2>1 DEF Process, Context
<1>5. CASE cache[c].state = "fresh" /\ Follow(a, p, v)
  <2>1. /\ proc'[a].kind = p.kind /\ proc'[a].amount = p.amount /\ proc'[a].since = p.since
        /\ v = "reload cost" => proc'[a].pc = "load" /\ proc'[a].why = "cost"
        /\ v = "reload tokens" => proc'[a].pc = "load" /\ proc'[a].why = "tokens"
        /\ v \in {"asking", "refused"} => proc'[a].pc = v
    BY <1>1, <1>3, <1>5, FollowFields
  <2>2. CASE v = "reload cost"
    BY <1>1, <1>2, <2>1, <2>2 DEF Process, Context
  <2>3. CASE v = "reload tokens"
    BY <1>1, <1>2, <1>3, <1>5, <2>1, <2>3 DEF Process, Context
  <2>4. CASE v = "asking"
    BY <1>1, <1>2, <1>3, <1>5, <2>1, <2>4 DEF Process, Context
  <2> QED
    BY <1>3, <2>2, <2>3, <2>4 DEF Verdicts
<1> QED
  BY <1>2, <1>4, <1>5

LEMMA LoadMeans ==
  ASSUME TypeOK, NEW a \in Agents, Load(a)
  PROVE  LET c == Context(a) IN
         /\ proc'[a] = [proc[a] EXCEPT !.pc = "load cost"] /\ Context(a)' = c
         /\ \A x \in Contexts : x # c => cache'[x] = cache[x]
         /\ cache'[c].policy = policy
         /\ cache'[c].tokens = IF Limit(policy, "tokens") = NoLimit THEN 0 ELSE used["tokens"]
         /\ UNCHANGED <<policy, used, pending, floor, faulty>>
<1> DEFINE c == Context(a)
           known == [cache[c] EXCEPT !.policy = policy,
                                     !.tokens = IF Limit(policy, "tokens") = NoLimit THEN 0 ELSE used["tokens"]]
<1>1. c \in Contexts /\ cache[c] \in Known /\ cache \in [Contexts -> Known]
      /\ proc \in [Agents -> Process] /\ proc[a] \in Process
  BY ContextKinds DEF TypeOK
<1>2. cache' = [cache EXCEPT ![c] = known]
  BY <1>1 DEF Load, Known
<1>3. known.policy = policy /\ known.tokens = IF Limit(policy, "tokens") = NoLimit THEN 0 ELSE used["tokens"]
  BY <1>1 DEF Known
<1> HIDE DEF known
<1>4. cache'[c] = known /\ \A x \in Contexts : x # c => cache'[x] = cache[x]
  BY <1>1, <1>2
<1>5. /\ [proc[a] EXCEPT !.pc = "load cost"] \in Process /\ [proc[a] EXCEPT !.pc = "load cost"].pc = "load cost"
      /\ [proc[a] EXCEPT !.pc = "load cost"].kind = proc[a].kind
  BY <1>1 DEF Process, Labels
<1>6. proc'[a] = [proc[a] EXCEPT !.pc = "load cost"]
  BY <1>1, <1>5, GoType DEF Load
<1>7. Context(a)' = c
  BY <1>5, <1>6 DEF Context
<1> HIDE DEF c
<1> QED
  BY <1>3, <1>4, <1>6, <1>7 DEF Load, counters, history, c

LEMMA LoadCostMeans ==
  ASSUME TypeOK, NEW a \in Agents, LoadCost(a)
  PROVE  LET c == Context(a)
             known == cache'[c]
         IN
         /\ Context(a)' = c /\ proc'[a].amount = proc[a].amount /\ proc'[a].since = proc[a].since
         /\ \A x \in Contexts : x # c => cache'[x] = cache[x]
         /\ known \in Known /\ known.policy = cache[c].policy /\ known.tokens = cache[c].tokens
         /\ known.cost = IF Limit(cache[c].policy, "cost") = NoLimit THEN 0 ELSE used["cost"]
         /\ \/ proc'[a].pc = "load" /\ proc'[a].why # "tokens"
            \/ proc'[a].pc = "load" /\ Solvent(known, pending[c])
            \/ /\ proc'[a].pc = "asking" /\ Frugal(known, pending[c], proc[a].amount)
               /\ proc[a].why # "tokens" => Solvent(known, pending[c])
            \/ /\ proc'[a].pc = "refused"
               /\ ~Solvent(known, pending[c]) \/ ~Frugal(known, pending[c], proc[a].amount)
         /\ UNCHANGED <<policy, used, pending, floor, faulty>>
<1> DEFINE c == Context(a)
           known == [cache[c] EXCEPT !.state = "fresh",
                                     !.cost = IF Limit(cache[c].policy, "cost") = NoLimit THEN 0 ELSE used["cost"]]
           v == Verdict(known, pending[c], proc[a].amount, proc[a].why)
<1>1. c \in Contexts /\ cache[c] \in Known /\ cache \in [Contexts -> Known]
      /\ proc \in [Agents -> Process] /\ proc[a] \in Process /\ proc[a].amount \in Nat
      /\ pending[c] \in [Buffered -> Nat] /\ used["cost"] \in Nat
  BY ContextKinds DEF TypeOK, Process, Metrics
<1>2. cache' = [cache EXCEPT ![c] = known] /\ Follow(a, proc[a], v)
      /\ UNCHANGED <<policy, used, pending, floor, faulty>>
  BY DEF LoadCost, counters, history
<1>3. known \in Known /\ known.policy = cache[c].policy /\ known.tokens = cache[c].tokens
      /\ known.cost = IF Limit(cache[c].policy, "cost") = NoLimit THEN 0 ELSE used["cost"]
  BY <1>1 DEF Known
<1> HIDE DEF known
<1>4. cache'[c] = known /\ \A x \in Contexts : x # c => cache'[x] = cache[x]
  BY <1>1, <1>2
<1>5. /\ v \in Verdicts
      /\ v = "asking" => Frugal(known, pending[c], proc[a].amount) /\ (proc[a].why # "tokens" => Solvent(known, pending[c]))
      /\ v = "reload tokens" => Solvent(known, pending[c])
      /\ v = "refused" => ~Solvent(known, pending[c]) \/ ~Frugal(known, pending[c], proc[a].amount)
  <2>1. Judged(v, known, pending[c], proc[a].amount, proc[a].why)
    BY <1>1, <1>3, VerdictMeans
  <2> QED
    BY <2>1 DEF Judged
<1> HIDE DEF v, c
<1>6. /\ proc'[a].kind = proc[a].kind /\ proc'[a].amount = proc[a].amount /\ proc'[a].since = proc[a].since
      /\ v = "reload cost" => proc'[a].pc = "load" /\ proc'[a].why = "cost"
      /\ v = "reload tokens" => proc'[a].pc = "load" /\ proc'[a].why = "tokens"
      /\ v \in {"asking", "refused"} => proc'[a].pc = v
  BY <1>1, <1>2, <1>5, FollowFields
<1>8. Context(a)' = c
  BY <1>6 DEF Context, c
<1>9. \/ proc'[a].pc = "load" /\ proc'[a].why # "tokens"
      \/ proc'[a].pc = "load" /\ Solvent(known, pending[c])
      \/ /\ proc'[a].pc = "asking" /\ Frugal(known, pending[c], proc[a].amount)
         /\ proc[a].why # "tokens" => Solvent(known, pending[c])
      \/ /\ proc'[a].pc = "refused"
         /\ ~Solvent(known, pending[c]) \/ ~Frugal(known, pending[c], proc[a].amount)
  <2>1. CASE v = "reload cost"
    BY <1>1, <1>6, <2>1 DEF Process
  <2>2. CASE v = "reload tokens"
    BY <1>1, <1>5, <1>6, <2>2 DEF Process
  <2>3. CASE v = "asking"
    BY <1>1, <1>5, <1>6, <2>3 DEF Process
  <2>4. CASE v = "refused"
    BY <1>1, <1>5, <1>6, <2>4 DEF Process
  <2> QED
    BY <1>5, <2>1, <2>2, <2>3, <2>4 DEF Verdicts
<1> QED
  BY <1>2, <1>3, <1>4, <1>6, <1>8, <1>9 DEF c
-----------------------------------------------------------------------------
(* what the steps of a run teach it *)

LEMMA LaterStep ==
  ASSUME TypeOK, TypeOK', RowsAgree, [Next]_vars
  PROVE  Later
<1>1. policy \in Nat /\ policy' \in Nat /\ used' \in [Metrics -> Nat]
  BY QuotaAssumption DEF TypeOK, Times
<1>2. policy' = policy \/ policy' = policy + 1
  <2>1. \A a \in Agents : CallStep(a) => policy' = policy
    BY CallEffect
  <2>2. \A a \in Agents : CountStep(a) => policy' = policy
    BY DEF CountStep, StartQuery, Begin, Update, Insert, Refuse, CommitWell, Run, EndRun, Flush
  <2>3. \A a \in Agents : DbError(a) \/ AckLost(a) \/ Die(a) => policy' = policy
    BY DEF DbError, AckLost, Die
  <2> QED
    BY <2>1, <2>2, <2>3 DEF Next, EditPolicy, Expire, CallWithout, vars
<1> QED
  BY <1>1, <1>2, UsedGrows DEF Later

\* The budget at the last expiry, of a run that has found its cache good.
SpendAllowed(c) == Allowed(floor[c].cost + pending[c]["cost"] + 1, "cost", floor[c].policy)

LEMMA KnowsStart ==
  ASSUME TypeOK, Later, NEW a \in Agents, Knowledge(a),
         NEW k \in {"agent", "tool"}, NEW n \in Estimates, StartCall(a, k, n)
  PROVE  Knowledge(a)'
<1> DEFINE c == <<a, k>>
<1>1. c \in {Own(a), Tools(a)} /\ n \in Nat /\ proc[a].pc = "ready"
  BY QuotaAssumption DEF Own, Tools, StartCall, At
<1>2. /\ Context(a)' = c /\ proc'[a].since = policy
      /\ \/ proc'[a].pc = "load" /\ proc'[a].why # "tokens"
         \/ proc'[a].pc = "load" /\ cache[c].state = "fresh" /\ Solvent(cache[c], pending[c])
         \/ proc'[a].pc = "asking"
      /\ UNCHANGED <<policy, used, buffers, floor, faulty>>
  BY StartCallMeans
<1>3. UNCHANGED <<policy, used, cache, pending, floor, faulty>>
  BY <1>2 DEF buffers
<1> HIDE DEF c
<1>4. CASE proc'[a].pc = "asking"
  <2>1. ~Loading(a) /\ ~Loading(a)'
    BY <1>1, <1>4 DEF Loading
  <2> QED
    BY <1>3, <2>1, KnownTypes, KnowledgeRests
<1>5. CASE proc'[a].pc = "load"
  <2>1. LoadSound(a)'
    BY <1>2, <1>3, <1>5, KnownTypes DEF LoadSound, At
  <2>2. ASSUME NEW x \in {Own(a), Tools(a)}, a \notin faulty
        PROVE  CacheSound(a, x)'
    <3>1. CacheSound(a, x) /\ ~HalfLoaded(a, x) /\ ~HalfLoaded(a, x)'
      BY <1>1, <1>5, <2>2 DEF Knowledge, HalfLoaded, At
    <3>2. Context(a)' = x /\ proc'[a].why = "tokens" => SpendAllowed(x)
      <4>1. SUFFICES ASSUME x = c, proc'[a].why = "tokens" PROVE SpendAllowed(x)
        BY <1>2
      <4>2. cache[x].state = "fresh" /\ Solvent(cache[x], pending[x])
        BY <1>2, <1>5, <4>1
      <4>3. floor[x].policy <= cache[x].policy /\ NotOlder(x, "cost", cache[x].cost) /\ cache[x].policy <= policy
        BY <3>1, <4>2 DEF CacheSound, Knowledge, PastOf
      <4> QED
        BY <4>2, <4>3, KnownTypes, SolventThen DEF SpendAllowed
    <3> QED
      BY <1>3, <3>1, <3>2 DEF CacheSound, SpendAllowed, NotOlder, Allowed
  <2> QED
    BY <1>3, <2>1, <2>2 DEF Knowledge, PastOf, Own, Tools
<1> QED
  BY <1>2, <1>4, <1>5

LEMMA KnowsLoad ==
  ASSUME TypeOK, Later, NEW a \in Agents, Knowledge(a), Load(a)
  PROVE  Knowledge(a)'
<1> DEFINE c == Context(a)
<1>1. c \in {Own(a), Tools(a)} /\ Own(a) \in Contexts /\ Tools(a) \in Contexts /\ At(a, "load")
  BY ContextKinds DEF Load
<1>2. /\ Context(a)' = c
      /\ \A x \in Contexts : x # c => cache'[x] = cache[x]
      /\ cache'[c].policy = policy
      /\ cache'[c].tokens = IF Limit(policy, "tokens") = NoLimit THEN 0 ELSE used["tokens"]
      /\ UNCHANGED <<policy, used, pending, floor, faulty>>
  BY LoadMeans
<1>0. proc'[a] = [proc[a] EXCEPT !.pc = "load cost"]
  BY LoadMeans
<1>3. /\ proc'[a].pc = "load cost" /\ proc'[a].since = proc[a].since /\ proc'[a].why = proc[a].why
      /\ At(a, "load cost")' /\ Loading(a)' /\ Loading(a) /\ ~At(a, "load cost")
  BY <1>0, <1>1, KnownTypes DEF Process, At, Loading
<1>4. /\ policy \in Nat /\ proc[a].since <= policy /\ used["tokens"] \in Nat
      /\ \A x \in {Own(a), Tools(a)} : PastOf(x)
  BY <1>1, <1>3, KnownTypes DEF Knowledge, LoadSound
<1>5. LoadSound(a)'
  <2> HIDE DEF c
  <2>1. proc'[a].since <= policy
    BY <1>3, <1>4
  <2>2. cache'[c].tokens <= used["tokens"]
    BY <1>2, <1>4
  <2> QED
    BY <1>2, <2>1, <2>2 DEF LoadSound
<1> HIDE DEF c
<1>6. ASSUME NEW x \in {Own(a), Tools(a)}
      PROVE  PastOf(x)'
  <2>1. cache'[x].policy <= policy'
    <3>1. CASE x = c
      BY <1>2, <1>4, <3>1
    <3>2. CASE x # c
      BY <1>1, <1>2, <1>4, <3>2 DEF PastOf
    <3> QED
      BY <3>1, <3>2
  <2> QED
    BY <1>2, <1>4, <2>1 DEF PastOf
<1>7. ASSUME NEW x \in {Own(a), Tools(a)}, a \notin faulty
      PROVE  CacheSound(a, x)'
  <2>1. CacheSound(a, x) /\ ~HalfLoaded(a, x) /\ (HalfLoaded(a, x)' <=> x = c)
    BY <1>2, <1>3, <1>7 DEF Knowledge, HalfLoaded
  <2>2. Context(a)' = x /\ proc'[a].why = "tokens" => SpendAllowed(x)
    BY <1>2, <1>3, <2>1 DEF CacheSound, SpendAllowed, c
  <2>3. SpendAllowed(x)' <=> SpendAllowed(x)
    BY <1>2 DEF SpendAllowed, Allowed
  <2>4. CASE x # c
    <3>1. cache'[x] = cache[x]
      BY <1>1, <1>2, <2>4
    <3> QED
      BY <1>2, <2>1, <2>2, <2>3, <2>4, <3>1 DEF CacheSound, SpendAllowed, NotOlder
  <2>5. CASE x = c
    <3>1. floor'[x].policy <= cache'[x].policy
      BY <1>2, <1>4, <2>5 DEF PastOf
    <3>2. Limit(cache'[x].policy, "tokens") # NoLimit => floor'[x]["tokens"] <= cache'[x].tokens
      BY <1>2, <1>4, <2>5 DEF PastOf
    <3> QED
      BY <2>1, <2>2, <2>3, <2>5, <3>1, <3>2 DEF CacheSound, SpendAllowed, NotOlder
  <2> QED
    BY <2>4, <2>5
<1> QED
  BY <1>2, <1>5, <1>6, <1>7 DEF Knowledge, Own, Tools

LEMMA KnowsLoadCost ==
  ASSUME TypeOK, Later, NEW a \in Agents, Knowledge(a), LoadCost(a)
  PROVE  Knowledge(a)'
<1> DEFINE c == Context(a)
           known == cache'[c]
<1>1. c \in {Own(a), Tools(a)} /\ Own(a) \in Contexts /\ Tools(a) \in Contexts
      /\ At(a, "load cost") /\ Loading(a)
  BY ContextKinds DEF LoadCost, Loading, At
<1>2. /\ Context(a)' = c /\ proc'[a].since = proc[a].since
      /\ \A x \in Contexts : x # c => cache'[x] = cache[x]
      /\ known \in Known /\ known.policy = cache[c].policy /\ known.tokens = cache[c].tokens
      /\ known.cost = IF Limit(cache[c].policy, "cost") = NoLimit THEN 0 ELSE used["cost"]
      /\ \/ proc'[a].pc = "load" /\ proc'[a].why # "tokens"
         \/ proc'[a].pc = "load" /\ Solvent(known, pending[c])
         \/ proc'[a].pc \in {"asking", "refused"}
      /\ UNCHANGED <<policy, used, pending, floor, faulty>>
  BY LoadCostMeans
<1>3. known = cache'[c]
  OBVIOUS
<1> HIDE DEF c, known
<1>4. ~At(a, "load cost")' /\ (Loading(a)' => proc'[a].pc = "load")
  BY <1>2 DEF At, Loading
<1>5. proc[a].since <= policy /\ \A x \in {Own(a), Tools(a)} : PastOf(x)
  BY <1>1 DEF Knowledge, LoadSound
<1>6. LoadSound(a)'
  BY <1>2, <1>4, <1>5 DEF LoadSound
<1>7. \A x \in {Own(a), Tools(a)} : cache'[x].policy = cache[x].policy
  BY <1>1, <1>2, <1>3
<1>8. \A x \in {Own(a), Tools(a)} : PastOf(x)'
  BY <1>2, <1>5, <1>7 DEF PastOf
<1>9. ASSUME NEW x \in {Own(a), Tools(a)}, a \notin faulty
      PROVE  CacheSound(a, x)'
  <2>1. CacheSound(a, x) /\ ~HalfLoaded(a, x)' /\ (HalfLoaded(a, x) <=> x = c)
    BY <1>1, <1>4, <1>9 DEF Knowledge, HalfLoaded, c
  <2>2. CASE x # c
    <3>1. cache'[x] = cache[x] /\ Context(a)' # x
      BY <1>1, <1>2, <2>2
    <3> QED
      BY <1>2, <2>1, <2>2, <3>1 DEF CacheSound, NotOlder
  <2>3. CASE x = c
    <3>1. floor[x].policy <= known.policy /\ NotOlder(x, "tokens", known.tokens) /\ known.policy <= policy
      BY <1>2, <1>5, <2>1, <2>3 DEF CacheSound, NotOlder, PastOf
    <3>2. NotOlder(x, "cost", known.cost)
      <4>1. floor[x].cost <= used["cost"]
        BY <1>5 DEF PastOf
      <4>2. Limit(known.policy, "cost") # NoLimit => known.cost = used["cost"]
        BY <1>2
      <4>3. NotOlder(x, "cost", known.cost) <=> (Limit(cache[x].policy, "cost") # NoLimit => floor[x].cost <= known.cost)
        BY DEF NotOlder
      <4> QED
        BY <1>2, <2>3, <4>1, <4>2, <4>3
    <3>3. Loading(a)' /\ proc'[a].why = "tokens" => SpendAllowed(x)
      <4>1. SUFFICES ASSUME Solvent(known, pending[x]) PROVE SpendAllowed(x)
        BY <1>2, <1>4, <2>3
      <4>2. known \in Known /\ known.policy = cache[x].policy
        BY <1>2, <2>3
      <4> QED
        BY <3>1, <3>2, <4>1, <4>2, SolventThen DEF SpendAllowed
    <3>4. /\ SpendAllowed(x)' <=> SpendAllowed(x)
          /\ NotOlder(x, "cost", cache[x].cost)' <=> NotOlder(x, "cost", known.cost)
          /\ NotOlder(x, "tokens", cache[x].tokens)' <=> NotOlder(x, "tokens", known.tokens)
          /\ floor'[x].policy <= cache'[x].policy
      BY <1>2, <1>3, <1>7, <2>3, <3>1 DEF SpendAllowed, Allowed, NotOlder
    <3> QED
      BY <2>1, <3>1, <3>2, <3>3, <3>4 DEF CacheSound, SpendAllowed
  <2> QED
    BY <2>2, <2>3
<1> QED
  BY <1>2, <1>6, <1>8, <1>9 DEF Knowledge, Own, Tools

\* Counting teaches a context at most what it has counted itself.
LEMMA CountTeaches ==
  ASSUME TypeOK, KindsAgree, NEW a \in Agents, CountStep(a)
  PROVE  /\ \A x \in Contexts :
              /\ x # Context(a) => cache'[x] = cache[x] /\ pending'[x] = pending[x]
              /\ cache'[x].policy = cache[x].policy /\ cache'[x].state = cache[x].state
              /\ cache'[x].tokens \in Nat /\ cache'[x].tokens >= cache[x].tokens
              /\ cache'[x].cost \in Nat /\ cache'[x].cost >= cache[x].cost
         /\ UNCHANGED <<floor, faulty>>
<1>0. /\ cache \in [Contexts -> Known] /\ pending \in [Contexts -> [Buffered -> Nat]]
      /\ proc[a].amount \in Nat /\ Context(a) \in Contexts
  BY ContextKinds, AccountTypes DEF TypeOK
<1> DEFINE Same(x) == /\ cache'[x].policy = cache[x].policy /\ cache'[x].state = cache[x].state
                      /\ cache'[x].tokens \in Nat /\ cache'[x].tokens >= cache[x].tokens
                      /\ cache'[x].cost \in Nat /\ cache'[x].cost >= cache[x].cost
<1>1. ASSUME cache' = cache, NEW x \in Contexts
      PROVE  Same(x)
  BY <1>0, <1>1 DEF Known
<1>2. ASSUME Succeed(a), NEW x \in Contexts
      PROVE  Same(x) /\ (x # Context(a) => cache'[x] = cache[x] /\ pending'[x] = pending[x])
  <2> DEFINE c == Context(a)
             k == [cache[c] EXCEPT !.tokens = @ + proc[a].amount]
             l == [cache[c] EXCEPT !.cost = @ + proc[a].amount]
  <2>1. /\ k.policy = cache[c].policy /\ k.state = cache[c].state
        /\ k.tokens \in Nat /\ k.tokens >= cache[c].tokens /\ k.cost \in Nat /\ k.cost >= cache[c].cost
    BY <1>0 DEF Known
  <2>2. /\ l.policy = cache[c].policy /\ l.state = cache[c].state
        /\ l.tokens \in Nat /\ l.tokens >= cache[c].tokens /\ l.cost \in Nat /\ l.cost >= cache[c].cost
    BY <1>0 DEF Known
  <2>3. \/ cache' = [cache EXCEPT ![c] = k]
        \/ cache' = [cache EXCEPT ![c] = l]
        \/ cache' = cache
    BY <1>2 DEF Succeed
  <2>4. pending' = pending
    BY <1>2 DEF Succeed
  <2> HIDE DEF c, k, l
  <2>5. CASE cache' = cache
    BY <1>1, <2>4, <2>5
  <2>6. ASSUME NEW y, cache' = [cache EXCEPT ![c] = y],
               y.policy = cache[c].policy, y.state = cache[c].state,
               y.tokens \in Nat, y.tokens >= cache[c].tokens, y.cost \in Nat, y.cost >= cache[c].cost
        PROVE  Same(x) /\ (x # c => cache'[x] = cache[x] /\ pending'[x] = pending[x])
    <3>1. cache'[x] = IF x = c THEN y ELSE cache[x]
      BY <1>0, <2>6
    <3> QED
      BY <1>0, <2>4, <2>6, <3>1 DEF Known
  <2>7. Same(x) /\ (x # c => cache'[x] = cache[x] /\ pending'[x] = pending[x])
    BY <2>1, <2>2, <2>3, <2>4, <2>5, <2>6
  <2> QED
    BY <2>7 DEF c
<1>3. ASSUME Fail(a), NEW x \in Contexts
      PROVE  cache' = cache /\ (x # Context(a) => pending'[x] = pending[x])
  BY <1>0, <1>3 DEF Fail
<1>4. ASSUME Flush(a), NEW x \in Contexts
      PROVE  cache' = cache /\ (x # Context(a) => pending'[x] = pending[x])
  BY <1>0, <1>4 DEF Flush
<1>5. UNCHANGED <<floor, faulty>>
  BY DEF CountStep, StartQuery, Begin, Update, Insert, Refuse, CommitWell, Run, EndRun, Flush, history
<1>6. \/ UNCHANGED <<cache, pending>> \/ Succeed(a) \/ Fail(a) \/ Flush(a)
  BY DEF CountStep, StartQuery, Begin, Update, Insert, Refuse, CommitWell, Run, EndRun, Flush, buffers
<1>7. ASSUME NEW x \in Contexts
      PROVE  Same(x) /\ (x # Context(a) => cache'[x] = cache[x] /\ pending'[x] = pending[x])
  <2>1. CASE UNCHANGED <<cache, pending>>
    BY <1>1, <2>1
  <2>2. CASE Succeed(a)
    BY <1>2, <2>2
  <2>3. CASE Fail(a)
    BY <1>1, <1>3, <2>3
  <2>4. CASE Flush(a)
    BY <1>1, <1>4, <2>4
  <2> QED
    BY <1>6, <2>1, <2>2, <2>3, <2>4
<1> QED
  BY <1>5, <1>7

LEMMA CountEnds ==
  ASSUME TypeOK, KindsAgree, NEW a \in Agents, CountStep(a)
  PROVE  ~Loading(a) /\ proc'[a].pc \notin {"load", "load cost", "asking", "refused"} /\ Moves(a)
<1> DEFINE Still == proc'[a].pc \notin {"load", "load cost", "asking", "refused"} /\ Moves(a)
<1>0. proc[a] \in Process /\ proc[a].metric \in Metrics
  BY DEF TypeOK, Process
<1>1. ~Loading(a)
  BY DEF CountStep, StartQuery, Begin, Update, Insert, Refuse, CommitWell, Commit, Run, EndRun, Flush, Loading, At
<1> SUFFICES Still
  BY <1>1 DEF Loading, At
<1>2. ASSUME Succeed(a) PROVE Still
  <2>1. Succeeded(a).pc \in {"flush", "over", "run", "ready"}
    BY <1>0 DEF Succeeded, Process, Metrics
  <2> QED
    BY <1>2, <2>1, SucceedEffect
<1>3. CASE StartQuery(a)
  BY <1>0, <1>3, StartQueryEffect DEF Counting, Process
<1>4. CASE Begin(a)
  <2>1. CASE Limit(policy, proc[a].metric) = NoLimit
    BY <1>2, <1>4, <2>1 DEF Begin
  <2>2. CASE Limit(policy, proc[a].metric) # NoLimit
    BY <1>0, <1>4, <2>2, BeginEffect DEF Process
  <2> QED
    BY <2>1, <2>2
<1>5. CASE Update(a)
  BY <1>0, <1>5, UpdateEffect DEF Process
<1>6. CASE Insert(a)
  BY <1>0, <1>6, InsertEffect DEF Process
<1>7. CASE Refuse(a)
  BY <1>7, FailEffect DEF Refuse
<1>8. CASE CommitWell(a)
  BY <1>2, <1>8 DEF CommitWell
<1>9. CASE \E n \in Amounts \cup {0} : Run(a, n)
  <2>1. PICK n \in Amounts \cup {0} : Run(a, n)
    BY <1>9
  <2>2. Counting(proc[a], "bytes", n).pc = "begin"
    BY <1>0 DEF Counting, Process
  <2> QED
    BY <2>1, <2>2, RunEffect
<1>10. CASE EndRun(a)
  BY <1>0, <1>10, EndRunEffect DEF Process
<1>11. CASE Flush(a)
  <2>1. Counting(proc[a], proc[a].metric, pending[Context(a)][proc[a].metric]).pc = "begin"
    BY <1>0 DEF Counting, Process
  <2>2. [proc[a] EXCEPT !.pc = "flush", !.metric = "cost"].pc = "flush"
    BY <1>0 DEF Process
  <2> QED
    BY <1>11, <2>1, <2>2, FlushEffect
<1> QED
  BY <1>3, <1>4, <1>5, <1>6, <1>7, <1>8, <1>9, <1>10, <1>11 DEF CountStep

\* A run does not touch the caches and histories of others, and knows what it should.
LEMMA CallKnows ==
  ASSUME TypeOK, Later, NEW a \in Agents, Knowledge(a), CallStep(a)
  PROVE  /\ Knowledge(a)' /\ UNCHANGED floor
         /\ \A x \in Contexts : x[1] # a => cache'[x] = cache[x]
<1>1. UNCHANGED <<floor, faulty>>
  BY CallEffect
<1>2. Context(a) \in Contexts /\ Context(a)[1] = a
  BY ContextType DEF TypeOK
<1>3. CASE \E k \in {"agent", "tool"}, n \in Estimates : StartCall(a, k, n)
  BY <1>1, <1>3, KnowsStart DEF StartCall, buffers
<1>4. CASE Load(a)
  BY <1>1, <1>2, <1>4, KnowsLoad, LoadMeans
<1>5. CASE LoadCost(a)
  BY <1>1, <1>2, <1>5, KnowsLoadCost, LoadCostMeans
<1>6. CASE NoAnswer(a) \/ \E n \in Amounts, cost \in Costs : Answer(a, n, cost)
  <2>1. /\ cache' = cache /\ Go(a, [proc[a] EXCEPT !.pc = "ready"])
        /\ proc[a].pc \in {"asking", "refused"}
    BY <1>6 DEF Answer, NoAnswer, buffers, At
  <2>2. ~Loading(a) /\ ~Loading(a)'
    BY <2>1, ReadyEffect DEF Loading, At
  <2>3. Knowledge(a)'
    BY <1>1, <2>1, <2>2, KnownTypes, KnowledgeRests
  <2> QED
    BY <1>1, <2>1, <2>3
<1> QED
  BY <1>3, <1>4, <1>5, <1>6 DEF CallStep

LEMMA CountKnows ==
  ASSUME TypeOK, KindsAgree, Later, NEW a \in Agents, Knowledge(a), CountStep(a)
  PROVE  /\ Knowledge(a)' /\ UNCHANGED floor
         /\ \A x \in Contexts : x[1] # a => cache'[x] = cache[x]
<1>1. Context(a)[1] = a /\ Own(a) \in Contexts /\ Tools(a) \in Contexts
  BY ContextType, ContextKinds DEF TypeOK
<1>2. ~Loading(a) /\ ~Loading(a)'
  BY CountEnds DEF Loading
<1>3. /\ \A x \in Contexts :
           /\ x # Context(a) => cache'[x] = cache[x] /\ pending'[x] = pending[x]
           /\ cache'[x].policy = cache[x].policy /\ cache'[x].state = cache[x].state
           /\ cache'[x].tokens \in Nat /\ cache'[x].tokens >= cache[x].tokens
           /\ cache'[x].cost \in Nat /\ cache'[x].cost >= cache[x].cost
      /\ UNCHANGED <<floor, faulty>>
  BY CountTeaches
<1>4. Knowledge(a)'
  BY <1>1, <1>2, <1>3, KnowledgeRests
<1> QED
  BY <1>1, <1>3, <1>4

LEMMA FaultKnows ==
  ASSUME TypeOK, Later, NEW a \in Agents, Knowledge(a), DbError(a) \/ AckLost(a) \/ Die(a)
  PROVE  Knowledge(a)' /\ UNCHANGED <<cache, floor>>
<1>1. a \in faulty' /\ UNCHANGED <<cache, floor>>
  BY DEF DbError, AckLost, Die, Happens, Fail, buffers
<1>2. proc'[a].pc \in {"ready", "over"}
  BY FailEffect, ReadyEffect, DieEffect DEF DbError, AckLost
<1>3. ~Loading(a)'
  BY <1>2 DEF Loading, At
<1> QED
  BY <1>1, <1>3, KnowledgeFails

LEMMA ExpireKnows ==
  ASSUME TypeOK, Later, NEW x \in Contexts, Expire(x), NEW a \in Agents, Knowledge(a)
  PROVE  Knowledge(a)'
<1>1. /\ UNCHANGED <<policy, used, pending, proc, faulty>>
      /\ cache' = [cache EXCEPT ![x].state = "expired"]
      /\ floor' = [floor EXCEPT ![x] = [policy |-> policy, tokens |-> used["tokens"], cost |-> used["cost"]]]
      /\ ~(Context(x[1]) = x /\ proc[x[1]].pc \in {"load", "load cost"})
  BY DEF Expire, counters
<1>2. \A c \in Contexts : c # x => Kept(c)
  BY <1>1 DEF Kept, TypeOK
<1>3. Own(a) \in Contexts /\ Tools(a) \in Contexts
  BY ContextKinds
<1>4. ASSUME NEW c \in {Own(a), Tools(a)}, c # x
      PROVE  PastOf(c)' /\ (a \notin faulty' => CacheSound(a, c)')
  <2>1. proc'[a] = proc[a] /\ Kept(c) /\ PastOf(c)
    BY <1>1, <1>2, <1>3, <1>4 DEF Knowledge
  <2> QED
    BY <1>1, <2>1, KnowledgeKept DEF Knowledge
<1>5. ASSUME x \in {Own(a), Tools(a)}
      PROVE  PastOf(x)' /\ CacheSound(a, x)'
  <2>1. ~(Context(a) = x /\ Loading(a))
    <3>1. x[1] = a
      BY <1>5 DEF Own, Tools
    <3> QED
      BY <1>1, <3>1 DEF Loading, At
  <2>2. /\ cache'[x].state = "expired" /\ cache'[x].policy = cache[x].policy
        /\ floor'[x].policy = policy /\ floor'[x].tokens = used["tokens"] /\ floor'[x].cost = used["cost"]
    BY <1>1 DEF TypeOK, Known
  <2>3. cache[x].policy <= policy /\ policy \in Nat /\ used["tokens"] \in Nat /\ used["cost"] \in Nat
    BY <1>5, KnownTypes DEF Knowledge, PastOf
  <2>4. ~(Context(a)' = x /\ Loading(a)')
    BY <1>1, <2>1 DEF Context, Loading, At
  <2>5. PastOf(x)'
    <3>1. policy' = policy /\ used' = used
      BY <1>1
    <3> QED
      BY <2>2, <2>3, <3>1 DEF PastOf
  <2>6. ~HalfLoaded(a, x)'
    BY <2>4 DEF HalfLoaded, Loading, At
  <2> QED
    BY <2>2, <2>4, <2>5, <2>6 DEF CacheSound
<1>6. LoadSound(a)'
  <2>1. \A c \in {Own(a), Tools(a)} : cache'[c].policy = cache[c].policy /\ cache'[c].tokens = cache[c].tokens
    BY <1>1, <1>3 DEF TypeOK, Known
  <2>2. Context(a)' = Context(a) /\ Context(a) \in {Own(a), Tools(a)}
    BY <1>1, ContextKinds DEF Context
  <2> QED
    BY <1>1, <2>1, <2>2 DEF LoadSound, Loading, At, Knowledge
<1>7. ASSUME NEW c \in {Own(a), Tools(a)}
      PROVE  PastOf(c)' /\ (a \notin faulty' => CacheSound(a, c)')
  BY <1>4, <1>5
<1> QED
  BY <1>6, <1>7 DEF Knowledge, Own, Tools

LEMMA KnowsStep ==
  ASSUME TypeOK, TypeOK', KindsAgree, Accounts, KInv, [Next]_vars
  PROVE  KInv'
<1>1. RowsAgree' /\ Later
  BY RowsStep, LaterStep DEF KInv
<1>2. ASSUME NEW a \in Agents, CallStep(a) \/ CountStep(a) \/ DbError(a) \/ AckLost(a) \/ Die(a), NEW b \in Agents
      PROVE  Knowledge(b)'
  <2>1. /\ Knowledge(a)' /\ floor' = floor
        /\ \A x \in Contexts : x[1] # a => cache'[x] = cache[x]
    BY <1>1, <1>2, CallKnows, CountKnows, FaultKnows DEF KInv
  <2>2. Apart(a)
    BY <1>2, AccountCall, AccountCount, AccountFault, AccountDies DEF Accounts
  <2>3. CASE b # a
    <3>1. \A c \in {Own(b), Tools(b)} : c \in Contexts /\ c[1] # a
      BY <2>3 DEF Own, Tools, Contexts
    <3>2. /\ proc'[b] = proc[b] /\ (b \in faulty' <=> b \in faulty)
          /\ \A c \in {Own(b), Tools(b)} : pending'[c] = pending[c]
      BY <2>2, <2>3 DEF Apart, Moves
    <3> QED
      BY <1>1, <2>1, <3>1, <3>2, OthersKnow DEF KInv, Kept
  <2> QED
    BY <2>1, <2>3
<1>3. ASSUME NEW x \in Contexts, Expire(x), NEW b \in Agents
      PROVE  Knowledge(b)'
  BY <1>1, <1>3, ExpireKnows DEF KInv
<1>4. ASSUME UNCHANGED <<cache, floor, pending, proc, faulty>>, NEW b \in Agents
      PROVE  Knowledge(b)'
  BY <1>1, <1>4, OthersKnow DEF KInv, Kept
<1>5. \A b \in Agents : Knowledge(b)'
  BY <1>2, <1>3, <1>4 DEF Next, EditPolicy, CallWithout, vars, buffers, history
<1> QED
  BY <1>1, <1>5 DEF KInv

LEMMA KnowsInit == Init => KInv
<1> SUFFICES ASSUME Init PROVE KInv
  OBVIOUS
<1>1. policy = 1 /\ \A a \in Agents : proc[a].pc = "ready"
  BY RestingType DEF Init, Labels
<1>2. "none" \notin Agents
  BY QuotaAssumption
<1>3. RowsAgree
  BY <1>1, <1>2 DEF Init, RowsAgree, At
<1>4. ASSUME NEW a \in Agents
      PROVE  Knowledge(a)
  <2>1. ~Loading(a) /\ ~At(a, "load cost") /\ \A c : ~HalfLoaded(a, c)
    BY <1>1 DEF Loading, At, HalfLoaded
  <2>2. ASSUME NEW c \in {Own(a), Tools(a)}
        PROVE  PastOf(c) /\ cache[c].state # "fresh"
    <3>1. c \in Contexts
      BY DEF Own, Tools, Contexts
    <3> QED
      BY <1>1, <3>1 DEF Init, PastOf, Metrics
  <2> QED
    BY <2>1, <2>2 DEF Knowledge, LoadSound, CacheSound
<1> QED
  BY <1>3, <1>4 DEF KInv

KnowsInv == TypeOK /\ KindsAgree /\ Accounts /\ KInv

LEMMA KnowsHold == Spec => []KnowsInv
<1>1. Init => KnowsInv
  BY InitType, AccountsInit, KnowsInit DEF KnowsInv
<1>2. KnowsInv /\ [Next]_vars => KnowsInv'
  BY TypeStep, KindsStep, AccountsStep, KnowsStep DEF KnowsInv
<1> QED
  BY <1>1, <1>2, PTL DEF Spec
-----------------------------------------------------------------------------
\* A run that comes to a verdict does so when it starts a call or has loaded.
LEMMA VerdictSteps ==
  ASSUME KnowsInv, Next, NEW a \in Agents, NEW l \in {"asking", "refused"}, ~At(a, l), At(a, l)'
  PROVE  (\E k \in {"agent", "tool"}, n \in Estimates : StartCall(a, k, n)) \/ LoadCost(a)
<1>1. ~UNCHANGED proc
  BY DEF At
<1>2. PICK b \in Agents : CallStep(b) \/ CountStep(b) \/ DbError(b) \/ AckLost(b) \/ Die(b)
  BY <1>1 DEF Next, EditPolicy, Expire, CallWithout
<1>3. Moves(b)
  BY <1>2, AccountCall, AccountCount, AccountFault, AccountDies DEF KnowsInv, Accounts, Apart
<1>4. b = a
  BY <1>3 DEF Moves, At
<1>5. ~CountStep(a)
  BY CountEnds DEF At, KnowsInv
<1>6. ~(DbError(a) \/ AckLost(a) \/ Die(a))
  <2>1. SUFFICES ASSUME DbError(a) \/ AckLost(a) \/ Die(a) PROVE proc'[a].pc \in {"ready", "over"}
    BY DEF At
  <2> QED
    BY <2>1, FailEffect, ReadyEffect, DieEffect DEF DbError, AckLost, KnowsInv
<1>7. ~Load(a)
  <2>1. SUFFICES ASSUME Load(a) PROVE proc'[a].pc = "load cost"
    BY DEF At
  <2>2. proc[a] \in Process /\ proc'[a] = [proc[a] EXCEPT !.pc = "load cost"]
    BY <2>1, LoadMeans DEF KnowsInv, TypeOK
  <2> QED
    BY <2>2 DEF Process
<1>8. ~(NoAnswer(a) \/ \E n \in Amounts, cost \in Costs : Answer(a, n, cost))
  <2>1. SUFFICES ASSUME Go(a, [proc[a] EXCEPT !.pc = "ready"]) PROVE proc'[a].pc = "ready"
    BY DEF At, NoAnswer, Answer
  <2> QED
    BY <2>1, ReadyEffect DEF KnowsInv
<1> QED
  BY <1>2, <1>4, <1>5, <1>6, <1>7, <1>8 DEF CallStep

LEMMA RejectionStep ==
  ASSUME KnowsInv, Next, NEW a \in Agents, ~At(a, "refused"), At(a, "refused")'
  PROVE  LET c == Context(a) IN
         \E t \in proc[a].since .. policy :
           \/ ~Fits(used["tokens"] + pending[c]["tokens"] + proc[a].amount, Limit(t, "tokens"))
           \/ ~Fits(used["cost"] + pending[c]["cost"] + 1, Limit(t, "cost"))
<1> DEFINE c == Context(a)
           known == cache'[c]
           t == cache[c].policy
<1>1. ASSUME NEW k \in {"agent", "tool"}, NEW n \in Estimates
      PROVE  ~StartCall(a, k, n)
  BY StartCallMeans DEF At, KnowsInv
<1>2. LoadCost(a)
  BY <1>1, VerdictSteps
<1>3. /\ known \in Known /\ known.policy = t /\ known.tokens = cache[c].tokens
      /\ known.cost = IF Limit(t, "cost") = NoLimit THEN 0 ELSE used["cost"]
      /\ ~Solvent(known, pending[c]) \/ ~Frugal(known, pending[c], proc[a].amount)
  BY <1>2, LoadCostMeans DEF At, KnowsInv
<1>4. c \in {Own(a), Tools(a)} /\ Knowledge(a) /\ At(a, "load cost")
  BY <1>2, ContextKinds DEF KnowsInv, KInv, LoadCost
<1>5. /\ proc[a].since <= t /\ t <= policy
      /\ Limit(t, "tokens") # NoLimit => cache[c].tokens <= used["tokens"]
  BY <1>4 DEF Knowledge, LoadSound, PastOf
<1>6. /\ proc[a].since \in Nat /\ t \in Times /\ t \in Nat /\ policy \in Nat /\ proc[a].amount \in Nat
      /\ used["tokens"] \in Nat /\ used["cost"] \in Nat /\ cache[c].tokens \in Nat
      /\ pending[c]["tokens"] \in Nat /\ pending[c]["cost"] \in Nat
  BY <1>4, KnownTypes DEF KnowsInv
<1>7. Limit(t, "tokens") \in Nat \cup {NoLimit} /\ Limit(t, "cost") \in Nat \cup {NoLimit}
  BY <1>6, LimitType DEF Metrics
<1> HIDE DEF known, t, c
<1>8. CASE ~Solvent(known, pending[c])
  <2>1. ~Fits(used["cost"] + pending[c]["cost"] + 1, Limit(t, "cost"))
    BY <1>3, <1>6, <1>7, <1>8 DEF Solvent, Fits
  <2> QED
    BY <1>5, <1>6, <2>1 DEF c
<1>9. CASE ~Frugal(known, pending[c], proc[a].amount)
  <2>1. Limit(t, "tokens") # NoLimit /\ ~(cache[c].tokens + pending[c]["tokens"] + proc[a].amount <= Limit(t, "tokens"))
    BY <1>3, <1>9 DEF Frugal, Fits
  <2>2. ~(used["tokens"] + pending[c]["tokens"] + proc[a].amount <= Limit(t, "tokens"))
    BY <1>5, <1>6, <1>7, <2>1
  <2>3. ~Fits(used["tokens"] + pending[c]["tokens"] + proc[a].amount, Limit(t, "tokens"))
    BY <2>1, <2>2 DEF Fits
  <2> QED
    BY <1>5, <1>6, <2>3 DEF c
<1> QED
  BY <1>3, <1>8, <1>9

LEMMA AdmissionStep ==
  ASSUME KnowsInv, Next, NEW a \in Agents \ faulty, ~At(a, "asking"), At(a, "asking")'
  PROVE  LET c == Context(a)' IN
         /\ Allowed(floor[c].tokens + pending[c]["tokens"] + proc'[a].amount, "tokens", floor[c].policy)
         /\ Allowed(floor[c].cost + pending[c]["cost"] + 1, "cost", floor[c].policy)
<1>0. /\ TypeOK /\ Knowledge(a)
      /\ \A c \in {Own(a), Tools(a)} : PastOf(c) /\ CacheSound(a, c)
  BY DEF KnowsInv, KInv, Knowledge
<1>1. ASSUME NEW k \in {"agent", "tool"}, NEW n \in Estimates, StartCall(a, k, n)
      PROVE  LET c == Context(a)' IN
             /\ Allowed(floor[c].tokens + pending[c]["tokens"] + proc'[a].amount, "tokens", floor[c].policy)
             /\ Allowed(floor[c].cost + pending[c]["cost"] + 1, "cost", floor[c].policy)
  <2> DEFINE c == <<a, k>>
  <2>1. c \in {Own(a), Tools(a)} /\ n \in Nat /\ proc[a].pc = "ready"
    BY <1>1, QuotaAssumption DEF Own, Tools, StartCall, At
  <2>2. /\ Context(a)' = c /\ proc'[a].amount = n
        /\ cache[c].state = "fresh" /\ Solvent(cache[c], pending[c]) /\ Frugal(cache[c], pending[c], n)
    BY <1>0, <1>1, StartCallMeans DEF At
  <2> HIDE DEF c
  <2>3. ~HalfLoaded(a, c) /\ cache[c] \in Known
    BY <1>0, <2>1, KnownTypes DEF HalfLoaded, At
  <2>4. /\ floor[c].policy <= cache[c].policy /\ cache[c].policy <= policy
        /\ NotOlder(c, "tokens", cache[c].tokens) /\ NotOlder(c, "cost", cache[c].cost)
    BY <1>0, <2>1, <2>2, <2>3 DEF PastOf, CacheSound
  <2>5. /\ Allowed(floor[c].tokens + pending[c]["tokens"] + n, "tokens", floor[c].policy)
        /\ Allowed(floor[c].cost + pending[c]["cost"] + 1, "cost", floor[c].policy)
    BY <1>0, <2>1, <2>2, <2>3, <2>4, SolventThen, FrugalThen
  <2> QED
    BY <2>2, <2>5
<1>2. CASE LoadCost(a)
  <2> DEFINE c == Context(a)
             known == cache'[c]
             n == proc[a].amount
  <2>1. c \in {Own(a), Tools(a)} /\ n \in Nat /\ At(a, "load cost") /\ Loading(a)
    BY <1>0, <1>2, ContextKinds, AccountTypes DEF LoadCost, At, Loading
  <2>2. /\ Context(a)' = c /\ proc'[a].amount = n
        /\ known \in Known /\ known.policy = cache[c].policy /\ known.tokens = cache[c].tokens
        /\ known.cost = IF Limit(cache[c].policy, "cost") = NoLimit THEN 0 ELSE used["cost"]
        /\ Frugal(known, pending[c], n)
        /\ proc[a].why # "tokens" => Solvent(known, pending[c])
    BY <1>0, <1>2, LoadCostMeans DEF At
  <2>3. /\ floor[c].policy <= cache[c].policy /\ NotOlder(c, "tokens", cache[c].tokens)
        /\ proc[a].why = "tokens" => SpendAllowed(c)
    BY <1>0, <2>1 DEF CacheSound, HalfLoaded, SpendAllowed
  <2> HIDE DEF c, known, n
  <2>4. /\ NotOlder(c, "tokens", known.tokens) /\ floor[c].policy <= known.policy /\ known.policy <= policy
        /\ known.policy = cache[c].policy
    BY <1>0, <2>1, <2>2, <2>3 DEF NotOlder, PastOf
  <2>5. NotOlder(c, "cost", known.cost)
    <3>1. floor[c].cost <= used["cost"]
      BY <1>0, <2>1 DEF PastOf
    <3>2. Limit(cache[c].policy, "cost") # NoLimit => known.cost = used["cost"]
      BY <2>2
    <3> QED
      BY <3>1, <3>2 DEF NotOlder
  <2>6. Allowed(floor[c].tokens + pending[c]["tokens"] + n, "tokens", floor[c].policy)
    BY <1>0, <2>1, <2>2, <2>4, FrugalThen
  <2>7. SpendAllowed(c)
    BY <1>0, <2>1, <2>2, <2>3, <2>4, <2>5, SolventThen DEF SpendAllowed
  <2> QED
    BY <2>2, <2>6, <2>7 DEF SpendAllowed
<1> QED
  BY <1>1, <1>2, VerdictSteps

\* Whatever the runs of a user do at once, however policies are edited and
\* whatever fails, a call is refused only because it does not fit a budget that
\* was in force while it was checked, on the counters as they are.
THEOREM RejectionsAreReal == Spec => RejectionIsReal
<1>1. KnowsInv /\ [Next]_vars =>
        [\A a \in Agents : LET c == Context(a) IN
           ~At(a, "refused") /\ At(a, "refused")' =>
             \E t \in proc[a].since .. policy :
               \/ ~Fits(used["tokens"] + pending[c]["tokens"] + proc[a].amount, Limit(t, "tokens"))
               \/ ~Fits(used["cost"] + pending[c]["cost"] + 1, Limit(t, "cost"))]_vars
  BY RejectionStep
<1> QED
  BY <1>1, KnowsHold, PTL DEF Spec, RejectionIsReal

\* A call goes ahead only if it fits the budget as it was when the cache of its
\* context last expired: the spend cap is checked before a load for the tokens'
\* sake, and no load brings a count older than the expiry that caused it.
THEOREM AdmissionsAreTimely == Spec => AdmissionIsTimely
<1>1. KnowsInv /\ [Next]_vars =>
        [\A a \in Agents \ faulty : LET c == Context(a)' IN
           ~At(a, "asking") /\ At(a, "asking")' =>
             /\ Allowed(floor[c].tokens + pending[c]["tokens"] + proc'[a].amount, "tokens", floor[c].policy)
             /\ Allowed(floor[c].cost + pending[c]["cost"] + 1, "cost", floor[c].policy)]_vars
  BY AdmissionStep
<1> QED
  BY <1>1, KnowsHold, PTL DEF Spec, AdmissionIsTimely
=============================================================================
