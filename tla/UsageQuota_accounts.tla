-------------------------- MODULE UsageQuota_accounts --------------------------
(***************************************************************************)
(* Theorems about what a run is charged: its buffer, the amount it is       *)
(* writing and its committed events never come to more than what its calls  *)
(* and results have used, and no query runs before it has been counted.     *)
(***************************************************************************)
EXTENDS UsageQuota_proofs, FiniteSetTheorems, WellFoundedInduction

Own(a) == <<a, "agent">>
Tools(a) == <<a, "tool">>

Counts(p) == p.pc \in {"begin", "update", "insert", "commit"}

\* The amount of metric m a run p is writing.
Afloat(p, m) == IF Counts(p) /\ p.metric = m THEN p.amount ELSE 0

\* The account of a buffered metric m, of which e has been charged, n is in the
\* buffer and s was used, in a run p.  After a fault the buffer may hold what has
\* been charged already; the run is over then.
Covered(p, m, e, n, s) ==
  /\ e + Afloat(p, m) <= s
  /\ p.pc # "over" => e + Afloat(p, m) + n <= s

\* Nothing is missing from it.
Exact(p, m, e, n, s) == e + Afloat(p, m) + n = s

\* The cost is flushed after the tokens, and in the end nothing is left.
Ordered(p, tokens, cost) ==
  /\ p.pc = "over" => tokens = 0 /\ cost = 0
  /\ Counts(p) /\ p.metric = "tokens" => tokens = 0
  /\ (Counts(p) \/ p.pc = "flush") /\ p.metric = "cost" => tokens = 0
  /\ Counts(p) /\ p.metric = "cost" => cost = 0

\* Queries are charged before they run, one by one, and their bytes afterwards: q
\* and b have been charged, qs and bs used.
Prepaid(p, q, qs, b, bs) ==
  /\ b + Afloat(p, "bytes") <= bs
  /\ Counts(p) /\ p.metric = "queries" => p.amount = 1
  /\ Capped("queries") => qs <= q /\ (p.pc = "run" => qs + 1 <= q)

Balances(a, m) ==
  /\ Covered(proc[a], m, events[Own(a)][m], pending[Own(a)][m], spent[Own(a)][m])
  /\ a \notin faulty /\ Capped(m) =>
       Exact(proc[a], m, events[Own(a)][m], pending[Own(a)][m], spent[Own(a)][m])

\* The accounts of a run: the tools' context is charged for no call, the agent's
\* for no query.
Account(a) ==
  /\ \A m \in Buffered :
       Balances(a, m) /\ events[Tools(a)][m] = 0
  /\ a \notin faulty => Ordered(proc[a], pending[Own(a)]["tokens"], pending[Own(a)]["cost"])
  /\ Prepaid(proc[a], events[Tools(a)]["queries"], spent[Tools(a)]["queries"],
             events[Tools(a)]["bytes"], spent[Tools(a)]["bytes"])
  /\ \A m \in Enforced : events[Own(a)][m] = 0 /\ spent[Own(a)][m] = 0

Accounts == \A a \in Agents : Account(a)

-----------------------------------------------------------------------------
LEMMA ContextKinds ==
  ASSUME TypeOK, NEW a \in Agents
  PROVE  /\ Context(a) = IF proc[a].kind = "agent" THEN Own(a) ELSE Tools(a)
         /\ Own(a) \in Contexts /\ Tools(a) \in Contexts /\ Own(a) # Tools(a)
         /\ Context(a) \in Contexts
         /\ \A b \in Agents \ {a} : /\ Own(b) \notin {Own(a), Tools(a), Context(a)}
                                    /\ Tools(b) \notin {Own(a), Tools(a), Context(a)}
BY DEF TypeOK, Process, Context, Contexts, Own, Tools

\* What a fault leaves of a run that it does not take to the end of a transaction.
LEMMA ReadyEffect ==
  ASSUME TypeOK, NEW a \in Agents, Go(a, [proc[a] EXCEPT !.pc = "ready"])
  PROVE  Moves(a) /\ proc'[a].pc = "ready"
<1>1. [proc[a] EXCEPT !.pc = "ready"] \in Process /\ [proc[a] EXCEPT !.pc = "ready"].pc = "ready"
  BY DEF TypeOK, Process, Labels
<1>2. proc \in [Agents -> Process]
  BY DEF TypeOK
<1> QED
  BY <1>1, <1>2, GoType

LEMMA DieEffect ==
  ASSUME TypeOK, NEW a \in Agents, Die(a)
  PROVE  Moves(a) /\ proc'[a].pc = "over"
<1>1. Resting("over") \in Process /\ Resting("over").pc = "over"
  BY RestingType DEF Labels
<1>2. proc \in [Agents -> Process] /\ Go(a, Resting("over"))
  BY DEF TypeOK, Die
<1> QED
  BY <1>1, <1>2, GoType

\* A step that leaves the other runs' accounts alone.
Apart(a) ==
  /\ Moves(a)
  /\ \A b \in Agents \ {a} :
       /\ b \in faulty' <=> b \in faulty
       /\ \A c \in {Own(b), Tools(b)} :
            events'[c] = events[c] /\ pending'[c] = pending[c] /\ spent'[c] = spent[c]

LEMMA AccountApart ==
  ASSUME NEW a \in Agents, Apart(a), Accounts, Account(a)'
  PROVE  Accounts'
<1>1. ASSUME NEW b \in Agents \ {a}
      PROVE  Account(b)'
  <2>1. Account(b) /\ proc'[b] = proc[b]
    BY DEF Accounts, Apart, Moves
  <2>2. /\ b \in faulty' <=> b \in faulty
        /\ events'[Own(b)] = events[Own(b)] /\ events'[Tools(b)] = events[Tools(b)]
        /\ pending'[Own(b)] = pending[Own(b)]
        /\ spent'[Own(b)] = spent[Own(b)] /\ spent'[Tools(b)] = spent[Tools(b)]
    BY DEF Apart
  <2> QED
    BY <2>1, <2>2 DEF Account, Balances
<1> QED
  BY <1>1 DEF Accounts

\* The rows of a's accounts stay as they are.
Unmoved(a) ==
  \A c \in {Own(a), Tools(a)} :
    events'[c] = events[c] /\ pending'[c] = pending[c] /\ spent'[c] = spent[c]

LEMMA AccountTypes ==
  ASSUME TypeOK, NEW a \in Agents
  PROVE  /\ proc[a] \in Process /\ proc[a].amount \in Nat
         /\ \A c \in {Own(a), Tools(a)}, m \in Metrics : events[c][m] \in Nat /\ spent[c][m] \in Nat
         /\ \A m \in Buffered : pending[Own(a)][m] \in Nat /\ pending[Tools(a)][m] \in Nat
         /\ Buffered \subseteq Metrics /\ Enforced \subseteq Metrics
<1>1. Own(a) \in Contexts /\ Tools(a) \in Contexts
  BY ContextKinds
<1> QED
  BY <1>1, ContextsUsed DEF TypeOK, Process, Buffered, Enforced, Metrics

\* A run that comes to write, to flush or to run nothing but a new query.
LEMMA AccountRests ==
  ASSUME TypeOK, NEW a \in Agents, Account(a), Unmoved(a),
         a \in faulty => a \in faulty',
         proc[a].pc # "over", Counts(proc[a]) => proc[a].metric \notin Buffered,
         proc'[a].pc \notin {"over", "run", "flush"},
         Counts(proc'[a]) => proc'[a].metric = "queries" /\ proc'[a].amount = 1
  PROVE  Account(a)'
<1>1. /\ \A m \in Buffered : Afloat(proc[a], m) = 0 /\ Afloat(proc'[a], m) = 0
      /\ Afloat(proc'[a], "bytes") = 0 /\ Afloat(proc[a], "bytes") \in Nat
  BY AccountTypes DEF Afloat, Buffered
<1>2. ASSUME NEW m \in Buffered
      PROVE  /\ Balances(a, m)'
             /\ events'[Tools(a)][m] = 0
  <2>1. /\ Balances(a, m)
        /\ events[Tools(a)][m] = 0
    BY DEF Account
  <2> QED
    BY <1>1, <2>1 DEF Balances, Covered, Exact, Unmoved
<1>3. Ordered(proc'[a], pending'[Own(a)]["tokens"], pending'[Own(a)]["cost"])
  BY DEF Ordered, Buffered
<1>4. Prepaid(proc'[a], events'[Tools(a)]["queries"], spent'[Tools(a)]["queries"],
              events'[Tools(a)]["bytes"], spent'[Tools(a)]["bytes"])
  <2>1. Prepaid(proc[a], events[Tools(a)]["queries"], spent[Tools(a)]["queries"],
                events[Tools(a)]["bytes"], spent[Tools(a)]["bytes"])
    BY DEF Account
  <2>2. /\ events[Tools(a)]["queries"] \in Nat /\ spent[Tools(a)]["queries"] \in Nat
        /\ events[Tools(a)]["bytes"] \in Nat /\ spent[Tools(a)]["bytes"] \in Nat
    BY AccountTypes DEF Metrics
  <2> QED
    BY <1>1, <2>1, <2>2 DEF Prepaid, Unmoved
<1>5. \A m \in Enforced : events'[Own(a)][m] = 0 /\ spent'[Own(a)][m] = 0
  BY DEF Account, Unmoved
<1> QED
  BY <1>2, <1>3, <1>4, <1>5 DEF Account

LEMMA UnmovedApart ==
  ASSUME TypeOK, NEW a \in Agents, Moves(a), UNCHANGED <<events, pending, spent>>,
         \A b \in Agents \ {a} : b \in faulty' <=> b \in faulty
  PROVE  Apart(a) /\ Unmoved(a)
BY DEF Apart, Unmoved

\* A call adds k to the buffer.
LEMMA CallBalances ==
  ASSUME NEW p, NEW q, NEW m, NEW e \in Nat, NEW n \in Nat, NEW s \in Nat, NEW k \in Nat,
         Covered(p, m, e, n, s), p.pc # "over", q.pc # "over", Afloat(p, m) = 0, Afloat(q, m) = 0
  PROVE  Covered(q, m, e, n + k, s + k) /\ (Exact(p, m, e, n, s) => Exact(q, m, e, n + k, s + k))
BY DEF Covered, Exact

LEMMA AccountCall ==
  ASSUME TypeOK, NEW a \in Agents, Account(a), CallStep(a)
  PROVE  Apart(a) /\ Account(a)'
<1>1. /\ Moves(a) /\ UNCHANGED <<events, faulty>>
      /\ proc'[a].pc \in {"ready", "load", "load cost", "asking", "refused"}
  BY CallEffect
<1>2. proc[a].pc \in {"ready", "load", "load cost", "asking", "refused"}
  BY DEF CallStep, StartCall, Load, LoadCost, Answer, NoAnswer, At
<1>3. CASE UNCHANGED <<pending, spent>>
  BY <1>1, <1>2, <1>3, UnmovedApart, AccountRests DEF Counts
<1>4. CASE \E n \in Amounts, cost \in Costs : Answer(a, n, cost)
  <2>1. PICK n \in Amounts, cost \in Costs : Answer(a, n, cost)
    BY <1>4
  <2> DEFINE c == Context(a)
             New(m) == IF m = "tokens" THEN n ELSE cost
             q == [tokens |-> pending[c]["tokens"] + n, cost |-> pending[c]["cost"] + cost]
             s == [spent[c] EXCEPT !["tokens"] = @ + n, !["cost"] = @ + cost]
  <2>2. n \in Nat /\ cost \in Nat /\ c \in Contexts
    BY QuotaAssumption, ContextKinds
  <2>3. pending' = [pending EXCEPT ![c] = q] /\ spent' = [spent EXCEPT ![c] = s]
    BY <2>1, <2>2 DEF Answer, TypeOK
  <2>4. /\ \A m \in Buffered : q[m] = pending[c][m] + New(m) /\ s[m] = spent[c][m] + New(m)
        /\ \A m \in Enforced : s[m] = spent[c][m]
    BY <2>2, ContextsUsed DEF Buffered, Enforced, Metrics, TypeOK
  <2> HIDE DEF q, s
  <2>5. Apart(a)
    <3>1. \A x \in Contexts \ {c} : pending'[x] = pending[x] /\ spent'[x] = spent[x]
      BY <2>3 DEF TypeOK
    <3> HIDE DEF c
    <3>2. ASSUME NEW b \in Agents \ {a}
          PROVE  Own(b) \in Contexts \ {c} /\ Tools(b) \in Contexts \ {c}
      BY ContextKinds DEF c
    <3> QED
      BY <1>1, <3>1, <3>2 DEF Apart
  <2>6. CASE proc[a].kind # "agent"
    <3>1. /\ c = Tools(a) /\ pending'[Own(a)] = pending[Own(a)] /\ spent'[Own(a)] = spent[Own(a)]
          /\ spent'[Tools(a)] = s
      BY <2>3, <2>6, ContextKinds, ContextsUsed DEF TypeOK
    <3>2. spent'[Tools(a)]["queries"] = spent[Tools(a)]["queries"] /\ spent'[Tools(a)]["bytes"] = spent[Tools(a)]["bytes"]
      BY <2>4, <3>1 DEF Enforced
    <3> QED
      BY <1>1, <1>2, <2>5, <3>1, <3>2 DEF Account, Balances, Covered, Exact, Ordered, Prepaid, Afloat, Counts
  <2>7. CASE proc[a].kind = "agent"
    <3>1. /\ c = Own(a) /\ spent'[Tools(a)] = spent[Tools(a)]
          /\ pending'[Own(a)] = q /\ spent'[Own(a)] = s
      BY <2>3, <2>7, ContextKinds, ContextsUsed DEF TypeOK
    <3>2. ASSUME NEW m \in Buffered
          PROVE  Balances(a, m)'
      <4>1. Balances(a, m)
        BY DEF Account
      <4>2. /\ events[Own(a)][m] \in Nat /\ pending[Own(a)][m] \in Nat /\ spent[Own(a)][m] \in Nat
            /\ New(m) \in Nat
        BY <2>2, AccountTypes
      <4>3. pending'[Own(a)][m] = pending[Own(a)][m] + New(m) /\ spent'[Own(a)][m] = spent[Own(a)][m] + New(m)
        BY <2>4, <3>1
      <4>4. Afloat(proc[a], m) = 0 /\ Afloat(proc'[a], m) = 0
        BY <1>1, <1>2 DEF Afloat, Counts
      <4>5. events'[Own(a)] = events[Own(a)] /\ (a \in faulty' <=> a \in faulty)
        BY <1>1
      <4> HIDE DEF New
      <4> DEFINE e == events[Own(a)][m]
                 b == pending[Own(a)][m]
                 u == spent[Own(a)][m]
      <4>6. Covered(proc[a], m, e, b, u) /\ (a \notin faulty /\ Capped(m) => Exact(proc[a], m, e, b, u))
        BY <4>1 DEF Balances
      <4>7. e \in Nat /\ b \in Nat /\ u \in Nat /\ New(m) \in Nat
        BY <4>2
      <4>8. proc[a].pc # "over" /\ proc'[a].pc # "over"
        BY <1>1, <1>2
      <4> HIDE DEF e, b, u
      <4>9. /\ Covered(proc'[a], m, e, b + New(m), u + New(m))
            /\ a \notin faulty /\ Capped(m) => Exact(proc'[a], m, e, b + New(m), u + New(m))
        BY <4>4, <4>6, <4>7, <4>8, CallBalances
      <4>10. events'[Own(a)][m] = e /\ pending'[Own(a)][m] = b + New(m) /\ spent'[Own(a)][m] = u + New(m)
        BY <4>3, <4>5 DEF e, b, u
      <4> QED
        BY <4>5, <4>9, <4>10 DEF Balances
    <3>3. \A m \in Enforced : spent'[Own(a)][m] = 0
      BY <2>4, <3>1 DEF Account
    <3> QED
      BY <1>1, <1>2, <2>5, <3>1, <3>2, <3>3 DEF Account, Ordered, Prepaid, Afloat, Counts
  <2> QED
    BY <2>6, <2>7
<1> QED
  BY <1>3, <1>4 DEF CallStep, StartCall, Load, LoadCost, NoAnswer, buffers, history

\* A transaction that goes on.
LEMMA AccountWrites ==
  ASSUME TypeOK, NEW a \in Agents, Account(a), Unmoved(a), a \in faulty => a \in faulty',
         Counts(proc[a]), Counts(proc'[a]),
         proc'[a].metric = proc[a].metric, proc'[a].amount = proc[a].amount
  PROVE  Account(a)'
<1>1. \A m : Afloat(proc'[a], m) = Afloat(proc[a], m)
  BY DEF Afloat
<1>2. proc[a].pc \notin {"over", "run", "flush"} /\ proc'[a].pc \notin {"over", "run", "flush"}
  BY DEF Counts
<1>3. \A m \in Buffered : Balances(a, m)' /\ events'[Tools(a)][m] = 0
  BY <1>1, <1>2 DEF Account, Balances, Covered, Exact, Unmoved
<1>4. a \notin faulty' => Ordered(proc'[a], pending'[Own(a)]["tokens"], pending'[Own(a)]["cost"])
  BY <1>2 DEF Account, Ordered, Unmoved
<1>5. Prepaid(proc'[a], events'[Tools(a)]["queries"], spent'[Tools(a)]["queries"],
              events'[Tools(a)]["bytes"], spent'[Tools(a)]["bytes"])
  BY <1>1, <1>2 DEF Account, Prepaid, Unmoved
<1> QED
  BY <1>3, <1>4, <1>5 DEF Account, Unmoved

\* A transaction that ends well, with its amount charged or its metric without a limit.
LEMMA AccountSucceeds ==
  ASSUME TypeOK, KindsAgree, NEW a \in Agents, Account(a), Counts(proc[a]), Succeed(a),
         UNCHANGED <<spent, faulty>>,
         \/ UNCHANGED events /\ ~Capped(proc[a].metric)
         \/ \A c \in Contexts, m \in Metrics :
              events'[c][m] = IF c = Context(a) /\ m = proc[a].metric
                              THEN events[c][m] + proc[a].amount ELSE events[c][m]
  PROVE  Account(a)'
<1> DEFINE p == proc[a]
           pp == proc'[a]
<1>1. /\ p \in Process /\ p.metric \in Metrics /\ p.amount \in Nat
      /\ p.metric \in Buffered <=> p.kind = "agent"
      /\ Own(a) \in Contexts /\ Tools(a) \in Contexts /\ Own(a) # Tools(a)
      /\ Context(a) = IF p.metric \in Buffered THEN Own(a) ELSE Tools(a)
      /\ Metrics = Buffered \cup Enforced /\ Buffered \cap Enforced = {}
  BY ContextKinds DEF TypeOK, KindsAgree, Process, Counts, InTransaction, InAgent, Metrics, Buffered, Enforced
<1>2. /\ p.metric = "tokens" => pp.pc = "flush" /\ pp.metric = "cost"
      /\ p.metric = "cost" => pp.pc = "over"
      /\ p.metric = "queries" => pp.pc = "run"
      /\ p.metric = "bytes" => pp.pc = "ready"
      /\ pending' = pending
  <2>1. /\ p.metric = "tokens" => Succeeded(a).pc = "flush" /\ Succeeded(a).metric = "cost"
        /\ p.metric = "cost" => Succeeded(a).pc = "over"
        /\ p.metric = "queries" => Succeeded(a).pc = "run"
        /\ p.metric = "bytes" => Succeeded(a).pc = "ready"
    BY <1>1 DEF Succeeded, Process, Metrics
  <2>2. /\ pp.pc = Succeeded(a).pc /\ pending' = pending
        /\ Succeeded(a).pc \notin {"ready", "over"} => pp = Succeeded(a)
    BY SucceedEffect
  <2> QED
    BY <2>1, <2>2
<1>3. \A m : Afloat(pp, m) = 0
  BY <1>1, <1>2 DEF Afloat, Counts, Metrics
<1>4. p.pc \notin {"over", "run", "flush"} /\ ~Counts(pp)
  BY <1>1, <1>2 DEF Counts, Metrics
<1> HIDE DEF pp
<1>5. \A m \in Metrics : /\ m # p.metric => Afloat(p, m) = 0
                         /\ m = p.metric => Afloat(p, m) = p.amount
  BY DEF Afloat
<1> DEFINE Charged(c, m) ==
             \/ events'[c][m] = events[c][m] + Afloat(p, m)
             \/ /\ events'[c][m] = events[c][m]
                /\ ~Capped(m) \/ Afloat(p, m) = 0
<1>6. /\ \A m \in Buffered : events'[Tools(a)][m] = events[Tools(a)][m]
      /\ \A m \in Enforced : events'[Own(a)][m] = events[Own(a)][m]
      /\ \A m \in Buffered : Charged(Own(a), m)
      /\ \A m \in Enforced : Charged(Tools(a), m)
  <2>1. CASE UNCHANGED events /\ ~Capped(p.metric)
    BY <1>1, <1>5, <2>1
  <2>2. CASE \A c \in Contexts, m \in Metrics :
               events'[c][m] = IF c = Context(a) /\ m = p.metric
                               THEN events[c][m] + p.amount ELSE events[c][m]
    <3>1. ASSUME NEW m \in Buffered
          PROVE  events'[Tools(a)][m] = events[Tools(a)][m] /\ Charged(Own(a), m)
      BY <1>1, <1>5, <2>2
    <3>2. ASSUME NEW m \in Enforced
          PROVE  events'[Own(a)][m] = events[Own(a)][m] /\ Charged(Tools(a), m)
      BY <1>1, <1>5, <2>2
    <3> HIDE DEF Charged
    <3> QED
      BY <3>1, <3>2
  <2> QED
    BY <2>1, <2>2
<1> HIDE DEF p
<1>7. ASSUME NEW m \in Buffered
      PROVE  Balances(a, m)'
  <2> DEFINE e == events[Own(a)][m]
             b == pending[Own(a)][m]
             u == spent[Own(a)][m]
  <2>1. /\ Covered(p, m, e, b, u)
        /\ a \notin faulty /\ Capped(m) => Exact(p, m, e, b, u)
    BY DEF Account, Balances, p
  <2>2. /\ e \in Nat /\ b \in Nat /\ u \in Nat /\ Afloat(p, m) \in Nat
    BY <1>1, <1>5, AccountTypes
  <2>3. /\ pending'[Own(a)][m] = b /\ spent'[Own(a)][m] = u
        /\ \/ events'[Own(a)][m] = e + Afloat(p, m)
           \/ events'[Own(a)][m] = e /\ (~Capped(m) \/ Afloat(p, m) = 0)
    BY <1>2, <1>6
  <2> HIDE DEF e, b, u
  <2>4. /\ Covered(pp, m, events'[Own(a)][m], b, u)
        /\ a \notin faulty /\ Capped(m) => Exact(pp, m, events'[Own(a)][m], b, u)
    BY <1>3, <1>4, <2>1, <2>2, <2>3 DEF Covered, Exact
  <2> QED
    BY <2>3, <2>4 DEF Balances, pp
<1>8. a \notin faulty => Ordered(pp, pending'[Own(a)]["tokens"], pending'[Own(a)]["cost"])
  <2>1. a \notin faulty => Ordered(p, pending[Own(a)]["tokens"], pending[Own(a)]["cost"]) /\ Counts(p)
    BY DEF Account, p
  <2> QED
    BY <1>1, <1>2, <1>4, <2>1 DEF Ordered, Metrics
<1>9. Prepaid(pp, events'[Tools(a)]["queries"], spent'[Tools(a)]["queries"],
              events'[Tools(a)]["bytes"], spent'[Tools(a)]["bytes"])
  <2> DEFINE q == events[Tools(a)]["queries"]
             qs == spent[Tools(a)]["queries"]
             e == events[Tools(a)]["bytes"]
             u == spent[Tools(a)]["bytes"]
  <2>1. Prepaid(p, q, qs, e, u) /\ Counts(p)
    BY DEF Account, p
  <2>2. /\ q \in Nat /\ qs \in Nat /\ e \in Nat /\ u \in Nat
        /\ Afloat(p, "bytes") \in Nat /\ Afloat(p, "queries") \in Nat
    BY <1>1, <1>5, AccountTypes DEF Metrics
  <2>3. pp.pc = "run" => p.metric = "queries" /\ (Capped("queries") => events'[Tools(a)]["queries"] = q + 1)
    <3>1. pp.pc = "run" => p.metric = "queries"
      BY <1>1, <1>2 DEF Metrics
    <3>2. p.metric = "queries" => p.amount = 1 /\ Afloat(p, "queries") = 1
      BY <1>5, <2>1 DEF Prepaid, Metrics
    <3> QED
      BY <1>6, <3>1, <3>2 DEF Enforced
  <2>4. /\ events'[Tools(a)]["queries"] \in {q, q + Afloat(p, "queries")}
        /\ events'[Tools(a)]["bytes"] \in {e, e + Afloat(p, "bytes")}
        /\ spent' = spent
    BY <1>6 DEF Enforced
  <2> HIDE DEF q, qs, e, u
  <2>5. Prepaid(pp, events'[Tools(a)]["queries"], qs, events'[Tools(a)]["bytes"], u)
    BY <1>3, <1>4, <2>1, <2>2, <2>3, <2>4 DEF Prepaid
  <2> QED
    BY <2>4, <2>5 DEF qs, u
<1> QED
  BY <1>6, <1>7, <1>8, <1>9 DEF Account, pp

\* A query that runs.
LEMMA AccountRuns ==
  ASSUME TypeOK, KindsAgree, NEW a \in Agents, Account(a), NEW n \in Amounts \cup {0}, Run(a, n)
  PROVE  Apart(a) /\ Account(a)'
<1> DEFINE p == proc[a]
           pp == proc'[a]
           c == Context(a)
           s == [spent[c] EXCEPT !["queries"] = @ + 1, !["bytes"] = @ + n]
<1>1. /\ n \in Nat /\ c \in Contexts /\ Own(a) \in Contexts /\ Tools(a) \in Contexts
      /\ Own(a) # Tools(a) /\ c = Tools(a) /\ p.pc = "run" /\ p \in Process
  <2>1. p.pc = "run" /\ p.kind # "agent"
    BY DEF Run, KindsAgree, InAgent, At
  <2>2. n \in Nat
    BY QuotaAssumption
  <2> QED
    BY <2>1, <2>2, ContextKinds, AccountTypes
<1>2. /\ Moves(a) /\ (n = 0 => pp.pc = "ready")
      /\ n # 0 => pp.pc = "begin" /\ pp.metric = "bytes" /\ pp.amount = n
      /\ UNCHANGED <<events, pending, faulty>>
  <2>1. /\ Moves(a) /\ (n = 0 => pp.pc = "ready") /\ (n # 0 => pp = Counting(p, "bytes", n))
    BY RunEffect
  <2>2. LET k == Counting(p, "bytes", n) IN k.pc = "begin" /\ k.metric = "bytes" /\ k.amount = n
    BY <1>1 DEF Counting, Process
  <2>3. UNCHANGED <<events, pending, faulty>>
    BY DEF Run, counters, buffers
  <2> QED
    BY <2>1, <2>2, <2>3
<1>3. /\ spent' = [spent EXCEPT ![c] = s]
      /\ s["queries"] = spent[c]["queries"] + 1 /\ s["bytes"] = spent[c]["bytes"] + n
  BY <1>1, ContextsUsed DEF Run, TypeOK, Metrics
<1> HIDE DEF s, pp
<1>4. spent'[Tools(a)] = s /\ \A x \in Contexts \ {Tools(a)} : spent'[x] = spent[x]
  BY <1>1, <1>3, ContextsUsed DEF TypeOK
<1>5. Apart(a)
  <2>1. ASSUME NEW b \in Agents \ {a}
        PROVE  Own(b) \in Contexts \ {Tools(a)} /\ Tools(b) \in Contexts \ {Tools(a)}
    BY ContextKinds
  <2> QED
    BY <1>2, <1>4, <2>1 DEF Apart
<1>6. /\ \A m \in Buffered : Afloat(p, m) = 0 /\ Afloat(pp, m) = 0
      /\ Afloat(p, "bytes") = 0 /\ Afloat(pp, "bytes") = n
      /\ p.pc \notin {"over", "flush"} /\ pp.pc \notin {"over", "run", "flush"}
      /\ Counts(pp) => pp.metric = "bytes"
  BY <1>1, <1>2 DEF Afloat, Counts, Buffered
<1>7. ASSUME NEW m \in Buffered
      PROVE  Balances(a, m)' /\ events'[Tools(a)][m] = 0
  <2>1. /\ Balances(a, m) /\ events[Tools(a)][m] = 0
    BY DEF Account
  <2> QED
    BY <1>1, <1>2, <1>4, <1>6, <2>1 DEF Balances, Covered, Exact, pp
<1>8. Ordered(pp, pending'[Own(a)]["tokens"], pending'[Own(a)]["cost"])
  BY <1>6 DEF Ordered
<1>9. Prepaid(pp, events'[Tools(a)]["queries"], s["queries"], events'[Tools(a)]["bytes"], s["bytes"])
  <2> DEFINE q == events[Tools(a)]["queries"]
             qs == spent[Tools(a)]["queries"]
             e == events[Tools(a)]["bytes"]
             u == spent[Tools(a)]["bytes"]
  <2>1. Prepaid(p, q, qs, e, u)
    BY DEF Account
  <2>2. /\ q \in Nat /\ qs \in Nat /\ e \in Nat /\ u \in Nat
    BY AccountTypes DEF Metrics
  <2>3. s["queries"] = qs + 1 /\ s["bytes"] = u + n /\ events' = events
    BY <1>1, <1>2, <1>3
  <2> HIDE DEF q, qs, e, u, p
  <2>4. Prepaid(pp, q, qs + 1, e, u + n)
    BY <1>1, <1>6, <2>1, <2>2 DEF Prepaid
  <2> QED
    BY <2>3, <2>4 DEF q, e
<1>10. \A m \in Enforced : events'[Own(a)][m] = 0 /\ spent'[Own(a)][m] = 0
  BY <1>1, <1>2, <1>4 DEF Account
<1> QED
  BY <1>4, <1>5, <1>7, <1>8, <1>9, <1>10 DEF Account, pp

\* The run is over, or its buffer is emptied.
LEMMA AccountFlushes ==
  ASSUME TypeOK, KindsAgree, NEW a \in Agents, Account(a), EndRun(a) \/ Flush(a)
  PROVE  Apart(a) /\ Account(a)'
<1> DEFINE p == proc[a]
           pp == proc'[a]
<1>1. /\ Own(a) \in Contexts /\ Tools(a) \in Contexts /\ Own(a) # Tools(a)
      /\ UNCHANGED <<events, spent, faulty>>
      /\ p.pc \in {"ready", "flush"} /\ p \in Process
  BY ContextKinds DEF EndRun, Flush, counters, history, At, TypeOK
<1>2. CASE EndRun(a)
  <2>1. /\ Moves(a) /\ UNCHANGED pending /\ pp.pc = "flush" /\ pp.metric = "tokens" /\ p.pc = "ready"
    BY <1>1, <1>2, EndRunEffect DEF Process, EndRun, buffers, At
  <2>2. Apart(a) /\ Unmoved(a)
    BY <1>1, <2>1, UnmovedApart
  <2>3. \A m : Afloat(pp, m) = 0 /\ Afloat(p, m) = 0
    BY <2>1 DEF Afloat, Counts
  <2>4. \A m \in Buffered : Balances(a, m)' /\ events'[Tools(a)][m] = 0
    BY <1>1, <2>1, <2>3 DEF Account, Balances, Covered, Exact
  <2>5. Ordered(pp, pending'[Own(a)]["tokens"], pending'[Own(a)]["cost"])
    BY <2>1 DEF Ordered, Counts
  <2> QED
    BY <1>1, <2>1, <2>2, <2>3, <2>4, <2>5 DEF Account, Prepaid, Counts
<1>3. CASE Flush(a)
  <2> DEFINE m == p.metric
             n == pending[Own(a)][m]
  <2>1. /\ Moves(a) /\ m \in Buffered /\ Context(a) = Own(a) /\ n \in Nat
        /\ n > 0 => /\ pp = Counting(p, m, n)
                    /\ pending' = [pending EXCEPT ![Own(a)][m] = 0]
        /\ n = 0 => /\ pending' = pending
                    /\ (m = "tokens" => pp = [p EXCEPT !.pc = "flush", !.metric = "cost"])
                    /\ (m = "cost" => pp.pc = "over")
    BY <1>3, FlushEffect DEF Own
  <2>2. /\ p.pc = "flush"
        /\ n > 0 => pp.pc = "begin" /\ pp.metric = m /\ pp.amount = n
        /\ n = 0 /\ m = "tokens" => pp.pc = "flush" /\ pp.metric = "cost"
        /\ n = 0 /\ m = "cost" => pp.pc = "over"
    BY <1>1, <1>3, <2>1 DEF Flush, At, Counting, Process
  <2>3. /\ \A x \in Contexts \ {Own(a)} : pending'[x] = pending[x]
        /\ \A k \in Buffered : pending'[Own(a)][k] = IF k = m THEN 0 ELSE pending[Own(a)][k]
    BY <1>1, <2>1 DEF TypeOK
  <2>4. Apart(a)
    <3>1. ASSUME NEW b \in Agents \ {a}
          PROVE  Own(b) \in Contexts \ {Own(a)} /\ Tools(b) \in Contexts \ {Own(a)}
      BY ContextKinds
    <3> QED
      BY <1>1, <2>1, <2>3, <3>1 DEF Apart
  <2> HIDE DEF pp, p
  <2>5. ASSUME NEW k \in Buffered
        PROVE  Balances(a, k)' /\ events'[Tools(a)][k] = 0
    <3> DEFINE e == events[Own(a)][k]
               b == pending[Own(a)][k]
               u == spent[Own(a)][k]
    <3>1. /\ Covered(p, k, e, b, u) /\ events[Tools(a)][k] = 0
          /\ a \notin faulty /\ Capped(k) => Exact(p, k, e, b, u)
      BY DEF Account, Balances, p
    <3>2. e \in Nat /\ b \in Nat /\ u \in Nat
      BY AccountTypes
    <3>3. /\ Afloat(p, k) = 0 /\ (k = m => b = n)
          /\ Afloat(pp, k) = IF k = m THEN b ELSE 0
          /\ pending'[Own(a)][k] = IF k = m THEN 0 ELSE b
          /\ k # m /\ pp.pc = "over" => p.pc # "over"
          /\ p.pc # "over"
      BY <2>1, <2>2, <2>3 DEF Afloat, Counts, Buffered
    <3>4. /\ events'[Own(a)][k] = e /\ spent'[Own(a)][k] = u
      BY <1>1
    <3> HIDE DEF e, b, u, m, n
    <3>5. /\ Covered(pp, k, e, pending'[Own(a)][k], u)
          /\ a \notin faulty /\ Capped(k) => Exact(pp, k, e, pending'[Own(a)][k], u)
      BY <3>1, <3>2, <3>3 DEF Covered, Exact
    <3> QED
      BY <1>1, <3>1, <3>4, <3>5 DEF Balances, pp
  <2>6. a \notin faulty => Ordered(pp, pending'[Own(a)]["tokens"], pending'[Own(a)]["cost"])
    <3>1. a \notin faulty => Ordered(p, pending[Own(a)]["tokens"], pending[Own(a)]["cost"])
      BY DEF Account, p
    <3>2. m \in {"tokens", "cost"} /\ (n = 0 \/ n > 0)
      BY <2>1 DEF Buffered
    <3>3. /\ pending'[Own(a)]["tokens"] = IF m = "tokens" THEN 0 ELSE pending[Own(a)]["tokens"]
          /\ pending'[Own(a)]["cost"] = IF m = "cost" THEN 0 ELSE pending[Own(a)]["cost"]
      BY <2>3 DEF Buffered
    <3> QED
      BY <2>2, <3>1, <3>2, <3>3 DEF Ordered, Counts
  <2>7. Prepaid(pp, events'[Tools(a)]["queries"], spent'[Tools(a)]["queries"],
                events'[Tools(a)]["bytes"], spent'[Tools(a)]["bytes"])
    <3>1. Prepaid(p, events[Tools(a)]["queries"], spent[Tools(a)]["queries"],
                  events[Tools(a)]["bytes"], spent[Tools(a)]["bytes"])
      BY DEF Account, p
    <3>2. /\ pp.pc # "run" /\ Afloat(pp, "bytes") = 0 /\ Afloat(p, "bytes") = 0
          /\ Counts(pp) => pp.metric # "queries"
      BY <2>1, <2>2 DEF Afloat, Counts, Buffered
    <3> QED
      BY <1>1, <3>1, <3>2 DEF Prepaid
  <2> QED
    BY <1>1, <2>4, <2>5, <2>6, <2>7 DEF Account, pp
<1> QED
  BY <1>2, <1>3

\* What a step changes belongs to the context it works for.
LEMMA ContextApart ==
  ASSUME TypeOK, NEW a \in Agents, Moves(a), UNCHANGED spent,
         faulty' = faulty \/ faulty' = faulty \cup {a},
         \A c \in Contexts : c[1] # a => events'[c] = events[c] /\ pending'[c] = pending[c]
  PROVE  Apart(a)
<1>1. ASSUME NEW b \in Agents \ {a}
      PROVE  Own(b) \in Contexts /\ Tools(b) \in Contexts /\ Own(b)[1] # a /\ Tools(b)[1] # a
  BY DEF Own, Tools, Contexts
<1> QED
  BY <1>1 DEF Apart

\* A transaction that fails, with its amount charged or not: a flush only by a fault.
LEMMA AccountFails ==
  ASSUME TypeOK, KindsAgree, NEW a \in Agents, Account(a), Counts(proc[a]), Fail(a), UNCHANGED spent,
         a \in faulty => a \in faulty',
         a \in faulty' \/ proc[a].metric \notin Buffered,
         \/ UNCHANGED events
         \/ \A c \in Contexts, m \in Metrics :
              events'[c][m] = IF c = Context(a) /\ m = proc[a].metric
                              THEN events[c][m] + proc[a].amount ELSE events[c][m]
  PROVE  Account(a)'
<1> DEFINE p == proc[a]
           pp == proc'[a]
           Charged(c, m) == \/ events'[c][m] = events[c][m] + Afloat(p, m)
                            \/ events'[c][m] = events[c][m]
<1>1. /\ p \in Process /\ p.metric \in Metrics /\ p.amount \in Nat
      /\ p.metric \in Buffered <=> p.kind = "agent"
      /\ Own(a) \in Contexts /\ Tools(a) \in Contexts /\ Own(a) # Tools(a)
      /\ Context(a) = IF p.metric \in Buffered THEN Own(a) ELSE Tools(a)
      /\ Metrics = Buffered \cup Enforced /\ Buffered \cap Enforced = {}
  BY ContextKinds DEF TypeOK, KindsAgree, Process, Counts, InTransaction, InAgent, Metrics, Buffered, Enforced
<1>2. /\ pp.pc = IF p.metric \in Buffered THEN "over" ELSE "ready"
      /\ p.metric \notin Buffered => pending' = pending
  BY FailEffect
<1>3. /\ \A m : Afloat(pp, m) = 0
      /\ p.pc \notin {"over", "run", "flush"} /\ ~Counts(pp) /\ pp.pc \notin {"run", "flush"}
  BY <1>2 DEF Afloat, Counts
<1> HIDE DEF pp
<1>4. \A m \in Metrics : /\ m # p.metric => Afloat(p, m) = 0
                         /\ m = p.metric => Afloat(p, m) = p.amount
  BY DEF Afloat
<1>5. /\ \A m \in Buffered : events'[Tools(a)][m] = events[Tools(a)][m] /\ Charged(Own(a), m)
      /\ \A m \in Enforced : events'[Own(a)][m] = events[Own(a)][m] /\ Charged(Tools(a), m)
  <2>1. CASE UNCHANGED events
    BY <2>1
  <2>2. CASE \A c \in Contexts, m \in Metrics :
               events'[c][m] = IF c = Context(a) /\ m = p.metric
                               THEN events[c][m] + p.amount ELSE events[c][m]
    <3>1. ASSUME NEW m \in Buffered
          PROVE  events'[Tools(a)][m] = events[Tools(a)][m] /\ Charged(Own(a), m)
      BY <1>1, <1>4, <2>2
    <3>2. ASSUME NEW m \in Enforced
          PROVE  events'[Own(a)][m] = events[Own(a)][m] /\ Charged(Tools(a), m)
      BY <1>1, <1>4, <2>2
    <3> HIDE DEF Charged
    <3> QED
      BY <3>1, <3>2
  <2> QED
    BY <2>1, <2>2
<1> HIDE DEF p
<1>6. ASSUME NEW m \in Buffered
      PROVE  Balances(a, m)'
  <2> DEFINE e == events[Own(a)][m]
             b == pending[Own(a)][m]
             u == spent[Own(a)][m]
  <2>1. /\ Covered(p, m, e, b, u)
        /\ a \notin faulty /\ Capped(m) => Exact(p, m, e, b, u)
    BY DEF Account, Balances, p
  <2>2. /\ e \in Nat /\ b \in Nat /\ u \in Nat /\ Afloat(p, m) \in Nat
    BY <1>1, <1>4, AccountTypes
  <2>3. /\ spent'[Own(a)][m] = u
        /\ events'[Own(a)][m] = e + Afloat(p, m) \/ events'[Own(a)][m] = e
        /\ p.metric \notin Buffered => Afloat(p, m) = 0 /\ pending'[Own(a)][m] = b
    BY <1>1, <1>2, <1>4, <1>5
  <2> HIDE DEF e, b, u
  <2>4. CASE p.metric \in Buffered
    <3>1. Covered(pp, m, events'[Own(a)][m], pending'[Own(a)][m], u)
      BY <1>2, <1>3, <2>1, <2>2, <2>3, <2>4 DEF Covered
    <3>2. a \in faulty'
      BY <2>4 DEF p
    <3> QED
      BY <2>3, <3>1, <3>2 DEF Balances, pp
  <2>5. CASE p.metric \notin Buffered
    <3>1. /\ Covered(pp, m, e, b, u)
          /\ a \notin faulty /\ Capped(m) => Exact(pp, m, e, b, u)
      BY <1>2, <1>3, <2>1, <2>2, <2>3, <2>5 DEF Covered, Exact
    <3>2. events'[Own(a)][m] = e /\ pending'[Own(a)][m] = b
      BY <2>2, <2>3, <2>5
    <3> QED
      BY <2>3, <3>1, <3>2 DEF Balances, pp
  <2> QED
    BY <2>4, <2>5
<1>7. a \notin faulty' => Ordered(pp, pending'[Own(a)]["tokens"], pending'[Own(a)]["cost"])
  BY <1>2, <1>3 DEF Ordered, p
<1>8. Prepaid(pp, events'[Tools(a)]["queries"], spent'[Tools(a)]["queries"],
              events'[Tools(a)]["bytes"], spent'[Tools(a)]["bytes"])
  <2> DEFINE q == events[Tools(a)]["queries"]
             qs == spent[Tools(a)]["queries"]
             e == events[Tools(a)]["bytes"]
             u == spent[Tools(a)]["bytes"]
  <2>1. Prepaid(p, q, qs, e, u)
    BY DEF Account, p
  <2>2. /\ q \in Nat /\ qs \in Nat /\ e \in Nat /\ u \in Nat
        /\ Afloat(p, "bytes") \in Nat /\ Afloat(p, "queries") \in Nat
    BY <1>1, <1>4, AccountTypes DEF Metrics
  <2>3. /\ events'[Tools(a)]["queries"] \in {q, q + Afloat(p, "queries")}
        /\ events'[Tools(a)]["bytes"] \in {e, e + Afloat(p, "bytes")}
        /\ spent' = spent
    BY <1>5 DEF Enforced
  <2> HIDE DEF q, qs, e, u
  <2>4. Prepaid(pp, events'[Tools(a)]["queries"], qs, events'[Tools(a)]["bytes"], u)
    BY <1>3, <2>1, <2>2, <2>3 DEF Prepaid
  <2> QED
    BY <2>3, <2>4 DEF qs, u
<1>9. \A m \in Enforced : events'[Own(a)][m] = 0 /\ spent'[Own(a)][m] = 0
  BY <1>5 DEF Account
<1> QED
  BY <1>5, <1>6, <1>7, <1>8, <1>9 DEF Account, pp

LEMMA AccountDies ==
  ASSUME TypeOK, NEW a \in Agents, Account(a), Die(a)
  PROVE  Apart(a) /\ Account(a)'
<1>1. Moves(a) /\ proc'[a].pc = "over" /\ a \in faulty' /\ faulty' = faulty \cup {a} /\ UNCHANGED <<events, spent>>
  BY DieEffect DEF Die, Happens
<1>2. Apart(a)
  <2>1. \A c \in Contexts : c[1] # a => pending'[c] = pending[c]
    BY DEF Die
  <2> QED
    BY <1>1, <2>1, ContextApart
<1>3. \A m : Afloat(proc'[a], m) = 0
  BY <1>1 DEF Afloat, Counts
<1>4. \A m \in Metrics : Afloat(proc[a], m) \in Nat
  BY AccountTypes DEF Afloat
<1>5. ASSUME NEW m \in Buffered
      PROVE  Balances(a, m)' /\ events'[Tools(a)][m] = 0
  <2>1. /\ events[Own(a)][m] + Afloat(proc[a], m) <= spent[Own(a)][m]
        /\ events[Tools(a)][m] = 0
    BY DEF Account, Balances, Covered
  <2>2. events[Own(a)][m] \in Nat /\ spent[Own(a)][m] \in Nat /\ Afloat(proc[a], m) \in Nat
    BY <1>4, AccountTypes
  <2>3. events[Own(a)][m] + 0 <= spent[Own(a)][m]
    BY <2>1, <2>2
  <2> QED
    BY <1>1, <1>3, <2>1, <2>3 DEF Balances, Covered
<1>6. Prepaid(proc'[a], events'[Tools(a)]["queries"], spent'[Tools(a)]["queries"],
              events'[Tools(a)]["bytes"], spent'[Tools(a)]["bytes"])
  <2> DEFINE e == events[Tools(a)]["bytes"]
             u == spent[Tools(a)]["bytes"]
  <2>1. Prepaid(proc[a], events[Tools(a)]["queries"], spent[Tools(a)]["queries"], e, u)
    BY DEF Account
  <2>2. e \in Nat /\ u \in Nat /\ Afloat(proc[a], "bytes") \in Nat
    BY <1>4, AccountTypes DEF Metrics
  <2>3. e + 0 <= u
    <3> HIDE DEF e, u
    <3> QED
      BY <2>1, <2>2 DEF Prepaid
  <2> QED
    BY <1>1, <1>3, <2>1, <2>3 DEF Prepaid, Counts
<1> QED
  BY <1>1, <1>2, <1>5, <1>6 DEF Account

LEMMA AccountCount ==
  ASSUME TypeOK, KindsAgree, NEW a \in Agents, Account(a), CountStep(a)
  PROVE  Apart(a) /\ Account(a)'
<1>0. proc[a] \in Process
  BY AccountTypes
<1>1. CASE StartQuery(a)
  <2>1. /\ Moves(a) /\ proc[a].pc = "ready" /\ UNCHANGED <<events, pending, spent, faulty>>
        /\ proc'[a].pc = "begin" /\ proc'[a].metric = "queries" /\ proc'[a].amount = 1
    BY <1>0, <1>1, StartQueryEffect DEF Counting, Process, StartQuery, At, counters, buffers, history
  <2> QED
    BY <2>1, UnmovedApart, AccountRests DEF Counts
<1>2. CASE Begin(a)
  <2>1. Counts(proc[a]) /\ UNCHANGED <<events, spent, faulty>>
    BY <1>2 DEF Begin, At, Counts, counters, history
  <2>2. CASE Limit(policy, proc[a].metric) = NoLimit
    <3>1. Succeed(a) /\ ~Capped(proc[a].metric)
      BY <1>2, <2>2 DEF Begin, Capped, TypeOK
    <3> QED
      BY <2>1, <3>1, SucceedEffect, UnmovedApart, AccountSucceeds
  <2>3. CASE Limit(policy, proc[a].metric) # NoLimit
    <3>1. Moves(a) /\ proc'[a] = [proc[a] EXCEPT !.pc = "update", !.since = policy] /\ UNCHANGED pending
      BY <1>2, <2>3, BeginEffect DEF buffers
    <3>2. Counts(proc'[a]) /\ proc'[a].metric = proc[a].metric /\ proc'[a].amount = proc[a].amount
      BY <1>0, <3>1 DEF Counts, Process
    <3> QED
      BY <2>1, <3>1, <3>2, UnmovedApart, AccountWrites
  <2> QED
    BY <2>2, <2>3
<1>3. CASE Update(a) \/ Insert(a)
  <2>1. Counts(proc[a]) /\ UNCHANGED <<events, pending, spent, faulty>>
    BY <1>3 DEF Update, Insert, At, Counts, buffers, history
  <2>2. /\ Moves(a)
        /\ \E l \in {"update", "insert"}, n \in {used[proc[a].metric] + proc[a].amount, proc[a].amount} :
             \/ proc'[a] = [proc[a] EXCEPT !.pc = l]
             \/ proc'[a] = [proc[a] EXCEPT !.pc = "commit", !.value = n]
    BY <1>3, UpdateEffect, InsertEffect
  <2>3. Counts(proc'[a]) /\ proc'[a].metric = proc[a].metric /\ proc'[a].amount = proc[a].amount
    BY <1>0, <2>2 DEF Counts, Process
  <2> QED
    BY <2>1, <2>2, <2>3, UnmovedApart, AccountWrites
<1>4. CASE Refuse(a)
  <2>1. /\ Fail(a) /\ Counts(proc[a]) /\ proc[a].metric \notin Buffered
        /\ UNCHANGED <<events, spent, faulty>>
    BY <1>4 DEF Refuse, Within, Counts, At, history
  <2>2. Moves(a) /\ UNCHANGED pending
    BY <2>1, FailEffect
  <2> QED
    BY <2>1, <2>2, UnmovedApart, AccountFails
<1>5. CASE CommitWell(a)
  <2>1. Commit(a) /\ Succeed(a) /\ Counts(proc[a]) /\ UNCHANGED <<spent, faulty>>
    BY <1>5 DEF CommitWell, Commit, At, Counts, history
  <2>2. \A c \in Contexts, m \in Metrics :
          events'[c][m] = IF c = Context(a) /\ m = proc[a].metric
                          THEN events[c][m] + proc[a].amount ELSE events[c][m]
    BY <2>1, CommitEffect
  <2>3. Apart(a)
    <3>1. \A c \in Contexts : c[1] # a => events'[c] = events[c]
      BY <2>1, ContextType DEF Commit, TypeOK
    <3> QED
      BY <2>1, <3>1, SucceedEffect, ContextApart
  <2> QED
    BY <2>1, <2>2, <2>3, AccountSucceeds
<1>6. CASE \E n \in Amounts \cup {0} : Run(a, n)
  BY <1>6, AccountRuns
<1>7. CASE EndRun(a) \/ Flush(a)
  BY <1>7, AccountFlushes
<1> QED
  BY <1>1, <1>2, <1>3, <1>4, <1>5, <1>6, <1>7 DEF CountStep

LEMMA AccountFault ==
  ASSUME TypeOK, KindsAgree, NEW a \in Agents, Account(a), DbError(a) \/ AckLost(a)
  PROVE  Apart(a) /\ Account(a)'
<1>1. /\ UNCHANGED spent /\ faulty' = faulty \cup {a}
      /\ a \in faulty'
  BY DEF DbError, AckLost, Happens
<1>2. Fail(a) => Moves(a) /\ \A c \in Contexts : c[1] # a => pending'[c] = pending[c]
  <2>1. Context(a) \in Contexts /\ Context(a)[1] = a
    BY ContextType DEF TypeOK
  <2> QED
    BY <2>1, FailEffect DEF Fail, TypeOK
<1>3. CASE DbError(a) /\ InTransaction(a) /\ Fail(a)
  <2>1. Counts(proc[a]) /\ UNCHANGED events
    BY <1>3 DEF DbError, InTransaction, Counts
  <2> QED
    BY <1>1, <1>2, <1>3, <2>1, ContextApart, AccountFails
<1>4. CASE /\ DbError(a) /\ proc[a].pc \in {"load", "load cost"}
           /\ Go(a, [proc[a] EXCEPT !.pc = "ready"]) /\ UNCHANGED buffers
  <2>1. Moves(a) /\ proc'[a].pc = "ready" /\ UNCHANGED <<events, pending, spent>>
    BY <1>1, <1>4, ReadyEffect DEF DbError, buffers
  <2> QED
    BY <1>1, <1>4, <2>1, UnmovedApart, AccountRests DEF Counts
<1>5. CASE AckLost(a)
  <2>1. Commit(a) /\ Fail(a) /\ Counts(proc[a])
    BY <1>5 DEF AckLost, Commit, At, Counts
  <2>2. \A c \in Contexts, m \in Metrics :
          events'[c][m] = IF c = Context(a) /\ m = proc[a].metric
                          THEN events[c][m] + proc[a].amount ELSE events[c][m]
    BY <2>1, CommitEffect
  <2>3. \A c \in Contexts : c[1] # a => events'[c] = events[c]
    BY <2>1, ContextType DEF Commit, TypeOK
  <2> QED
    BY <1>1, <1>2, <2>1, <2>2, <2>3, ContextApart, AccountFails
<1> QED
  BY <1>3, <1>4, <1>5 DEF DbError

LEMMA AccountsStep ==
  ASSUME TypeOK, KindsAgree, Accounts, [Next]_vars
  PROVE  Accounts'
<1>1. CASE \E a \in Agents : CallStep(a) \/ CountStep(a) \/ DbError(a) \/ AckLost(a) \/ Die(a)
  <2>1. PICK a \in Agents : CallStep(a) \/ CountStep(a) \/ DbError(a) \/ AckLost(a) \/ Die(a)
    BY <1>1
  <2>2. Apart(a) /\ Account(a)'
    BY <2>1, AccountCall, AccountCount, AccountFault, AccountDies DEF Accounts
  <2> QED
    BY <2>2, AccountApart
<1>2. CASE UNCHANGED <<events, pending, proc, faulty>> /\ \A c \in Contexts : spent'[c] = spent[c]
  BY <1>2, ContextKinds DEF Accounts, Account, Balances
<1>3. CASE \E a \in Agents, n \in Amounts, cost \in Costs : CallWithout(a, n, cost)
  BY <1>2, <1>3, TypeWithout DEF CallWithout, counters, buffers
<1> QED
  BY <1>1, <1>2, <1>3 DEF Next, EditPolicy, Expire, vars, counters, buffers, history

LEMMA AccountsInit == Init => Accounts
<1> SUFFICES ASSUME Init, NEW a \in Agents PROVE Account(a)
  BY DEF Accounts
<1>1. /\ Own(a) \in Contexts /\ Tools(a) \in Contexts
      /\ Buffered \subseteq Metrics /\ Enforced \subseteq Metrics
      /\ {"queries", "bytes"} \subseteq Metrics
  BY DEF Own, Tools, Contexts, Buffered, Enforced, Metrics
<1>2. proc[a].pc = "ready"
  BY RestingType DEF Init, Labels
<1>3. \A m : Afloat(proc[a], m) = 0
  BY <1>2 DEF Afloat, Counts
<1>4. /\ \A m \in Buffered : Balances(a, m) /\ events[Tools(a)][m] = 0
  BY <1>1, <1>2, <1>3, ContextsUsed DEF Init, Balances, Covered, Exact
<1> QED
  BY <1>1, <1>2, <1>3, <1>4, ContextsUsed DEF Init, Account, Ordered, Prepaid, Counts

LEMMA AccountsHold == Spec => [](TypeOK /\ KindsAgree /\ Accounts)
<1>1. Init => TypeOK /\ KindsAgree /\ Accounts
  BY InitType, AccountsInit
<1>2. TypeOK /\ KindsAgree /\ Accounts /\ [Next]_vars => (TypeOK /\ KindsAgree /\ Accounts)'
  BY TypeStep, KindsStep, AccountsStep
<1> QED
  BY <1>1, <1>2, PTL DEF Spec
-----------------------------------------------------------------------------
\* Whatever the runs of a user do at once and whatever fails, no run is charged
\* for more than its calls and results have used: what a failed flush gives back
\* after its commit took effect is never flushed again.
THEOREM NobodyIsOvercharged == Spec => []NeverOvercharged
<1>1. TypeOK /\ Accounts => NeverOvercharged
  <2> SUFFICES ASSUME TypeOK, Accounts, NEW c \in Contexts, NEW m \in Metrics \ {"queries"}
               PROVE  events[c][m] <= spent[c][m]
    BY DEF NeverOvercharged
  <2>1. PICK a \in Agents : c = Own(a) \/ c = Tools(a)
    BY DEF Contexts, Own, Tools
  <2>2. Account(a) /\ events[c][m] \in Nat /\ spent[c][m] \in Nat
    BY <2>1, ContextsUsed DEF Accounts, TypeOK
  <2>3. CASE m \in Buffered
    <3>1. /\ events[Own(a)][m] \in Nat /\ spent[Own(a)][m] \in Nat /\ Afloat(proc[a], m) \in Nat
          /\ events[Own(a)][m] + Afloat(proc[a], m) <= spent[Own(a)][m] /\ events[Tools(a)][m] = 0
      BY <2>2, <2>3, AccountTypes DEF Account, Balances, Covered, Afloat
    <3>2. events[Own(a)][m] <= spent[Own(a)][m]
      BY <3>1
    <3> QED
      BY <2>1, <2>2, <3>1, <3>2
  <2>4. CASE m = "bytes"
    <3>1. /\ events[Own(a)][m] = 0
          /\ events[Tools(a)][m] + Afloat(proc[a], m) <= spent[Tools(a)][m]
          /\ Afloat(proc[a], m) \in Nat
      BY <2>2, <2>4, AccountTypes DEF Account, Prepaid, Afloat, Enforced
    <3>2. events[Tools(a)][m] \in Nat /\ spent[Tools(a)][m] \in Nat
      BY AccountTypes
    <3>3. events[Tools(a)][m] <= spent[Tools(a)][m]
      BY <3>1, <3>2
    <3> QED
      BY <2>1, <2>2, <3>1, <3>3
  <2> QED
    BY <2>3, <2>4 DEF Metrics, Buffered
<1> QED
  BY <1>1, AccountsHold, PTL

\* No query reaches the data source before it has been counted, as long as every
\* policy limits queries.
THEOREM QueriesAreCounted == Spec => []NoFreeQuery
<1>1. TypeOK /\ Accounts => NoFreeQuery
  <2> SUFFICES ASSUME TypeOK, Accounts, Capped("queries"), NEW c \in Contexts
               PROVE  spent[c]["queries"] <= events[c]["queries"]
    BY DEF NoFreeQuery
  <2>1. PICK a \in Agents : c = Own(a) \/ c = Tools(a)
    BY DEF Contexts, Own, Tools
  <2> QED
    BY <2>1 DEF Accounts, Account, Prepaid, Enforced
<1> QED
  BY <1>1, AccountsHold, PTL

\* When the flush of a run that has met no fault has ended, the run is charged
\* exactly what the calls made with its agent's context have used, whatever its
\* tools' calls and the calls made without a context have used besides.
THEOREM RunsAreCharged == Spec => []RunIsCharged
<1>1. TypeOK /\ Accounts => RunIsCharged
  <2> SUFFICES ASSUME TypeOK, Accounts, NEW a \in Agents \ faulty, NEW m \in Buffered,
                      At(a, "over"), Capped(m)
               PROVE  events[Own(a)][m] + events[Tools(a)][m] = spent[Own(a)][m]
    BY DEF RunIsCharged, Own, Tools
  <2>1. /\ Exact(proc[a], m, events[Own(a)][m], pending[Own(a)][m], spent[Own(a)][m])
        /\ Ordered(proc[a], pending[Own(a)]["tokens"], pending[Own(a)]["cost"])
        /\ events[Tools(a)][m] = 0
    BY DEF Accounts, Account, Balances
  <2>2. pending[Own(a)][m] = 0 /\ Afloat(proc[a], m) = 0
    BY <2>1 DEF Ordered, Afloat, Counts, At, Buffered
  <2>3. events[Own(a)][m] \in Nat /\ spent[Own(a)][m] \in Nat
    BY AccountTypes
  <2>4. events[Own(a)][m] + 0 + 0 = spent[Own(a)][m]
    BY <2>1, <2>2 DEF Exact
  <2> QED
    BY <2>1, <2>3, <2>4
<1> QED
  BY <1>1, AccountsHold, PTL
-----------------------------------------------------------------------------
(* Sums over a finite set                                                    *)
(*                                                                           *)
(* MapThenSumSet is a recursive function on the subsets of the set, in an    *)
(* order nobody knows.  That it exists, and that the order does not matter,  *)
(* is shown by induction over the subsets, in the form that every nonempty   *)
(* set of them has a smallest one.                                           *)

Pick(s) == CHOOSE x \in s : TRUE

\* g is the fold of MapThenSumSet over the subsets of S.
IsTotal(g, h, m, S) ==
  g = [s \in SUBSET S |-> IF s = {} THEN 0 ELSE h[Pick(s)][m] + g[s \ {Pick(s)}]]

Totals(h, m, S) == CHOOSE g : IsTotal(g, h, m, S)
Total(h, m, S) == Totals(h, m, S)[S]

LEMMA TotalUnfolds ==
  ASSUME NEW h, NEW m, NEW S
  PROVE  MapThenSumSet(LAMBDA c : h[c][m], S) = Total(h, m, S)
BY DEF MapThenSumSet, MapThenFoldSet, Total, Totals, IsTotal, Pick

LEMMA PickIn == ASSUME NEW s, s # {} PROVE Pick(s) \in s
BY DEF Pick

\* Induction over the subsets of a finite set, as the choice of a smallest one.
LEMMA Smallest ==
  ASSUME NEW S, IsFiniteSet(S), NEW T, T \subseteq SUBSET S, T # {}
  PROVE  \E s \in T : \A u \in T : u \subseteq s => u = s
<1>1. T \subseteq FiniteSubsetsOf(S)
  BY FS_Subset DEF FiniteSubsetsOf
<1>2. PICK s \in T : \A u \in T : <<u, s>> \notin StrictSubsetOrdering(S)
  BY <1>1, FS_StrictSubsetOrderingWellFounded, WFMin
<1>3. ASSUME NEW u \in T, u \subseteq s PROVE u = s
  BY <1>2, <1>3 DEF StrictSubsetOrdering
<1> QED
  BY <1>3

LEMMA TotalUnique ==
  ASSUME NEW h, NEW m, NEW S, IsFiniteSet(S), NEW s \in SUBSET S, NEW g, NEW k,
         IsTotal(g, h, m, S), IsTotal(k, h, m, s)
  PROVE  \A u \in SUBSET s : k[u] = g[u]
<1> DEFINE T == {u \in SUBSET s : k[u] # g[u]}
<1> SUFFICES ASSUME T # {} PROVE FALSE
  OBVIOUS
<1>1. T \subseteq SUBSET S
  OBVIOUS
<1>2. PICK t \in T : \A u \in T : u \subseteq t => u = t
  <2> HIDE DEF T
  <2> QED
    BY <1>1, Smallest
<1>3. /\ t \in SUBSET s /\ t \in SUBSET S /\ k[t] # g[t]
  OBVIOUS
<1>4. /\ k[t] = IF t = {} THEN 0 ELSE h[Pick(t)][m] + k[t \ {Pick(t)}]
      /\ g[t] = IF t = {} THEN 0 ELSE h[Pick(t)][m] + g[t \ {Pick(t)}]
  BY <1>3 DEF IsTotal
<1>5. t # {} /\ Pick(t) \in t
  BY <1>3, <1>4, PickIn
<1>6. k[t \ {Pick(t)}] = g[t \ {Pick(t)}]
  <2>1. t \ {Pick(t)} \in SUBSET s /\ t \ {Pick(t)} \subseteq t /\ t \ {Pick(t)} # t
    BY <1>3, <1>5
  <2> QED
    BY <1>2, <2>1
<1> QED
  BY <1>3, <1>4, <1>6

LEMMA TotalExists ==
  ASSUME NEW h, NEW m, NEW S, IsFiniteSet(S)
  PROVE  IsTotal(Totals(h, m, S), h, m, S)
<1> DEFINE T == {s \in SUBSET S : ~IsTotal(Totals(h, m, s), h, m, s)}
<1> SUFFICES ASSUME T # {} PROVE FALSE
  OBVIOUS
<1>1. PICK s \in T : \A u \in T : u \subseteq s => u = s
  <2>1. T \subseteq SUBSET S
    OBVIOUS
  <2> HIDE DEF T
  <2> QED
    BY <2>1, Smallest
<1>2. ASSUME NEW u \in SUBSET s, u # s PROVE IsTotal(Totals(h, m, u), h, m, u) /\ IsFiniteSet(u)
  BY <1>1, <1>2, FS_Subset
<1> DEFINE v(u) == u \ {Pick(u)}
           G == [u \in SUBSET s |-> IF u = {} THEN 0 ELSE h[Pick(u)][m] + Totals(h, m, v(u))[v(u)]]
<1>3. ASSUME NEW u \in SUBSET s, u # {} PROVE v(u) \in SUBSET s /\ v(u) \in SUBSET u /\ v(u) # s /\ v(u) # u
  BY <1>3, PickIn
<1>4. ASSUME NEW w \in SUBSET s, w # s PROVE G[w] = Totals(h, m, w)[w]
  <2>1. IsTotal(Totals(h, m, w), h, m, w) /\ IsFiniteSet(w)
    BY <1>2, <1>4
  <2>2. Totals(h, m, w)[w] = IF w = {} THEN 0 ELSE h[Pick(w)][m] + Totals(h, m, w)[v(w)]
    BY <2>1 DEF IsTotal
  <2>3. CASE w = {}
    BY <2>2, <2>3
  <2>4. CASE w # {}
    <3>1. v(w) \in SUBSET w /\ v(w) # s /\ v(w) \in SUBSET s
      BY <1>3, <2>4
    <3>2. IsTotal(Totals(h, m, v(w)), h, m, v(w))
      BY <1>2, <3>1
    <3>3. Totals(h, m, v(w))[v(w)] = Totals(h, m, w)[v(w)]
      BY <2>1, <3>1, <3>2, TotalUnique
    <3> QED
      BY <2>2, <2>4, <3>3
  <2> QED
    BY <2>3, <2>4
<1>5. IsTotal(G, h, m, s)
  <2>1. ASSUME NEW u \in SUBSET s, u # {} PROVE G[v(u)] = Totals(h, m, v(u))[v(u)]
    BY <1>3, <1>4, <2>1
  <2>2. \A u \in SUBSET s : G[u] = IF u = {} THEN 0 ELSE h[Pick(u)][m] + G[v(u)]
    BY <2>1
  <2>3. G = [u \in SUBSET s |-> G[u]]
    OBVIOUS
  <2> HIDE DEF G
  <2> QED
    BY <2>2, <2>3 DEF IsTotal
<1>6. IsTotal(Totals(h, m, s), h, m, s)
  BY <1>5 DEF Totals
<1> QED
  BY <1>1, <1>6

\* Taking out the element the fold takes first.
LEMMA TotalPicks ==
  ASSUME NEW h, NEW m, NEW S, IsFiniteSet(S)
  PROVE  Total(h, m, S) = IF S = {} THEN 0 ELSE h[Pick(S)][m] + Total(h, m, S \ {Pick(S)})
<1> DEFINE v == S \ {Pick(S)}
<1>1. IsTotal(Totals(h, m, S), h, m, S)
  BY TotalExists
<1>2. Total(h, m, S) = IF S = {} THEN 0 ELSE h[Pick(S)][m] + Totals(h, m, S)[v]
  BY <1>1 DEF IsTotal, Total
<1>3. v \in SUBSET S /\ IsFiniteSet(v)
  BY FS_Subset
<1>4. IsTotal(Totals(h, m, v), h, m, v)
  BY <1>3, TotalExists
<1> HIDE DEF v
<1>5. Totals(h, m, v)[v] = Totals(h, m, S)[v]
  BY <1>1, <1>3, <1>4, TotalUnique
<1> QED
  BY <1>2, <1>5 DEF Total, v

LEMMA TotalNat ==
  ASSUME NEW h, NEW m, NEW S, IsFiniteSet(S), \A c \in S : h[c][m] \in Nat
  PROVE  Total(h, m, S) \in Nat
<1> DEFINE T == {s \in SUBSET S : Total(h, m, s) \notin Nat}
<1> SUFFICES ASSUME T # {} PROVE FALSE
  OBVIOUS
<1>1. PICK s \in T : \A u \in T : u \subseteq s => u = s
  <2>1. T \subseteq SUBSET S
    OBVIOUS
  <2> HIDE DEF T
  <2> QED
    BY <2>1, Smallest
<1>2. s \in SUBSET S /\ Total(h, m, s) \notin Nat /\ IsFiniteSet(s)
  BY <1>1, FS_Subset
<1>3. Total(h, m, s) = IF s = {} THEN 0 ELSE h[Pick(s)][m] + Total(h, m, s \ {Pick(s)})
  BY <1>2, TotalPicks
<1>4. s # {} /\ Pick(s) \in s
  BY <1>2, <1>3, PickIn
<1>5. Total(h, m, s \ {Pick(s)}) \in Nat
  <2>1. s \ {Pick(s)} \in SUBSET S /\ s \ {Pick(s)} \subseteq s /\ s \ {Pick(s)} # s
    BY <1>2, <1>4
  <2> QED
    BY <1>1, <2>1
<1> QED
  BY <1>2, <1>3, <1>4, <1>5

\* Any element may be taken out first.
LEMMA TotalSplits ==
  ASSUME NEW h, NEW m, NEW S, IsFiniteSet(S), \A c \in S : h[c][m] \in Nat
  PROVE  \A c \in S : Total(h, m, S) = h[c][m] + Total(h, m, S \ {c})
<1> DEFINE T == {s \in SUBSET S : \E c \in s : Total(h, m, s) # h[c][m] + Total(h, m, s \ {c})}
<1> SUFFICES ASSUME T # {} PROVE FALSE
  OBVIOUS
<1>1. PICK s \in T : \A u \in T : u \subseteq s => u = s
  <2>1. T \subseteq SUBSET S
    OBVIOUS
  <2> HIDE DEF T
  <2> QED
    BY <2>1, Smallest
<1>2. PICK c \in s : Total(h, m, s) # h[c][m] + Total(h, m, s \ {c})
  BY <1>1
<1>3. /\ s \in SUBSET S /\ IsFiniteSet(s) /\ s # {}
  BY <1>1, <1>2, FS_Subset
<1>4. PICK p \in s : p = Pick(s)
  BY <1>3, PickIn
<1>5. Total(h, m, s) = h[p][m] + Total(h, m, s \ {p})
  BY <1>3, <1>4, TotalPicks
<1>6. p # c
  BY <1>2, <1>5
<1>7. Total(h, m, s \ {p}) = h[c][m] + Total(h, m, (s \ {p}) \ {c})
  <2>1. s \ {p} \in SUBSET S /\ s \ {p} \subseteq s /\ s \ {p} # s /\ c \in s \ {p}
    BY <1>3, <1>6
  <2>2. s \ {p} \notin T
    BY <1>1, <2>1
  <2> QED
    BY <2>1, <2>2
<1>8. Total(h, m, s \ {c}) = h[p][m] + Total(h, m, (s \ {c}) \ {p})
  <2>1. s \ {c} \in SUBSET S /\ s \ {c} \subseteq s /\ s \ {c} # s /\ p \in s \ {c}
    BY <1>3, <1>6
  <2>2. s \ {c} \notin T
    BY <1>1, <2>1
  <2> QED
    BY <2>1, <2>2
<1>9. (s \ {c}) \ {p} = (s \ {p}) \ {c}
  OBVIOUS
<1>10. Total(h, m, (s \ {p}) \ {c}) \in Nat /\ h[c][m] \in Nat /\ h[p][m] \in Nat
  <2>1. (s \ {p}) \ {c} \in SUBSET S
    BY <1>3
  <2>2. IsFiniteSet((s \ {p}) \ {c})
    BY <2>1, FS_Subset
  <2> QED
    BY <1>3, <2>1, <2>2, TotalNat
<1>11. PICK x \in Nat, y \in Nat, r \in Nat :
         x = h[c][m] /\ y = h[p][m] /\ r = Total(h, m, (s \ {p}) \ {c})
  BY <1>10
<1>12. Total(h, m, s) = y + (x + r)
  BY <1>5, <1>7, <1>11
<1>13. h[c][m] + Total(h, m, s \ {c}) = x + (y + r)
  BY <1>8, <1>9, <1>11
<1>14. y + (x + r) = x + (y + r)
  OBVIOUS
<1> HIDE DEF T
<1> QED
  BY <1>2, <1>12, <1>13, <1>14

\* A sum depends on its terms only.
LEMMA TotalSame ==
  ASSUME NEW h, NEW k, NEW m, NEW S, IsFiniteSet(S), \A c \in S : h[c][m] = k[c][m]
  PROVE  Total(h, m, S) = Total(k, m, S)
<1>1. IsTotal(Totals(h, m, S), h, m, S) /\ IsTotal(Totals(k, m, S), k, m, S)
  BY TotalExists
<1>2. PICK g : g = Totals(k, m, S)
  OBVIOUS
<1>3. ASSUME NEW s \in SUBSET S
      PROVE  (IF s = {} THEN 0 ELSE h[Pick(s)][m] + g[s \ {Pick(s)}])
             = (IF s = {} THEN 0 ELSE k[Pick(s)][m] + g[s \ {Pick(s)}])
  BY <1>3, PickIn
<1>4. IsTotal(g, h, m, S)
  BY <1>1, <1>2, <1>3 DEF IsTotal
<1> QED
  BY <1>1, <1>2, <1>4, TotalUnique DEF Total

\* One term grows by n, and the sum with it.
LEMMA TotalGrows ==
  ASSUME NEW h, NEW k, NEW m, NEW S, IsFiniteSet(S), \A c \in S : h[c][m] \in Nat,
         NEW c \in S, NEW n \in Nat, k[c][m] = h[c][m] + n,
         \A d \in S \ {c} : k[d][m] = h[d][m]
  PROVE  Total(k, m, S) = Total(h, m, S) + n
<1> DEFINE R == S \ {c}
<1>1. \A d \in S : k[d][m] \in Nat
  <2> SUFFICES ASSUME NEW d \in S PROVE k[d][m] \in Nat
    OBVIOUS
  <2>1. CASE d = c
    <3>1. h[c][m] \in Nat
      OBVIOUS
    <3> QED
      BY <2>1, <3>1
  <2>2. CASE d # c
    <3>1. d \in S \ {c}
      BY <2>2
    <3>2. k[d][m] = h[d][m]
      BY <3>1
    <3> QED
      BY <3>2
  <2> QED
    BY <2>1, <2>2
<1>2. R \in SUBSET S /\ IsFiniteSet(R)
  BY FS_Subset
<1>3. Total(h, m, S) = h[c][m] + Total(h, m, R)
  BY TotalSplits
<1>4. Total(k, m, S) = k[c][m] + Total(k, m, R)
  BY <1>1, TotalSplits
<1>5. Total(k, m, R) = Total(h, m, R)
  BY <1>2, TotalSame
<1>6. Total(h, m, R) \in Nat /\ h[c][m] \in Nat
  BY <1>2, TotalNat
<1> HIDE DEF R
<1> QED
  BY <1>3, <1>4, <1>5, <1>6

LEMMA TotalZero ==
  ASSUME NEW h, NEW m, NEW S, IsFiniteSet(S), \A c \in S : h[c][m] = 0
  PROVE  Total(h, m, S) = 0
<1> DEFINE T == {s \in SUBSET S : Total(h, m, s) # 0}
<1> SUFFICES ASSUME T # {} PROVE FALSE
  <2>1. S \in SUBSET S
    OBVIOUS
  <2> QED
    BY <2>1
<1>1. PICK s \in T : \A u \in T : u \subseteq s => u = s
  <2>1. T \subseteq SUBSET S
    OBVIOUS
  <2> HIDE DEF T
  <2> QED
    BY <2>1, Smallest
<1>2. s \in SUBSET S /\ Total(h, m, s) # 0 /\ IsFiniteSet(s)
  BY <1>1, FS_Subset
<1>3. Total(h, m, s) = IF s = {} THEN 0 ELSE h[Pick(s)][m] + Total(h, m, s \ {Pick(s)})
  BY <1>2, TotalPicks
<1>4. s # {} /\ Pick(s) \in s
  BY <1>2, <1>3, PickIn
<1>5. Total(h, m, s \ {Pick(s)}) = 0
  <2>1. s \ {Pick(s)} \in SUBSET S /\ s \ {Pick(s)} \subseteq s /\ s \ {Pick(s)} # s
    BY <1>2, <1>4
  <2> QED
    BY <1>1, <2>1
<1> QED
  BY <1>2, <1>3, <1>4, <1>5
-----------------------------------------------------------------------------
(* The counters and the events that explain them                             *)

\* The row of a counter is locked from the write to the commit, so that what the
\* transaction writes is still the counter and its amount when it commits.
Locked(a) ==
  LET m == proc[a].metric IN
  At(a, "commit") => holder[m] = a /\ proc[a].value = used[m] + proc[a].amount

RowsLocked == \A a \in Agents : Locked(a)

\* A step that leaves a run, its counter and the lock on it alone.
LEMMA LockedRests ==
  ASSUME NEW a \in Agents, Locked(a), proc'[a] = proc[a],
         At(a, "commit") => /\ holder'[proc[a].metric] = holder[proc[a].metric]
                            /\ used'[proc[a].metric] = used[proc[a].metric]
  PROVE  Locked(a)'
BY DEF Locked, At

\* What a run that is not committing does to the counters: nothing, or it takes the
\* lock on a row that nobody holds.
LEMMA LocksStep ==
  ASSUME TypeOK, KindsAgree, RowsLocked, [Next]_vars
  PROVE  RowsLocked'
<1>1. /\ proc \in [Agents -> Process] /\ used \in [Metrics -> Nat]
      /\ holder \in [Metrics -> Agents \cup {"none"}] /\ "none" \notin Agents
  BY QuotaAssumption DEF TypeOK
<1>2. \A a \in Agents : proc[a] \in Process /\ proc[a].metric \in Metrics /\ Locked(a)
  BY <1>1 DEF Process, RowsLocked
<1>3. CASE UNCHANGED <<proc, counters>>
  BY <1>3 DEF RowsLocked, Locked, At, counters
<1>4. ASSUME NEW a \in Agents, Moves(a), proc'[a].pc # "commit", UNCHANGED used,
             \A m \in Metrics : holder'[m] = holder[m] \/ holder[m] = a
      PROVE  RowsLocked'
  <2> SUFFICES ASSUME NEW b \in Agents PROVE Locked(b)'
    BY DEF RowsLocked
  <2>1. CASE b = a
    BY <1>4, <2>1 DEF Locked, At
  <2>2. CASE b # a
    <3>1. At(b, "commit") => holder[proc[b].metric] = b
      BY <1>2 DEF Locked
    <3> QED
      BY <1>2, <1>4, <2>2, <3>1, LockedRests DEF Moves
  <2> QED
    BY <2>1, <2>2
<1>5. ASSUME NEW a \in Agents, Moves(a), At(a, "commit"), proc'[a].pc # "commit",
             \A m \in Metrics : m # proc[a].metric => holder'[m] = holder[m] /\ used'[m] = used[m]
      PROVE  RowsLocked'
  <2> SUFFICES ASSUME NEW b \in Agents PROVE Locked(b)'
    BY DEF RowsLocked
  <2>1. CASE b = a
    BY <1>5, <2>1 DEF Locked, At
  <2>2. CASE b # a
    <3>1. At(b, "commit") => holder[proc[b].metric] = b /\ holder[proc[a].metric] = a
      BY <1>2, <1>5 DEF Locked
    <3>2. At(b, "commit") => proc[b].metric # proc[a].metric
      BY <2>2, <3>1
    <3> QED
      BY <1>2, <1>5, <2>2, <3>2, LockedRests DEF Moves
  <2> QED
    BY <2>1, <2>2
<1>6. ASSUME NEW a \in Agents, Moves(a), UNCHANGED used, holder[proc[a].metric] = "none",
             holder' = [holder EXCEPT ![proc[a].metric] = a],
             NEW n \in Nat, n = used[proc[a].metric] + proc[a].amount,
             proc'[a] = [proc[a] EXCEPT !.pc = "commit", !.value = n]
      PROVE  RowsLocked'
  <2> SUFFICES ASSUME NEW b \in Agents PROVE Locked(b)'
    BY DEF RowsLocked
  <2>1. /\ proc'[a].metric = proc[a].metric /\ proc'[a].amount = proc[a].amount
        /\ proc'[a].value = n
    BY <1>2, <1>6 DEF Process
  <2>2. CASE b = a
    BY <1>1, <1>2, <1>6, <2>1, <2>2 DEF Locked
  <2>3. CASE b # a
    <3>1. At(b, "commit") => holder[proc[b].metric] = b
      BY <1>2 DEF Locked
    <3>2. At(b, "commit") => proc[b].metric # proc[a].metric
      BY <1>1, <1>6, <3>1
    <3> QED
      BY <1>1, <1>2, <1>6, <2>3, <3>2, LockedRests DEF Moves
  <2> QED
    BY <2>2, <2>3
<1>7. ASSUME NEW a \in Agents, CallStep(a) \/ CountStep(a) \/ DbError(a) \/ AckLost(a) \/ Die(a)
      PROVE  RowsLocked'
  <2>1. proc[a] \in Process /\ proc[a].metric \in Metrics /\ Locked(a)
    BY <1>2
  <2>2. CASE CallStep(a)
    BY <1>4, <2>2, CallEffect
  <2>3. CASE StartQuery(a)
    <3>1. Moves(a) /\ proc'[a].pc # "commit" /\ UNCHANGED counters
      BY <2>1, <2>3, StartQueryEffect DEF StartQuery, Counting, Process
    <3> QED
      BY <1>4, <3>1 DEF counters
  <2>4. CASE Begin(a)
    <3>1. UNCHANGED counters
      BY <2>4 DEF Begin
    <3>2. CASE Limit(policy, proc[a].metric) # NoLimit
      <4>1. Moves(a) /\ proc'[a].pc # "commit"
        BY <2>1, <2>4, <3>2, BeginEffect DEF Process
      <4> QED
        BY <1>4, <3>1, <4>1 DEF counters
    <3>3. CASE Limit(policy, proc[a].metric) = NoLimit
      <4>1. Succeed(a)
        BY <2>4, <3>3 DEF Begin
      <4>2. Succeeded(a).pc # "commit"
        BY <2>1 DEF Succeeded, Process, Metrics
      <4>3. Moves(a) /\ proc'[a].pc # "commit"
        BY <4>1, <4>2, SucceedEffect
      <4> QED
        BY <1>4, <3>1, <4>3 DEF counters
    <3> QED
      BY <3>2, <3>3
  <2>5. CASE Update(a)
    <3>1. Moves(a) /\ UNCHANGED used
      BY <2>5, UpdateEffect DEF Update
    <3>2. CASE proc'[a] = [proc[a] EXCEPT !.pc = "insert"] /\ holder' = holder
      <4>1. proc'[a].pc # "commit"
        BY <2>1, <3>2 DEF Process
      <4> QED
        BY <1>4, <3>1, <3>2, <4>1
    <3>3. CASE /\ holder[proc[a].metric] = "none" /\ holder' = [holder EXCEPT ![proc[a].metric] = a]
               /\ proc'[a] = [proc[a] EXCEPT !.pc = "commit", !.value = used[proc[a].metric] + proc[a].amount]
      <4>1. used[proc[a].metric] + proc[a].amount \in Nat
        BY <1>1, <2>1 DEF Process
      <4> QED
        BY <1>6, <3>1, <3>3, <4>1
    <3> QED
      BY <2>5, <3>2, <3>3, UpdateEffect
  <2>6. CASE Insert(a)
    <3>1. Moves(a) /\ UNCHANGED used
      BY <2>6, InsertEffect DEF Insert
    <3>2. CASE proc'[a] = [proc[a] EXCEPT !.pc = "update"] /\ holder' = holder
      <4>1. proc'[a].pc # "commit"
        BY <2>1, <3>2 DEF Process
      <4> QED
        BY <1>4, <3>1, <3>2, <4>1
    <3>3. CASE /\ used[proc[a].metric] = 0 /\ holder' = [holder EXCEPT ![proc[a].metric] = a]
               /\ proc'[a] = [proc[a] EXCEPT !.pc = "commit", !.value = proc[a].amount]
      <4>1. proc[a].amount \in Nat
        BY <2>1 DEF Process
      <4>2. proc[a].amount = used[proc[a].metric] + proc[a].amount
        BY <3>3, <4>1
      <4>3. holder[proc[a].metric] = "none"
        BY <2>6, InsertEffect
      <4> QED
        BY <1>6, <3>1, <3>3, <4>1, <4>2, <4>3
    <3> QED
      BY <2>6, <3>2, <3>3, InsertEffect
  <2>7. CASE Refuse(a)
    <3>1. /\ At(a, "commit") /\ Fail(a) /\ UNCHANGED used
          /\ holder' = [holder EXCEPT ![proc[a].metric] = "none"]
      BY <2>7 DEF Refuse
    <3>2. Moves(a) /\ proc'[a].pc # "commit"
      BY <3>1, FailEffect
    <3> QED
      BY <1>1, <1>5, <3>1, <3>2
  <2>8. CASE CommitWell(a) \/ AckLost(a)
    <3>1. Commit(a) /\ (Succeed(a) \/ Fail(a))
      BY <2>8 DEF CommitWell, AckLost
    <3>2. Succeeded(a).pc # "commit"
      BY <2>1 DEF Succeeded, Process, Metrics
    <3>3. Moves(a) /\ proc'[a].pc # "commit"
      BY <3>1, <3>2, SucceedEffect, FailEffect
    <3>4. \A m \in Metrics : m # proc[a].metric => holder'[m] = holder[m] /\ used'[m] = used[m]
      BY <1>1, <3>1, CommitEffect DEF Commit
    <3>5. At(a, "commit")
      BY <3>1 DEF Commit
    <3> QED
      BY <1>5, <3>3, <3>4, <3>5
  <2>9. CASE \E n \in Amounts \cup {0} : Run(a, n)
    <3>1. PICK n \in Amounts \cup {0} : Run(a, n)
      BY <2>9
    <3>2. Moves(a) /\ (proc'[a].pc = "ready" \/ proc'[a] = Counting(proc[a], "bytes", n))
      BY <3>1, RunEffect
    <3>3. Counting(proc[a], "bytes", n).pc = "begin"
      BY <2>1 DEF Counting, Process
    <3>4. UNCHANGED counters
      BY <3>1 DEF Run
    <3> QED
      BY <1>4, <3>2, <3>3, <3>4 DEF counters
  <2>10. CASE EndRun(a)
    <3>1. Moves(a) /\ proc'[a].pc # "commit" /\ UNCHANGED counters
      BY <2>1, <2>10, EndRunEffect DEF EndRun, Process
    <3> QED
      BY <1>4, <3>1 DEF counters
  <2>11. CASE Flush(a)
    <3> DEFINE m == proc[a].metric
               n == pending[Context(a)][m]
    <3>1. /\ Moves(a)
          /\ \/ proc'[a] = Counting(proc[a], m, n)
             \/ proc'[a] = [proc[a] EXCEPT !.pc = "flush", !.metric = "cost"]
             \/ proc'[a].pc = "over"
      BY <2>11, FlushEffect
    <3>2. /\ Counting(proc[a], m, n).pc = "begin"
          /\ [proc[a] EXCEPT !.pc = "flush", !.metric = "cost"].pc = "flush"
      BY <2>1 DEF Counting, Process
    <3>3. proc'[a].pc # "commit"
      BY <3>1, <3>2
    <3>4. UNCHANGED counters
      BY <2>11 DEF Flush
    <3> QED
      BY <1>4, <3>1, <3>3, <3>4 DEF counters
  <2>12. CASE DbError(a) \/ Die(a)
    <3>1. UNCHANGED used /\ \A m \in Metrics : holder'[m] = holder[m] \/ holder[m] = a
      BY <2>12 DEF DbError, Die, Release
    <3>2. Moves(a) /\ proc'[a].pc # "commit"
      <4>1. CASE Fail(a)
        BY <4>1, FailEffect
      <4>2. CASE Go(a, [proc[a] EXCEPT !.pc = "ready"])
        <5>1. [proc[a] EXCEPT !.pc = "ready"] \in Process /\ [proc[a] EXCEPT !.pc = "ready"].pc = "ready"
          BY <2>1 DEF Process, Labels
        <5> QED
          BY <1>1, <4>2, <5>1, GoType
      <4>3. CASE Die(a)
        BY <4>3, DieEffect
      <4> QED
        BY <2>12, <4>1, <4>2, <4>3 DEF DbError
    <3> QED
      BY <1>4, <3>1, <3>2
  <2> QED
    BY <1>7, <2>2, <2>3, <2>4, <2>5, <2>6, <2>7, <2>8, <2>9, <2>10, <2>11, <2>12 DEF CountStep
<1> QED
  BY <1>3, <1>7 DEF Next, EditPolicy, Expire, CallWithout, vars

LEMMA CommitOnly ==
  ASSUME TypeOK, [Next]_vars
  PROVE  UNCHANGED <<used, events>> \/ \E a \in Agents : Commit(a)
<1> SUFFICES ASSUME ~UNCHANGED <<used, events>> PROVE \E a \in Agents : Commit(a)
  OBVIOUS
<1>1. PICK a \in Agents : CallStep(a) \/ CountStep(a) \/ DbError(a) \/ AckLost(a) \/ Die(a)
  BY DEF Next, EditPolicy, Expire, CallWithout, counters, vars
<1>2. ~CallStep(a) /\ ~DbError(a) /\ ~Die(a)
  BY CallEffect DEF DbError, Die
<1> QED
  BY <1>1, <1>2 DEF CountStep, StartQuery, Begin, Update, Insert, Refuse, CommitWell, Run, EndRun,
                    Flush, AckLost, counters

\* The counters explained, in the sums of this module.
Explained == \A m \in Metrics : used[m] = Total(events, m, Contexts)

LEMMA ContextsFinite == IsFiniteSet(Contexts)
<1>1. IsFiniteSet({"agent"}) /\ IsFiniteSet({"agent"} \cup {"tool"})
  BY FS_Singleton, FS_AddElement
<1>2. {"agent"} \cup {"tool"} = {"agent", "tool"}
  OBVIOUS
<1>3. IsFiniteSet(Agents)
  BY QuotaAssumption
<1>4. IsFiniteSet({"agent", "tool"})
  BY <1>1, <1>2
<1> QED
  BY <1>3, <1>4, FS_Product DEF Contexts

LEMMA ExplainedStep ==
  ASSUME TypeOK, RowsLocked, Explained, [Next]_vars
  PROVE  Explained'
<1> SUFFICES ASSUME NEW m \in Metrics PROVE used'[m] = Total(events', m, Contexts)
  BY DEF Explained
<1>1. used[m] = Total(events, m, Contexts)
  BY DEF Explained
<1>2. CASE UNCHANGED <<used, events>>
  BY <1>1, <1>2
<1>3. ASSUME NEW a \in Agents, Commit(a) PROVE used'[m] = Total(events', m, Contexts)
  <2>1. /\ \A n \in Metrics : used'[n] = IF n = proc[a].metric THEN proc[a].value ELSE used[n]
        /\ \A c \in Contexts, n \in Metrics :
             events'[c][n] = IF c = Context(a) /\ n = proc[a].metric
                             THEN events[c][n] + proc[a].amount ELSE events[c][n]
    BY <1>3, CommitEffect
  <2>2. proc[a] \in Process /\ proc[a].amount \in Nat /\ Context(a) \in Contexts
    BY ContextType DEF TypeOK, Process
  <2>3. \A c \in Contexts : events[c][m] \in Nat
    BY DEF TypeOK
  <2>4. PICK k : k = events'
    OBVIOUS
  <2>5. CASE m = proc[a].metric
    <3>1. used'[m] = used[m] + proc[a].amount
      BY <1>3, <2>1, <2>5 DEF RowsLocked, Locked, Commit
    <3>2. Total(k, m, Contexts) = Total(events, m, Contexts) + proc[a].amount
      <4>1. k[Context(a)][m] = events[Context(a)][m] + proc[a].amount
        BY <2>1, <2>2, <2>4, <2>5
      <4>2. \A d \in Contexts \ {Context(a)} : k[d][m] = events[d][m]
        BY <2>1, <2>4
      <4> QED
        BY <2>2, <2>3, <4>1, <4>2, ContextsFinite, TotalGrows
    <3> QED
      BY <1>1, <2>4, <3>1, <3>2
  <2>6. CASE m # proc[a].metric
    <3>1. \A c \in Contexts : events[c][m] = k[c][m]
      BY <2>1, <2>4, <2>6
    <3>2. Total(events, m, Contexts) = Total(k, m, Contexts)
      BY <3>1, ContextsFinite, TotalSame
    <3> QED
      BY <1>1, <2>1, <2>4, <2>6, <3>2
  <2> QED
    BY <2>5, <2>6
<1> QED
  BY <1>2, <1>3, CommitOnly

LEMMA CountersInit == Init => RowsLocked /\ Explained
<1> SUFFICES ASSUME Init PROVE RowsLocked /\ Explained
  OBVIOUS
<1>1. RowsLocked
  BY RestingType DEF Init, RowsLocked, Locked, At, Labels
<1>2. ASSUME NEW m \in Metrics PROVE used[m] = Total(events, m, Contexts)
  <2>1. \A c \in Contexts : events[c][m] = 0
    BY DEF Init
  <2> QED
    BY <2>1, ContextsFinite, TotalZero DEF Init
<1> QED
  BY <1>1, <1>2 DEF Explained

\* _increment_counter under READ COMMITTED: every counter is at any time the sum of
\* the committed events that explain it, whichever runs write it at once and race to
\* insert its row, whatever fails, for any number of runs.
THEOREM CountersAddUp == Spec => []EventsAddUp
<1>1. TypeOK /\ KindsAgree /\ RowsLocked /\ Explained /\ [Next]_vars
      => (TypeOK /\ KindsAgree /\ RowsLocked /\ Explained)'
  BY TypeStep, KindsStep, LocksStep, ExplainedStep
<1>2. Explained => EventsAddUp
  BY TotalUnfolds DEF Explained, EventsAddUp
<1> QED
  BY InitType, CountersInit, <1>1, <1>2, PTL DEF Spec
=============================================================================
