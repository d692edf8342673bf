------------------------------ MODULE ReviewFeed ------------------------------
(***************************************************************************)
(* The Review feed (review_service): the items of one condition of one     *)
(* agent, that is of one (organization, agent, type, group_key), whose     *)
(* producer counts occurrences and respects dismissals (slow queries,      *)
(* schema changes).  Producers look for an active item and insert one in   *)
(* separate statements; administrators dismiss items or run a workflow for *)
(* them; a workflow is an automation run whose outcome comes back to the   *)
(* item minutes later.                                                     *)
(*                                                                         *)
(* Each session works on the row as it has loaded it; its UPDATE names the *)
(* columns it has given another value, and leaves the others alone.        *)
(***************************************************************************)
EXTENDS AgentAutomation

CONSTANTS
  MaxEmissions,  \* bound: occurrences of the condition
  MaxRequests    \* bound: requests of administrators

ASSUME FeedAssumption == MaxEmissions \in Nat /\ MaxRequests \in Nat

Emissions == 1 .. MaxEmissions
Requests == 1 .. MaxRequests
Items == Emissions   \* an item has the number of the emission that inserts it
NoItem == 0

VARIABLES
  items,     \* Items -> the rows of review_items
  emission,  \* Emissions -> where each call of emit is
  request,   \* Requests -> where each request is
  subject,   \* Tasks -> the item a workflow was started from, and what it has loaded of it
  sources,   \* history: Items -> the emissions that inserted or bumped it
  met,       \* history: emissions that were in flight together with another
  barred,    \* history: Emissions -> the items freshly dismissed when it began
  revived    \* history: items that became active again, or were dismissed no more

feed == <<items, emission, request, subject>>
history == <<sources, met, barred, revived>>
vars == <<vars_automation, feed, history>>

Active == {"open", "in_progress"}   \* nothing sets snoozed
Closed == {"resolved", "dismissed"}
ItemStatuses == Active \cup Closed \cup {"absent"}
Entries == {"none", "running", "reported"}
Row == [status : ItemStatuses,
        count : Nat,                    \* group_count
        spawned : [Tasks -> Entries],   \* the entries of spawned_json
        recent : BOOLEAN]               \* dismissed, and updated within the week
NoRow == [status |-> "absent", count |-> 0, spawned |-> [t \in Tasks |-> "none"], recent |-> FALSE]

\* What a session remembers of the row it has loaded: the columns it may assign to.
Copy == [status : ItemStatuses, spawned : [Tasks -> Entries]]
NoCopy == [status |-> "absent", spawned |-> NoRow.spawned]
Loaded(i) == [status |-> items[i].status, spawned |-> items[i].spawned]

\* Fault: an item in progress does not occupy its place.
OpenItems == {i \in Items : items[i].status = "open"}

ActiveItems == {i \in Items : items[i].status \in Active}
FreshlyDismissed == {i \in Items : items[i].status = "dismissed" /\ items[i].recent}

InFlight(e) == emission[e].stage \in {"checking", "bumping", "inserting"}
Acting(r) == request[r].stage \in {"dismissing", "running"}

\* The UPDATE of a session that has loaded row i as seen and now holds new.
Update(i, seen, new) ==
  LET status == IF new.status # seen.status THEN new.status ELSE items[i].status
      spawned == IF new.spawned # seen.spawned THEN new.spawned ELSE items[i].spawned
  IN  items' = [items EXCEPT ![i] = [@ EXCEPT !.status = status, !.spawned = spawned,
                                              !.recent = status = "dismissed"]]

\* History: the items an UPDATE has made active again, or no longer dismissed.
Revive == revived' = revived \cup
  {i \in Items : items[i].status \in Closed /\ items'[i].status \notin {items[i].status, "dismissed"}}

Init ==
  /\ AutomationInit
  /\ items = [i \in Items |-> NoRow]
  /\ emission = [e \in Emissions |-> [stage |-> "idle", item |-> NoItem, seen |-> 0]]
  /\ request = [r \in Requests |-> [stage |-> "idle", item |-> NoItem, seen |-> NoCopy]]
  /\ subject = [t \in Tasks |-> [item |-> NoItem, seen |-> NoCopy]]
  /\ sources = [i \in Items |-> {}]
  /\ met = {}
  /\ barred = [e \in Emissions |-> {}]
  /\ revived = {}
-----------------------------------------------------------------------------
(* emit *)

EmissionOver(e) ==
  /\ emission' = [emission EXCEPT ![e] = [stage |-> "over", item |-> NoItem, seen |-> 0]]
  /\ barred' = [barred EXCEPT ![e] = {}]

\* The condition occurs.  The first statement looks for an active item, and takes
\* whichever comes first.
Occur(e) ==
  /\ emission[e].stage = "idle" /\ \A d \in Emissions : d < e => emission[d].stage # "idle"
  /\ \/ \E i \in ActiveItems :
          emission' = [emission EXCEPT ![e] = [stage |-> "bumping", item |-> i, seen |-> items[i].count]]
     \/ ActiveItems = {} /\ emission' = [emission EXCEPT ![e].stage = "checking"]
  /\ barred' = [barred EXCEPT ![e] = FreshlyDismissed]
  /\ met' = IF \E d \in Emissions : InFlight(d)
            THEN met \cup {e} \cup {d \in Emissions : InFlight(d)} ELSE met
  /\ UNCHANGED <<vars_automation, items, request, subject, sources, revived>>

\* Fault: a dismissal counts for nothing.
CheckNothing(e) ==
  /\ emission[e].stage = "checking"
  /\ emission' = [emission EXCEPT ![e].stage = "inserting"]
  /\ UNCHANGED <<vars_automation, items, request, subject, history>>

\* The second: a dismissal within the week suppresses the emission.
Check(e) ==
  /\ emission[e].stage = "checking"
  /\ IF FreshlyDismissed # {} THEN EmissionOver(e)
     ELSE emission' = [emission EXCEPT ![e].stage = "inserting"] /\ UNCHANGED barred
  /\ UNCHANGED <<vars_automation, items, request, subject, sources, met, revived>>

\* One more occurrence of the item that was loaded, whatever has become of it.
Bump(e) ==
  LET i == emission[e].item
  IN  /\ emission[e].stage = "bumping"
      /\ items' = [items EXCEPT ![i] = [@ EXCEPT !.count = emission[e].seen + 1,
                                                 !.recent = items[i].status = "dismissed"]]
      /\ sources' = [sources EXCEPT ![i] = @ \cup {e}]
      /\ EmissionOver(e)
      /\ UNCHANGED <<vars_automation, request, subject, met, revived>>

Insert(e) ==
  /\ emission[e].stage = "inserting"
  /\ items' = [items EXCEPT ![e] = [NoRow EXCEPT !.status = "open", !.count = 1]]
  /\ sources' = [sources EXCEPT ![e] = {e}]
  /\ EmissionOver(e)
  /\ UNCHANGED <<vars_automation, request, subject, met, revived>>

\* The producer's caller swallows the error.
EmissionFails(e) ==
  /\ InFlight(e)
  /\ EmissionOver(e)
  /\ UNCHANGED <<vars_automation, items, request, subject, sources, met, revived>>

\* A week has passed since an item was dismissed; an emission takes less.
WeekPasses(i) ==
  /\ i \in FreshlyDismissed
  /\ \A e \in Emissions : ~InFlight(e)
  /\ items' = [items EXCEPT ![i].recent = FALSE]
  /\ UNCHANGED <<vars_automation, emission, request, subject, history>>
-----------------------------------------------------------------------------
(* resolve and dismiss *)

RequestOver(r) ==
  request' = [request EXCEPT ![r] = [stage |-> "over", item |-> NoItem, seen |-> NoCopy]]

\* _get_visible_item loads any item; permissions and evals are looked up after it.
Ask(r, i, what) ==
  /\ request[r].stage = "idle" /\ \A s \in Requests : s < r => request[s].stage # "idle"
  /\ items[i].status # "absent"
  /\ request' = [request EXCEPT ![r] = [stage |-> what, item |-> i, seen |-> Loaded(i)]]
  /\ UNCHANGED <<vars_automation, items, emission, subject, history>>

Dismiss(r) ==
  LET i == request[r].item
      seen == request[r].seen
  IN  /\ request[r].stage = "dismissing"
      /\ Update(i, seen, [seen EXCEPT !.status = "dismissed"])
      /\ RequestOver(r)
      /\ UNCHANGED <<vars_automation, emission, subject, history>>

\* run_eval and run_training: the entry and the status are committed, and the
\* workflow's task is created.
Resolve(r, t, kind) ==
  LET i == request[r].item
      seen == request[r].seen
  IN  /\ request[r].stage = "running"
      /\ Called(t, kind, "admin")
      /\ Update(i, seen, [seen EXCEPT !.status = "in_progress", !.spawned[t] = "running"])
      /\ subject' = [subject EXCEPT ![t].item = i]
      /\ RequestOver(r)
      /\ Revive
      /\ UNCHANGED <<inflight, running, faults, raced, emission, sources, met, barred>>

\* No permission, no active evals.
Refuse(r) ==
  /\ Acting(r)
  /\ RequestOver(r)
  /\ UNCHANGED <<vars_automation, items, emission, subject, history>>
-----------------------------------------------------------------------------
(* _run_workflow *)

\* A trigger other than an administrator calls the agent's automation.
Trigger(t) ==
  /\ Called(t, "run_eval", "trigger")
  /\ UNCHANGED <<inflight, running, faults, raced, feed, history>>

Automate(t) == AutomationStep(t) /\ UNCHANGED <<feed, history>>

TaskOver(t) ==
  /\ task' = Concluded(t, "over", "failed")
  /\ subject' = [subject EXCEPT ![t] = [item |-> NoItem, seen |-> NoCopy]]

\* A fresh session loads the item; a trigger has none.
Reread(t) ==
  /\ At(t, "done")
  /\ IF subject[t].item = NoItem THEN TaskOver(t)
     ELSE /\ subject' = [subject EXCEPT ![t].seen = Loaded(subject[t].item)]
          /\ task' = Moved(t, "reporting")
  /\ UNCHANGED <<inflight, running, faults, raced, items, emission, request, history>>

\* Fault: only a good outcome is written back.
ReportedGood(t, seen) ==
  IF task[t].verdict = "passed"
  THEN [seen EXCEPT !.status = "resolved",
          !.spawned = [u \in Tasks |-> IF @[u] = "running" /\ task[u].kind = task[t].kind
                                       THEN "reported" ELSE @[u]]]
  ELSE seen

\* Fault: the outcome itself becomes the item's status.
ReportedRaw(t, seen) ==
  [seen EXCEPT !.status = task[t].verdict,
     !.spawned = [u \in Tasks |-> IF @[u] = "running" /\ task[u].kind = task[t].kind
                                  THEN "reported" ELSE @[u]]]

\* Every entry of the kind that was running gets the outcome, whosever it is; a
\* good one resolves the item and any other opens it, dismissed or not.
Reported(t, seen) ==
  [seen EXCEPT !.status = IF task[t].verdict = "passed" THEN "resolved" ELSE "open",
     !.spawned = [u \in Tasks |-> IF @[u] = "running" /\ task[u].kind = task[t].kind
                                  THEN "reported" ELSE @[u]]]

Report(t) ==
  LET i == subject[t].item
      seen == subject[t].seen
  IN  /\ At(t, "reporting")
      /\ Update(i, seen, Reported(t, seen))
      /\ TaskOver(t)
      /\ Revive
      /\ UNCHANGED <<inflight, running, faults, raced, emission, request, sources, met, barred>>

\* The outcome cannot be recorded: the error is swallowed.
ReportFails(t) ==
  /\ At(t, "reporting") /\ Strike("report")
  /\ TaskOver(t)
  /\ UNCHANGED <<inflight, running, raced, items, emission, request, history>>

TaskFails(t) == (RecordFails(t) \/ FinishFails(t)) /\ UNCHANGED <<feed, history>>

\* The process dies, with everything that was in flight.
Crash ==
  /\ Die
  /\ emission' = [e \in Emissions |-> IF InFlight(e)
                    THEN [stage |-> "over", item |-> NoItem, seen |-> 0] ELSE emission[e]]
  /\ request' = [r \in Requests |-> IF Acting(r)
                   THEN [stage |-> "over", item |-> NoItem, seen |-> NoCopy] ELSE request[r]]
  /\ subject' = [t \in Tasks |-> [item |-> NoItem, seen |-> NoCopy]]
  /\ barred' = [e \in Emissions |-> {}]
  /\ UNCHANGED <<items, sources, met, revived>>

Next ==
  \/ \E e \in Emissions :
       Occur(e) \/ Check(e) \/ Bump(e) \/ Insert(e) \/ EmissionFails(e)
  \/ \E i \in Items : WeekPasses(i)
  \/ \E r \in Requests, i \in Items, what \in {"dismissing", "running"} : Ask(r, i, what)
  \/ \E r \in Requests : Dismiss(r) \/ Refuse(r)
  \/ \E r \in Requests, t \in Tasks, kind \in Kinds : Resolve(r, t, kind)
  \/ \E t \in Tasks : Trigger(t) \/ Automate(t) \/ Reread(t) \/ Report(t) \/ ReportFails(t) \/ TaskFails(t)
  \/ Crash

Spec == Init /\ [][Next]_vars
-----------------------------------------------------------------------------
TypeOK ==
  /\ AutomationTypeOK
  /\ items \in [Items -> Row]
  /\ emission \in [Emissions -> [stage : {"idle", "checking", "bumping", "inserting", "over"},
                                 item : Items \cup {NoItem}, seen : Nat]]
  /\ request \in [Requests -> [stage : {"idle", "dismissing", "running", "over"},
                               item : Items \cup {NoItem}, seen : Copy]]
  /\ subject \in [Tasks -> [item : Items \cup {NoItem}, seen : Copy]]
  /\ sources \in [Items -> SUBSET Emissions]
  /\ met \subseteq Emissions
  /\ barred \in [Emissions -> SUBSET Items]
  /\ revived \subseteq Items

\* "At most one ACTIVE item per (org, agent, type, group_key)": of two active
\* items, an emission that overlapped with another inserted one, or a workflow or
\* a request has brought one back.
OneItem ==
  \A i, j \in ActiveItems : i # j => i \in met \cup revived \/ j \in met \cup revived

\* The count shown is the number of occurrences, unless two bumps overlapped:
\* then it is too low, never too high.
CountIsOccurrences ==
  \A i \in Items : /\ items[i].count <= Cardinality(sources[i])
                   /\ sources[i] \cap met = {} => items[i].count = Cardinality(sources[i])

\* A condition has one item, and the item counts its occurrences.
Deduplicated == OneItem /\ CountIsOccurrences

\* What was dismissed stays away for a week: an emission that begins within it
\* inserts no item, unless the dismissed one itself has been brought back.
DismissalHolds ==
  [][\A e \in Emissions : items[e].status = "absent" /\ items'[e].status # "absent" =>
       barred[e] \subseteq revived]_vars

\* An item in progress has a workflow: whatever stale copies the requests and the
\* other workflows write in between, one that was started from it is still to
\* report, unless an outcome could not be recorded or the process has died.
ItemsHaveWorkflows ==
  faults \cap {"report", "death"} = {} =>
    \A i \in Items : items[i].status = "in_progress" =>
      \E t \in Tasks : Live(t) /\ subject[t].item = i
=============================================================================
