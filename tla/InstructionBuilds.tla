-------------------------- MODULE InstructionBuilds --------------------------
(***************************************************************************)
(* The instruction builds of one organization (BuildService and its        *)
(* callers).  A request is one HTTP request or background task with its    *)
(* own database session.  Each of its steps ends where the code commits,   *)
(* or where it reads what a later step relies on, so that requests         *)
(* interleave exactly there.                                               *)
(*                                                                         *)
(* Sessions are created with expire_on_commit=False and queries do not     *)
(* populate existing objects: what a request first loaded of a build       *)
(* (`seen`) is what its later guards test, while its UPDATEs go to the     *)
(* row whatever the row holds by then.                                     *)
(***************************************************************************)
EXTENDS Snapshots, Naturals, FiniteSets

CONSTANTS
  Requests,      \* the requests, each served once
  MaxBuilds,     \* bound: builds that can be created
  Ops,           \* the operations requests perform, a subset of OpKinds
  OpenSources,   \* the sources POST /builds is called with
  Serial,        \* TRUE: a request starts only when no other is in flight
  Isolation,     \* "sqlite": one writer at a time; "postgres": READ COMMITTED
  Seeded         \* TRUE: the organization already has a main build

OpKinds == {"open", "edit", "submit", "reject", "publish", "save", "accept", "delete",
            "learn", "rollback", "crash"}

ASSUME ConstantsAssumption ==
  /\ MaxBuilds \in Nat \ {0}
  /\ Ops \subseteq OpKinds
  /\ OpenSources \subseteq {"user", "git", "ai"}
  /\ Serial \in BOOLEAN
  /\ Isolation \in {"sqlite", "postgres"}
  /\ Seeded \in BOOLEAN

BuildIds == 1 .. MaxBuilds
NoBuild == 0

Status == {"draft", "pending_approval", "approved", "rejected"}
Source == {"user", "git", "ai", "merge", "rollback"}

Build == [status : Status \cup {"absent"}, source : Source,
          base : BuildIds \cup {NoBuild}, contents : Snapshot]

Absent == [status |-> "absent", source |-> "user", base |-> NoBuild, contents |-> Empty]
NewDraft(s) == [Absent EXCEPT !.status = "draft", !.source = s]

VARIABLES
  builds,      \* BuildIds -> the rows of instruction_builds with their contents
  mains,       \* the builds whose is_main column is TRUE
  deleted,     \* the instructions whose deleted_at is set
  promoted,    \* history: the builds that have ever been main
  published,   \* history: the builds whose publishing succeeded
  req          \* Requests -> where each request is and what it remembers

rows == <<builds, mains, deleted>>
history == <<promoted, published>>
vars == <<builds, mains, deleted, promoted, published, req>>

Labels == {"idle", "draft", "insert", "copy", "add", "edit", "reject", "filter",
           "submit", "approve", "route", "diff", "apply", "promote", "commit", "refresh",
           "done"}

Request == [pc : Labels, op : OpKinds \cup {"none"},
            bld : BuildIds \cup {NoBuild},   \* the build it works on
            src : BuildIds \cup {NoBuild},   \* the build it merges or rolls back to
            seen : Build,                    \* its session's copy of bld
            main : BuildIds \cup {NoBuild},  \* the main build it compared with
            from : Snapshot, to : Snapshot,  \* the change it merges, or the version it accepts
            item : SUBSET Ins,               \* the instruction it deletes, until it is done with it
            cut : SUBSET BuildIds]           \* the main builds its UPDATE cleared

Resting(l) == [pc |-> l, op |-> "none", bld |-> NoBuild, src |-> NoBuild, seen |-> Absent,
               main |-> NoBuild, from |-> Empty, to |-> Empty, item |-> {}, cut |-> {}]

Contents(b) == IF b = NoBuild THEN Empty ELSE builds[b].contents

\* Fault: an approved build can still be edited.
EditableLater == {"draft", "pending_approval", "approved"}

Editable == {"draft", "pending_approval"}

InFlight(r) == req[r].pc \notin {"idle", "done"}

\* Fault: the database does not serialize writers.
WriterAlwaysFree(r) == TRUE

\* On SQLite a transaction that has written keeps every other writer out.
WriterFree(r) ==
  Isolation = "sqlite" => \A q \in Requests \ {r} : req[q].pc # "commit"

\* r goes on with the local state q; a request that is done forgets everything.
Continue(r, q) ==
  req' = [req EXCEPT ![r] = IF q.pc = "done" THEN Resting("done") ELSE q]

At(r, l) == req[r].pc = l
-----------------------------------------------------------------------------
\* A build some earlier request created, approved and promoted.
FirstMain(s) == [NewDraft("user") EXCEPT !.status = "approved", !.contents = s]

Init ==
  /\ IF Seeded
     THEN /\ \E s \in Snapshot \ {Empty} :
               builds = [b \in BuildIds |-> IF b = 1 THEN FirstMain(s) ELSE Absent]
          /\ mains = {1}
          /\ promoted = {1}
     ELSE /\ builds = [b \in BuildIds |-> Absent]
          /\ mains = {}
          /\ promoted = {}
  /\ deleted = {}
  /\ published = {}
  /\ req = [r \in Requests |-> Resting("idle")]

CanStart(r, o) ==
  /\ o \in Ops
  /\ At(r, "idle")
  /\ Serial => \A q \in Requests : ~InFlight(q)

\* The route loads build b and the guards of its operation pass on that copy.
Load(r, o, b, l) ==
  /\ CanStart(r, o)
  /\ builds[b].status # "absent"
  /\ Continue(r, [Resting(l) EXCEPT !.op = o, !.bld = b, !.seen = builds[b]])
  /\ UNCHANGED <<rows, history>>

StartOpen(r) ==
  /\ CanStart(r, "open")
  /\ Continue(r, [Resting("insert") EXCEPT !.op = "open"])
  /\ UNCHANGED <<rows, history>>

StartEdit(r, b) == builds[b].status \in Editable /\ Load(r, "edit", b, "edit")

StartSubmit(r, b) == builds[b].status = "draft" /\ Load(r, "submit", b, "submit")

StartReject(r, b) == builds[b].status = "pending_approval" /\ Load(r, "reject", b, "reject")

\* Rejected, approved and main builds are refused on the first load.
StartPublish(r, b) ==
  /\ builds[b].status \in Editable
  /\ b \notin mains
  /\ Load(r, "publish", b, "filter")

\* An instruction is created, updated or reverted: its new version is stored
\* before the draft build that will carry it is looked up.
StartSave(r) ==
  /\ CanStart(r, "save")
  /\ Continue(r, [Resting("draft") EXCEPT !.op = "save"])
  /\ UNCHANGED <<rows, history>>

\* Hunks of suggestion b that would change live instruction i are accepted: the
\* text is computed from what is live (the instruction's own row if no main build
\* holds it) and stored as version v; later a new build copies main once more.
StartAccept(r, b, i, v) ==
  LET suggested == Contents(b)[i] IN
  /\ CanStart(r, "accept")
  /\ i \notin deleted
  /\ suggested \notin {NoVer, Contents(builds[b].base)[i]}
  /\ mains = {} \/ \E m \in mains : builds[m].contents[i] \notin {suggested, v}
  /\ Continue(r, [Resting("insert") EXCEPT !.op = "accept", !.to = [Empty EXCEPT ![i] = v]])
  /\ UNCHANGED <<rows, history>>

\* The soft delete takes effect first, in a commit of its own.
StartDelete(r, i) ==
  /\ CanStart(r, "delete")
  /\ WriterFree(r)
  /\ deleted' = deleted \cup {i}
  /\ Continue(r, [Resting("draft") EXCEPT !.op = "delete", !.item = {i}])
  /\ UNCHANGED <<builds, mains, history>>

\* A self-learning policy accepts a suggestion, minutes before it acts on it.
StartLearn(r, b) ==
  /\ builds[b].status \in Editable
  /\ b \notin mains
  /\ Load(r, "learn", b, IF builds[b].status = "draft" THEN "submit" ELSE "approve")

\* Fault: rollback promotes the old build itself instead of a copy.
StartRollbackInPlace(r, t) ==
  /\ builds[t].status = "approved"
  /\ t \notin mains
  /\ Load(r, "rollback", t, "promote")

StartRollback(r, t) ==
  /\ CanStart(r, "rollback")
  /\ builds[t].status = "approved"
  /\ Continue(r, [Resting("insert") EXCEPT !.op = "rollback", !.src = t])
  /\ UNCHANGED <<rows, history>>
-----------------------------------------------------------------------------
\* The organization's latest draft of source "user" is shared by all its users.
SharedDrafts == {b \in BuildIds : builds[b].status = "draft" /\ builds[b].source = "user"}

FindDraft(r) ==
  /\ At(r, "draft")
  /\ \/ /\ SharedDrafts = {}
        /\ Continue(r, [req[r] EXCEPT !.pc = "insert"])
     \/ \E b \in SharedDrafts :
          /\ \A c \in SharedDrafts : c <= b
          /\ Continue(r, [req[r] EXCEPT !.pc = "add", !.bld = b, !.seen = builds[b]])
  /\ UNCHANGED <<rows, history>>

SourcesOf(o) ==
  CASE o = "open" -> OpenSources
    [] o = "publish" -> {"merge"}
    [] o = "rollback" -> {"rollback"}
    [] OTHER -> {"user"}

\* Fault: rollback leaves the instructions it brings back soft-deleted.
InsertWithoutRestore(r) ==
  /\ At(r, "insert")
  /\ WriterFree(r)
  /\ \E b \in BuildIds, s \in SourcesOf(req[r].op) :
       /\ builds[b].status = "absent"
       /\ \A c \in BuildIds : c < b => builds[c].status # "absent"
       /\ builds' = [builds EXCEPT ![b] = NewDraft(s)]
       /\ Continue(r, [req[r] EXCEPT !.pc = "copy", !.bld = b, !.seen = NewDraft(s)])
  /\ UNCHANGED <<mains, deleted, history>>

\* The new build is committed before anything is copied into it.  A rollback
\* restores the soft-deleted instructions of its target in the same commit.
Insert(r) ==
  /\ At(r, "insert")
  /\ WriterFree(r)
  /\ \E b \in BuildIds, s \in SourcesOf(req[r].op) :
       /\ builds[b].status = "absent"
       /\ \A c \in BuildIds : c < b => builds[c].status # "absent"
       /\ builds' = [builds EXCEPT ![b] = NewDraft(s)]
       /\ Continue(r, [req[r] EXCEPT !.pc = "copy", !.bld = b, !.seen = NewDraft(s)])
  /\ deleted' = IF req[r].op = "rollback" THEN deleted \ Holds(Contents(req[r].src)) ELSE deleted
  /\ UNCHANGED <<mains, history>>

\* What get_main_build returns; with two main builds it raises, and the copy,
\* which is not fatal, is skipped.
TheMain == IF \E m \in mains : mains = {m} THEN CHOOSE m \in mains : TRUE ELSE NoBuild

AfterCopy(o) ==
  CASE o = "open" -> "done"
    [] o = "publish" -> "apply"
    [] o = "rollback" -> "approve"
    [] OTHER -> "add"

\* Base and rows are committed together.  If another request has already put
\* one of the copied instructions into the new draft, the unique constraint
\* fails the flush, nothing is copied and the request dies on its expired object.
Copy(r) ==
  LET q == req[r]
      base == IF q.op = "rollback" THEN NoBuild ELSE TheMain
      copied == IF q.op = "rollback" THEN Contents(q.src) ELSE Contents(base)
      clash == Holds(copied) \cap Holds(Contents(q.bld)) # {}
  IN /\ At(r, "copy")
     /\ WriterFree(r)
     /\ IF clash
        THEN /\ Continue(r, Resting("done"))
             /\ UNCHANGED builds
        ELSE /\ builds' = [builds EXCEPT ![q.bld].base = base,
                                         ![q.bld].contents = Beside(copied, @)]
             /\ Continue(r, [q EXCEPT !.pc = AfterCopy(q.op), !.seen.base = base])
     /\ UNCHANGED <<mains, deleted, history>>
-----------------------------------------------------------------------------
Write(b, i, v) == builds' = [builds EXCEPT ![b].contents[i] = v]

\* add_to_build or remove_from_build through the contents endpoints.
Edit(r) ==
  /\ At(r, "edit")
  /\ WriterFree(r)
  /\ \E i \in Ins, v \in Ver \cup {NoVer} : Write(req[r].bld, i, v)
  /\ Continue(r, Resting("done"))
  /\ UNCHANGED <<mains, deleted, history>>

\* The saved or accepted version goes into the draft; a deleted instruction
\* leaves it.
Add(r) ==
  /\ At(r, "add")
  /\ WriterFree(r)
  /\ \/ /\ req[r].op = "save"
        /\ \E i \in Ins, v \in Ver : Write(req[r].bld, i, v)
     \/ /\ req[r].op = "accept"
        /\ \E i \in Holds(req[r].to) : Write(req[r].bld, i, req[r].to[i])
     \/ \E i \in req[r].item : Write(req[r].bld, i, NoVer)
  /\ Continue(r, [req[r] EXCEPT !.pc = "submit"])
  /\ UNCHANGED <<mains, deleted, history>>

Reject(r) ==
  /\ At(r, "reject")
  /\ WriterFree(r)
  /\ builds' = [builds EXCEPT ![req[r].bld].status = "rejected"]
  /\ Continue(r, Resting("done"))
  /\ UNCHANGED <<mains, deleted, history>>

\* Publishing only some instructions drops the others the build added itself;
\* keep = Ins is a publish without a selection.
Filter(r) ==
  LET q == req[r]
      now == Contents(q.bld)
      inherited == Holds(Contents(q.seen.base))
  IN /\ At(r, "filter")
     /\ WriterFree(r)
     /\ \E keep \in SUBSET Ins :
          builds' = [builds EXCEPT ![q.bld].contents =
                       [i \in Ins |-> IF i \in inherited \cup keep THEN now[i] ELSE NoVer]]
     /\ Continue(r, [q EXCEPT !.pc = IF q.seen.status = "draft" THEN "submit" ELSE "approve"])
     /\ UNCHANGED <<mains, deleted, history>>

\* Fault: a submitted save is promoted without having been approved.
AfterSubmitUnapproved(o) ==
  CASE o = "submit" -> {"done"}
    [] o \in {"save", "accept"} -> {"promote", "done"}
    [] o = "delete" -> {"promote", "refresh"}
    [] OTHER -> {"approve"}

\* Whether a save may publish is looked up after its draft was submitted; a
\* delete that may not still looks at its build again.
AfterSubmit(o) ==
  CASE o = "submit" -> {"done"}
    [] o \in {"save", "accept"} -> {"approve", "done"}
    [] o = "delete" -> {"approve", "refresh"}
    [] OTHER -> {"approve"}

\* Fault: a misspelt status.
SubmitMisspelt(r) ==
  /\ At(r, "submit")
  /\ builds' = [builds EXCEPT ![req[r].bld].status = "pending"]
  /\ Continue(r, [req[r] EXCEPT !.pc = "approve"])
  /\ UNCHANGED <<mains, deleted, history>>

Submit(r) ==
  /\ At(r, "submit")
  /\ WriterFree(r)
  /\ builds' = [builds EXCEPT ![req[r].bld].status = "pending_approval"]
  /\ \E l \in AfterSubmit(req[r].op) :
       Continue(r, [req[r] EXCEPT !.pc = l, !.seen.status = "pending_approval"])
  /\ UNCHANGED <<mains, deleted, history>>

Approve(r) ==
  LET q == req[r]
  IN /\ At(r, "approve")
     /\ WriterFree(r)
     /\ builds' = [builds EXCEPT ![q.bld].status = "approved"]
     /\ Continue(r, [q EXCEPT !.pc = IF q.op = "publish" /\ q.src = NoBuild THEN "route" ELSE "promote",
                              !.seen.status = "approved"])
     /\ UNCHANGED <<mains, deleted, history>>
-----------------------------------------------------------------------------
\* Fault: every build is promoted as it is, stale or not.
RouteUnmerged(r) ==
  /\ At(r, "route")
  /\ Continue(r, [req[r] EXCEPT !.pc = "promote"])
  /\ UNCHANGED <<rows, history>>

\* Fault: a stale build is refused, after it has been approved.
RouteRefusing(r) ==
  /\ At(r, "route")
  /\ Continue(r, [req[r] EXCEPT !.pc = IF req[r].seen.base \in {NoBuild, TheMain} THEN "promote" ELSE "done"])
  /\ UNCHANGED <<rows, history>>

\* publish_build chooses between promoting the build and merging it.  With two
\* main builds get_main_build raises and the request fails here.
Route(r) ==
  LET q == req[r]
      fresh == mains = {} \/ q.seen.base = NoBuild \/ q.seen.base = TheMain
  IN /\ At(r, "route")
     /\ Continue(r, [q EXCEPT !.pc = IF Cardinality(mains) > 1 THEN "done"
                                     ELSE IF fresh THEN "promote" ELSE "diff",
                              !.main = TheMain])
     /\ UNCHANGED <<rows, history>>

\* Rows the session already held keep the version they were loaded with.
Reread(old, now) == [i \in Ins |-> IF now[i] # NoVer /\ old[i] # NoVer THEN old[i] ELSE now[i]]

\* Fault: the change is computed against the current main, not against the base.
DiffAgainstMain(r) ==
  LET q == req[r]
  IN /\ At(r, "diff")
     /\ Continue(r, [q EXCEPT !.pc = IF mains = {q.main} THEN "insert" ELSE "done",
                              !.src = q.bld,
                              !.from = Contents(q.main),
                              !.to = Reread(q.seen.contents, Contents(q.bld))])
     /\ UNCHANGED <<rows, history>>

\* The change to merge is computed, then main is read again: 409 if it moved.
Diff(r) ==
  LET q == req[r]
  IN /\ At(r, "diff")
     /\ Continue(r, [q EXCEPT !.pc = IF mains = {q.main} THEN "insert" ELSE "done",
                              !.src = q.bld,
                              !.from = Contents(q.seen.base),
                              !.to = Reread(q.seen.contents, Contents(q.bld))])
     /\ UNCHANGED <<rows, history>>

\* Additions, modifications and removals are written onto the merged build.
Apply(r) ==
  LET q == req[r]
  IN /\ At(r, "apply")
     /\ WriterFree(r)
     /\ builds' = [builds EXCEPT ![q.bld].contents = Merge(q.from, q.to, @)]
     /\ Continue(r, [q EXCEPT !.pc = "approve"])
     /\ UNCHANGED <<mains, deleted, history>>

\* promote_build clears is_main on the main builds this statement sees.  A row
\* another transaction has cleared but not committed is waited for and then
\* skipped, and a build it is about to promote is not seen at all.
Promote(r) ==
  /\ At(r, "promote")
  /\ WriterFree(r)
  /\ Continue(r, [req[r] EXCEPT !.pc = "commit", !.cut = mains \ {req[r].bld}])
  /\ UNCHANGED <<rows, history>>

Commit(r) ==
  LET q == req[r]
  IN /\ At(r, "commit")
     /\ mains' = (mains \ q.cut) \cup {q.bld}
     /\ promoted' = promoted \cup {q.bld}
     /\ published' = IF q.op # "publish" THEN published
                     ELSE published \cup {IF q.src = NoBuild THEN q.bld ELSE q.src}
     /\ Continue(r, [q EXCEPT !.pc = IF q.item # {} THEN "refresh" ELSE "done"])
     /\ UNCHANGED <<builds, deleted>>

\* A delete refreshes its build once it is finalized, and promotes it (again)
\* when it is approved and not main.
Refresh(r) ==
  LET q == req[r]
      again == builds[q.bld].status = "approved" /\ q.bld \notin mains
  IN /\ At(r, "refresh")
     /\ Continue(r, [q EXCEPT !.pc = IF again THEN "promote" ELSE "done",
                              !.seen = builds[q.bld], !.item = {}])
     /\ UNCHANGED <<rows, history>>

\* A statement of a finalization fails: it is rolled back, the error is
\* swallowed and a delete goes on.
FinalizeFails(r) ==
  /\ "crash" \in Ops
  /\ req[r].item # {}
  /\ req[r].pc \in {"submit", "approve", "promote", "commit"}
  /\ Continue(r, [req[r] EXCEPT !.pc = "refresh"])
  /\ UNCHANGED <<rows, history>>

\* The request dies between two commits: its process is killed, the client goes
\* away, a lock times out or a statement fails.
Crash(r) ==
  /\ "crash" \in Ops
  /\ InFlight(r)
  /\ Continue(r, Resting("done"))
  /\ UNCHANGED <<rows, history>>
-----------------------------------------------------------------------------
Advance(r) ==
  \/ FindDraft(r) \/ Insert(r) \/ Copy(r) \/ Edit(r) \/ Add(r) \/ Reject(r)
  \/ Filter(r) \/ Submit(r) \/ Approve(r) \/ Route(r) \/ Diff(r) \/ Apply(r)
  \/ Promote(r) \/ Commit(r) \/ Refresh(r) \/ FinalizeFails(r)

Start(r) ==
  \/ StartOpen(r)
  \/ StartSave(r)
  \/ \E i \in Ins : StartDelete(r, i)
  \/ \E b \in BuildIds, i \in Ins, v \in Ver : StartAccept(r, b, i, v)
  \/ \E b \in BuildIds :
       \/ StartEdit(r, b)
       \/ StartSubmit(r, b)
       \/ StartReject(r, b)
       \/ StartPublish(r, b)
       \/ StartLearn(r, b)
       \/ StartRollback(r, b)

Next == \E r \in Requests : Start(r) \/ Advance(r) \/ Crash(r)

Spec == Init /\ [][Next]_vars
-----------------------------------------------------------------------------
\* Types of the rows and of what every request remembers of them.
TypeOK ==
  /\ builds \in [BuildIds -> Build]
  /\ mains \subseteq BuildIds
  /\ deleted \subseteq Ins
  /\ promoted \subseteq BuildIds
  /\ published \subseteq BuildIds
  /\ req \in [Requests -> Request]

\* At most one build of the organization has is_main set.  Nothing but the two
\* UPDATE statements of promote_build keeps this: there is no constraint on the
\* table, and get_main_build raises when it is broken.
AtMostOneMain == \A a, b \in mains : a = b

\* Whatever requests race or die, an organization that has a live build keeps
\* one: no interleaving of clearing and setting is_main loses both.
MainNeverVanishes == [][mains # {} => mains' # {}]_vars

\* The base a build is diffed against when it is published is a build that was
\* once live, even when it was forked while main was being replaced.
BaseWasLive == \A b \in BuildIds : builds[b].base \in promoted \cup {NoBuild}

\* The live build is an approved one: it is not a build a reviewer rejected,
\* nor one that is still a draft or waiting for approval (and still editable).
LiveIsApproved == \A b \in mains : builds[b].status = "approved"

\* An approved build is the immutable snapshot that diffs and rollbacks count
\* on: neither its contents, its base nor its status change any more.
ApprovedIsFrozen ==
  [][\A b \in BuildIds : builds[b].status = "approved" => builds'[b] = builds[b]]_vars

\* Promoting a build (other than for a rollback) changes, of what is live, only
\* what the build itself changed: nobody else's instructions are reverted.
NoSilentRevert ==
  [][\A b \in mains' \ mains, m \in mains \ mains' :
       builds[b].source # "rollback" =>
         \A i \in Ins : \/ builds[b].contents[i] = builds[m].contents[i]
                       \/ builds[b].contents[i] # Contents(builds[b].base)[i]]_vars

\* A rollback makes exactly its target live again, and none of the instructions
\* it brings back is left soft-deleted.
RollbackIsExact ==
  [][\A r \in Requests :
       req[r].op = "rollback" /\ req[r].bld \in mains' \ mains =>
         /\ builds[req[r].bld].contents = builds[req[r].src].contents
         /\ Holds(builds[req[r].bld].contents) \cap deleted = {}]_vars

\* A build goes live at most once: going back is always a new build, so that the
\* sequence of builds is the history of what was live.
LiveOnlyOnce == [][(mains' \ mains) \cap promoted = {}]_vars

\* "Build is already published" is the answer for every approved build: once no
\* request is in flight, an approved build has gone live or its change has.  So
\* _auto_finalize_build must promote what it approves, as its code does; its
\* docstring would leave the build approved for a publish that refuses it.
ApprovedHasLanded ==
  (\A r \in Requests : ~InFlight(r)) =>
    \A b \in BuildIds : builds[b].status = "approved" => b \in promoted \cup published

\* A reviewer's rejection is final: nothing brings a rejected build back.
RejectionIsFinal ==
  [][\A b \in BuildIds :
       builds[b].status = "rejected" => builds'[b].status = "rejected"]_vars
-----------------------------------------------------------------------------
\* A build being created by a merge or a rollback, or not yet copied into.
InMaking(b) ==
  \E r \in Requests : /\ req[r].bld = b
                      /\ At(r, "copy") \/ req[r].src \notin {NoBuild, b}

\* An approved build whose publishing request is about to make its change live.
Landing(b) ==
  \E r \in Requests : \/ req[r].bld = b /\ ~At(r, "refresh")
                      \/ req[r].src = b /\ req[r].op = "publish"

IsProposal(b) ==
  /\ ~InMaking(b)
  /\ \/ builds[b].status \in Editable
     \/ builds[b].status = "approved" /\ Landing(b)

Live == Contents(TheMain)

ApprovedSnapshots ==
  {builds[b].contents : b \in {c \in BuildIds : builds[c].status = "approved" /\ ~Landing(c)}}
    \cup (IF Seeded THEN {} ELSE {Empty})

Proposals ==
  [b \in BuildIds |->
     [from |-> IF IsProposal(b) THEN Contents(builds[b].base) ELSE Empty,
      to |-> IF IsProposal(b) THEN builds[b].contents ELSE Empty,
      open |-> IsProposal(b)]]

\* Requests that do not overlap implement the main line: each publish or save
\* lands one proposal on what is live, each rollback restores an approved snapshot.
Main == INSTANCE MainLine WITH Ids <- BuildIds, live <- Live,
                               approved <- ApprovedSnapshots, proposals <- Proposals

ImplementsMainLine == Main!Spec
=============================================================================
