----------------------- MODULE InstructionBuilds_proofs -----------------------
(***************************************************************************)
(* Theorems about InstructionBuilds, for any set of requests, instructions *)
(* and versions and any number of builds.                                  *)
(***************************************************************************)
EXTENDS InstructionBuilds, TLAPS

\* The snapshots the operators build are snapshots.
LEMMA SnapshotOps ==
  ASSUME NEW s \in Snapshot, NEW t \in Snapshot, NEW u \in Snapshot
  PROVE  /\ Empty \in Snapshot
         /\ Merge(s, t, u) \in Snapshot
         /\ Beside(s, t) \in Snapshot
         /\ Reread(s, t) \in Snapshot
BY DEF Snapshot, Empty, Merge, Beside, Reread

LEMMA BlankTypes ==
  /\ Empty \in Snapshot
  /\ Absent \in Build
  /\ \A s \in Source : NewDraft(s) \in Build
  /\ \A l \in Labels : Resting(l) \in Request
<1>1. Empty \in Snapshot
  BY DEF Empty, Snapshot
<1>2. Absent \in Build
  BY <1>1 DEF Absent, Build, Source
<1>3. ASSUME NEW s \in Source PROVE NewDraft(s) \in Build
  BY <1>2 DEF NewDraft, Absent, Build, Status
<1>4. ASSUME NEW l \in Labels PROVE Resting(l) \in Request
  BY <1>1, <1>2, <1>4 DEF Resting, Request
<1> QED BY <1>1, <1>2, <1>3, <1>4

LEMMA ContentsType ==
  ASSUME TypeOK, NEW b \in BuildIds \cup {NoBuild}
  PROVE  Contents(b) \in Snapshot
BY BlankTypes DEF TypeOK, Contents, Build

LEMMA TheMainType ==
  ASSUME TypeOK PROVE TheMain \in BuildIds \cup {NoBuild}
<1>1. CASE \E m \in mains : mains = {m}
  BY <1>1 DEF TheMain, TypeOK
<1>2. CASE ~\E m \in mains : mains = {m}
  BY <1>2 DEF TheMain
<1> QED BY <1>1, <1>2
\* An UPDATE of one column keeps the rows typed (and one of no row, too).
LEMMA RowTypes ==
  ASSUME NEW f \in [BuildIds -> Build], NEW b \in BuildIds \cup {NoBuild}
  PROVE  /\ \A s \in Status : [f EXCEPT ![b].status = s] \in [BuildIds -> Build]
         /\ \A c \in Snapshot : [f EXCEPT ![b].contents = c] \in [BuildIds -> Build]
         /\ \A x \in BuildIds \cup {NoBuild}, c \in Snapshot :
              [f EXCEPT ![b].base = x, ![b].contents = c] \in [BuildIds -> Build]
         /\ \A i \in Ins, v \in Ver \cup {NoVer} :
              [f EXCEPT ![b].contents[i] = v] \in [BuildIds -> Build]
BY ZenonT(60) DEF Build, Snapshot

\* A request past its lookups has a build at hand.
HasBuild ==
  \A r \in Requests :
    req[r].pc \notin {"idle", "done", "draft", "insert"} => req[r].bld \in BuildIds

TypeInv == TypeOK /\ HasBuild

LEMMA InitTypeInv == Init => TypeInv
<1> SUFFICES ASSUME Init PROVE TypeInv
  OBVIOUS
<1>1. ASSUME NEW s \in Snapshot PROVE FirstMain(s) \in Build
  <2>1. NewDraft("user") \in Build
    BY BlankTypes DEF Source
  <2>2. [NewDraft("user") EXCEPT !.status = "approved"] \in Build
    BY <2>1 DEF Build, Status
  <2> QED
    BY <2>2 DEF FirstMain, Build
<1>2. builds \in [BuildIds -> Build]
  BY <1>1, BlankTypes DEF Init
<1>3. req \in [Requests -> Request] /\ HasBuild
  BY BlankTypes DEF Init, Labels, Resting, HasBuild
<1>4. 1 \in BuildIds
  BY ConstantsAssumption DEF BuildIds
<1> QED
  BY <1>2, <1>3, <1>4 DEF Init, TypeInv, TypeOK

\* Continuing a request with a typed local state that has a build at hand, if its
\* next step needs one, keeps every request so.
LEMMA ContinueType ==
  ASSUME TypeInv, NEW r \in Requests, NEW q \in Request, Continue(r, q),
         q.pc \notin {"idle", "done", "draft", "insert"} => q.bld \in BuildIds
  PROVE  req' \in [Requests -> Request] /\ HasBuild'
<1>1. Resting("done") \in Request /\ Resting("done").pc = "done"
  BY BlankTypes DEF Labels, Resting
<1>2. req' \in [Requests -> Request]
  BY <1>1 DEF Continue, TypeInv, TypeOK
<1>3. HasBuild'
  BY <1>1 DEF Continue, TypeInv, TypeOK, HasBuild
<1> QED BY <1>2, <1>3

LEMMA DoneType ==
  ASSUME TypeInv, NEW r \in Requests, Continue(r, Resting("done"))
  PROVE  req' \in [Requests -> Request] /\ HasBuild'
<1>1. Resting("done") \in Request /\ Resting("done").pc = "done"
  BY BlankTypes DEF Labels, Resting
<1> QED BY <1>1, ContinueType

\* What continuing shows: the next step of r, its build, and nobody else's state.
LEMMA ContinueShape ==
  ASSUME TypeInv, NEW r \in Requests, NEW p, Continue(r, p)
  PROVE  /\ req'[r].pc = p.pc
         /\ p.pc # "done" => req'[r].bld = p.bld
         /\ \A s \in Requests \ {r} : req'[s] = req[s]
BY DEF Continue, Resting, TypeInv, TypeOK

\* Every way of arriving.
LEMMA StartTypeInv ==
  ASSUME TypeInv, NEW r \in Requests, Start(r)
  PROVE  TypeInv'
<1> USE DEF TypeInv
<1>1. ASSUME NEW o \in OpKinds, NEW b \in BuildIds, NEW l \in Labels, Load(r, o, b, l)
      PROVE  TypeInv'
  <2> DEFINE q == [Resting(l) EXCEPT !.op = o, !.bld = b, !.seen = builds[b]]
  <2>1. q \in Request /\ q.bld \in BuildIds
    BY <1>1, BlankTypes DEF TypeOK, Resting, Request
  <2>2. req' \in [Requests -> Request] /\ HasBuild'
    BY <1>1, <2>1, ContinueType DEF Load
  <2> QED
    BY <1>1, <2>2 DEF Load, TypeOK, rows, history
<1>2. CASE StartOpen(r)
  <2> DEFINE q == [Resting("insert") EXCEPT !.op = "open"]
  <2>1. q \in Request /\ q.pc = "insert"
    BY BlankTypes DEF Resting, Request, Labels, OpKinds
  <2>2. req' \in [Requests -> Request] /\ HasBuild'
    BY <1>2, <2>1, ContinueType DEF StartOpen
  <2> QED
    BY <1>2, <2>2 DEF StartOpen, TypeOK, rows, history
<1>3. CASE StartSave(r)
  <2> DEFINE q == [Resting("draft") EXCEPT !.op = "save"]
  <2>1. q \in Request /\ q.pc = "draft"
    BY BlankTypes DEF Resting, Request, Labels, OpKinds
  <2>2. req' \in [Requests -> Request] /\ HasBuild'
    BY <1>3, <2>1, ContinueType DEF StartSave
  <2> QED
    BY <1>3, <2>2 DEF StartSave, TypeOK, rows, history
<1>4. ASSUME NEW i \in Ins, StartDelete(r, i) PROVE TypeInv'
  <2> DEFINE q == [Resting("draft") EXCEPT !.op = "delete", !.item = {i}]
  <2>0. Resting("draft") \in Request /\ Resting("draft").pc = "draft"
    BY BlankTypes DEF Resting, Labels
  <2>1. q \in Request /\ q.pc = "draft"
    BY <2>0 DEF Request, OpKinds
  <2>2. req' \in [Requests -> Request] /\ HasBuild'
    BY <1>4, <2>1, ContinueType DEF StartDelete
  <2> QED
    BY <1>4, <2>2 DEF StartDelete, TypeOK, history
<1>5. ASSUME NEW t \in BuildIds, StartRollback(r, t) PROVE TypeInv'
  <2> DEFINE q == [Resting("insert") EXCEPT !.op = "rollback", !.src = t]
  <2>0. Resting("insert") \in Request /\ Resting("insert").pc = "insert"
    BY BlankTypes DEF Resting, Labels
  <2>1. q \in Request /\ q.pc = "insert"
    BY <2>0 DEF Request, OpKinds
  <2>2. req' \in [Requests -> Request] /\ HasBuild'
    BY <1>5, <2>1, ContinueType DEF StartRollback
  <2> QED
    BY <1>5, <2>2 DEF StartRollback, TypeOK, rows, history
<1>6. ASSUME NEW b \in BuildIds,
             StartEdit(r, b) \/ StartSubmit(r, b) \/ StartReject(r, b)
               \/ StartPublish(r, b) \/ StartLearn(r, b)
      PROVE  TypeInv'
  <2>1. \E o \in OpKinds, l \in Labels : Load(r, o, b, l)
    BY <1>6 DEF StartEdit, StartSubmit, StartReject, StartPublish, StartLearn, OpKinds, Labels
  <2> QED
    BY <1>1, <2>1
<1>7. ASSUME NEW b \in BuildIds, NEW i \in Ins, NEW v \in Ver, StartAccept(r, b, i, v)
      PROVE  TypeInv'
  <2> DEFINE s == [Empty EXCEPT ![i] = v]
             q == [Resting("insert") EXCEPT !.op = "accept", !.to = s]
  <2>0. /\ Resting("insert") \in Request /\ Resting("insert").pc = "insert"
        /\ s \in Snapshot
    BY BlankTypes DEF Resting, Labels, Snapshot
  <2>1. q \in Request /\ q.pc = "insert"
    BY <2>0 DEF Request, OpKinds
  <2>2. req' \in [Requests -> Request] /\ HasBuild'
    BY <1>7, <2>1, ContinueType DEF StartAccept
  <2> QED
    BY <1>7, <2>2 DEF StartAccept, TypeOK, rows, history
<1> QED
  BY <1>2, <1>3, <1>4, <1>5, <1>6, <1>7 DEF Start

\* Every step of a request in flight.
LEMMA AdvanceTypeInv ==
  ASSUME TypeInv, NEW r \in Requests, Advance(r)
  PROVE  TypeInv'
<1> USE DEF TypeInv
<1> DEFINE q == req[r]
<1>0. q \in Request
  BY DEF TypeOK
<1>1. CASE FindDraft(r)
  <2>1. CASE Continue(r, [req[r] EXCEPT !.pc = "insert"])
    <3>1. [q EXCEPT !.pc = "insert"] \in Request /\ [q EXCEPT !.pc = "insert"].pc = "insert"
      BY <1>0 DEF Request, Labels
    <3> QED
      BY <1>1, <2>1, <3>1, ContinueType DEF FindDraft, TypeOK, rows, history
  <2>2. ASSUME NEW b \in BuildIds,
               Continue(r, [req[r] EXCEPT !.pc = "add", !.bld = b, !.seen = builds[b]])
        PROVE  TypeInv'
    <3> DEFINE p == [q EXCEPT !.pc = "add", !.bld = b, !.seen = builds[b]]
    <3>1. p \in Request /\ p.bld \in BuildIds
      BY <1>0 DEF Request, Labels, TypeOK
    <3>2. req' \in [Requests -> Request] /\ HasBuild'
      BY <2>2, <3>1, ContinueType
    <3> QED
      BY <1>1, <3>2 DEF FindDraft, TypeOK, rows, history
  <2> QED
    BY <1>1, <2>1, <2>2 DEF FindDraft, SharedDrafts
<1>2. CASE Insert(r)
  <2>1. PICK b \in BuildIds, s \in SourcesOf(q.op) :
          /\ builds' = [builds EXCEPT ![b] = NewDraft(s)]
          /\ Continue(r, [q EXCEPT !.pc = "copy", !.bld = b, !.seen = NewDraft(s)])
    BY <1>2 DEF Insert
  <2>2. NewDraft(s) \in Build
    BY <1>0, BlankTypes, ConstantsAssumption DEF SourcesOf, Source, Request, OpKinds
  <2>3. [q EXCEPT !.pc = "copy", !.bld = b, !.seen = NewDraft(s)] \in Request
    BY <1>0, <2>2 DEF Request, Labels
  <2>4. [q EXCEPT !.pc = "copy", !.bld = b, !.seen = NewDraft(s)].bld \in BuildIds
    BY <1>0 DEF Request
  <2>5. req' \in [Requests -> Request] /\ HasBuild'
    BY <2>1, <2>3, <2>4, ContinueType
  <2>6. builds' \in [BuildIds -> Build]
    BY <2>1, <2>2 DEF TypeOK
  <2> QED
    BY <1>2, <2>5, <2>6 DEF Insert, TypeOK, history
<1>3. CASE Copy(r)
  <2> DEFINE base == IF q.op = "rollback" THEN NoBuild ELSE TheMain
             copied == IF q.op = "rollback" THEN Contents(q.src) ELSE Contents(base)
  <2>1. base \in BuildIds \cup {NoBuild} /\ copied \in Snapshot
    BY <1>0, TheMainType, ContentsType DEF Request
  <2>2. CASE Continue(r, Resting("done")) /\ UNCHANGED builds
    BY <1>3, <2>2, DoneType DEF Copy, TypeOK, history
  <2>3. CASE /\ builds' = [builds EXCEPT ![q.bld].base = base,
                                        ![q.bld].contents = Beside(copied, @)]
             /\ Continue(r, [q EXCEPT !.pc = AfterCopy(q.op), !.seen.base = base])
    <3> DEFINE p == [q EXCEPT !.pc = AfterCopy(q.op), !.seen.base = base]
    <3>1. q.bld \in BuildIds
      BY <1>3 DEF Copy, At, HasBuild
    <3>2. [q.seen EXCEPT !.base = base] \in Build
      BY <1>0, <2>1 DEF Request, Build
    <3>3. AfterCopy(q.op) \in Labels
      BY DEF AfterCopy, Labels
    <3>4. p = [q EXCEPT !.pc = AfterCopy(q.op), !.seen = [q.seen EXCEPT !.base = base]]
      BY <1>0 DEF Request
    <3>5. p \in Request /\ p.bld \in BuildIds
      BY <1>0, <3>1, <3>2, <3>3, <3>4 DEF Request
    <3>6. req' \in [Requests -> Request] /\ HasBuild'
      BY <2>3, <3>5, ContinueType
    <3>7. Beside(copied, builds[q.bld].contents) \in Snapshot
      BY <2>1, <3>1, SnapshotOps DEF TypeOK, Build
    <3>8. builds' \in [BuildIds -> Build]
      BY <2>1, <2>3, <3>1, <3>7 DEF TypeOK, Build
    <3> QED
      BY <1>3, <3>6, <3>8 DEF Copy, TypeOK, history
  <2> QED
    BY <1>3, <2>2, <2>3 DEF Copy
<1>4. CASE Edit(r)
  <2>1. PICK i \in Ins, v \in Ver \cup {NoVer} : Write(q.bld, i, v)
    BY <1>4 DEF Edit
  <2>2. builds' \in [BuildIds -> Build]
    BY <1>0, <2>1, RowTypes DEF Write, TypeOK, Request
  <2> QED
    BY <1>4, <2>2, DoneType DEF Edit, TypeOK, history
<1>5. CASE Add(r)
  <2>1. PICK i \in Ins, v \in Ver \cup {NoVer} : Write(q.bld, i, v)
    BY <1>0, <1>5 DEF Add, Request, Snapshot, Holds
  <2>2. builds' \in [BuildIds -> Build]
    BY <1>0, <2>1, RowTypes DEF Write, TypeOK, Request
  <2>3. [q EXCEPT !.pc = "submit"] \in Request /\ [q EXCEPT !.pc = "submit"].bld \in BuildIds
    BY <1>0, <1>5 DEF Add, At, HasBuild, Request, Labels
  <2>4. req' \in [Requests -> Request] /\ HasBuild'
    BY <1>5, <2>3, ContinueType DEF Add
  <2> QED
    BY <1>5, <2>2, <2>4 DEF Add, TypeOK, history
<1>6. CASE Reject(r)
  <2>1. builds' \in [BuildIds -> Build]
    BY <1>0, <1>6, RowTypes DEF Reject, TypeOK, Request, Status
  <2> QED
    BY <1>6, <2>1, DoneType DEF Reject, TypeOK, history
<1>7. CASE Filter(r)
  <2> DEFINE l == IF q.seen.status = "draft" THEN "submit" ELSE "approve"
  <2>1. PICK c \in Snapshot : builds' = [builds EXCEPT ![q.bld].contents = c]
    <3>1. PICK keep \in SUBSET Ins :
            builds' = [builds EXCEPT ![q.bld].contents =
                         [i \in Ins |-> IF i \in Holds(Contents(q.seen.base)) \cup keep
                                        THEN Contents(q.bld)[i] ELSE NoVer]]
      BY <1>7 DEF Filter
    <3>2. Contents(q.bld) \in Snapshot
      BY <1>0, ContentsType DEF Request
    <3>3. [i \in Ins |-> IF i \in Holds(Contents(q.seen.base)) \cup keep
                         THEN Contents(q.bld)[i] ELSE NoVer] \in Snapshot
      BY <3>2 DEF Snapshot
    <3> QED
      BY <3>1, <3>3
  <2>2. builds' \in [BuildIds -> Build]
    BY <1>0, <2>1, RowTypes DEF TypeOK, Request
  <2>3. [q EXCEPT !.pc = l] \in Request /\ [q EXCEPT !.pc = l].bld \in BuildIds
    BY <1>0, <1>7 DEF Filter, At, HasBuild, Request, Labels
  <2>4. req' \in [Requests -> Request] /\ HasBuild'
    BY <1>7, <2>3, ContinueType DEF Filter
  <2> QED
    BY <1>7, <2>2, <2>4 DEF Filter, TypeOK, history
<1>8. CASE Submit(r)
  <2>1. PICK l \in AfterSubmit(q.op) :
          Continue(r, [q EXCEPT !.pc = l, !.seen.status = "pending_approval"])
    BY <1>8 DEF Submit
  <2> DEFINE p == [q EXCEPT !.pc = l, !.seen.status = "pending_approval"]
  <2>2. [q.seen EXCEPT !.status = "pending_approval"] \in Build
    BY <1>0 DEF Request, Build, Status
  <2>3. p = [q EXCEPT !.pc = l, !.seen = [q.seen EXCEPT !.status = "pending_approval"]]
    BY <1>0 DEF Request
  <2>4. l \in Labels
    BY <2>1 DEF AfterSubmit, Labels
  <2>5. p \in Request /\ p.bld \in BuildIds
    BY <1>0, <1>8, <2>2, <2>3, <2>4 DEF Submit, At, HasBuild, Request
  <2>6. req' \in [Requests -> Request] /\ HasBuild'
    BY <2>1, <2>5, ContinueType
  <2>7. builds' \in [BuildIds -> Build]
    BY <1>0, <1>8, RowTypes DEF Submit, TypeOK, Request, Status
  <2> QED
    BY <1>8, <2>6, <2>7 DEF Submit, TypeOK, history
<1>9. CASE Approve(r)
  <2> DEFINE l == IF q.op = "publish" /\ q.src = NoBuild THEN "route" ELSE "promote"
             p == [q EXCEPT !.pc = l, !.seen.status = "approved"]
  <2>1. [q.seen EXCEPT !.status = "approved"] \in Build
    BY <1>0 DEF Request, Build, Status
  <2>2. p = [q EXCEPT !.pc = l, !.seen = [q.seen EXCEPT !.status = "approved"]]
    BY <1>0 DEF Request
  <2>3. p \in Request /\ p.bld \in BuildIds
    BY <1>0, <1>9, <2>1, <2>2 DEF Approve, At, HasBuild, Request, Labels
  <2>4. req' \in [Requests -> Request] /\ HasBuild'
    BY <1>9, <2>3, ContinueType DEF Approve
  <2>5. builds' \in [BuildIds -> Build]
    BY <1>0, <1>9, RowTypes DEF Approve, TypeOK, Request, Status
  <2> QED
    BY <1>9, <2>4, <2>5 DEF Approve, TypeOK, history
<1>10. CASE Route(r)
  <2>1. PICK l \in {"done", "promote", "diff"} :
          Continue(r, [q EXCEPT !.pc = l, !.main = TheMain])
    BY <1>10 DEF Route
  <2>2. [q EXCEPT !.pc = l, !.main = TheMain] \in Request
    BY <1>0, TheMainType DEF Request, Labels
  <2>3. [q EXCEPT !.pc = l, !.main = TheMain].bld \in BuildIds
    BY <1>0, <1>10 DEF Route, At, HasBuild, Request
  <2>4. req' \in [Requests -> Request] /\ HasBuild'
    BY <2>1, <2>2, <2>3, ContinueType
  <2> QED
    BY <1>10, <2>4 DEF Route, TypeOK, rows, history
<1>11. CASE Diff(r)
  <2> DEFINE f == Contents(q.seen.base)
             t == Reread(q.seen.contents, Contents(q.bld))
             l == IF mains = {q.main} THEN "insert" ELSE "done"
             p == [q EXCEPT !.pc = l, !.src = q.bld, !.from = f, !.to = t]
  <2>1. f \in Snapshot /\ t \in Snapshot
    <3>1. q.seen.base \in BuildIds \cup {NoBuild} /\ q.seen.contents \in Snapshot
          /\ q.bld \in BuildIds \cup {NoBuild}
      BY <1>0 DEF Request, Build
    <3> QED
      BY <3>1, ContentsType, SnapshotOps
  <2>2. l \in Labels /\ l \in {"insert", "done"}
    BY DEF Labels
  <2> HIDE DEF f, t, l
  <2>3. p \in Request /\ p.pc = l
    BY <1>0, <2>1, <2>2 DEF Request
  <2>4. Continue(r, p)
    BY <1>11 DEF Diff, f, t, l
  <2>5. req' \in [Requests -> Request] /\ HasBuild'
    BY <2>2, <2>3, <2>4, ContinueType
  <2> QED
    BY <1>11, <2>5 DEF Diff, TypeOK, rows, history
<1>12. CASE Apply(r)
  <2>1. q.bld \in BuildIds
    BY <1>12 DEF Apply, At, HasBuild
  <2>2. Merge(q.from, q.to, builds[q.bld].contents) \in Snapshot
    BY <1>0, <2>1, SnapshotOps DEF TypeOK, Build, Request
  <2>3. builds' = [builds EXCEPT ![q.bld].contents = Merge(q.from, q.to, builds[q.bld].contents)]
    BY <1>12, <2>1 DEF Apply, TypeOK, Build
  <2>4. builds' \in [BuildIds -> Build]
    BY <2>1, <2>2, <2>3, RowTypes DEF TypeOK
  <2>5. [q EXCEPT !.pc = "approve"] \in Request /\ [q EXCEPT !.pc = "approve"].bld \in BuildIds
    BY <1>0, <2>1 DEF Request, Labels
  <2>6. req' \in [Requests -> Request] /\ HasBuild'
    BY <1>12, <2>5, ContinueType DEF Apply
  <2> QED
    BY <1>12, <2>4, <2>6 DEF Apply, TypeOK, history
<1>13. CASE Promote(r)
  <2> DEFINE p == [q EXCEPT !.pc = "commit", !.cut = mains \ {q.bld}]
  <2>1. p \in Request /\ p.bld \in BuildIds
    BY <1>0, <1>13 DEF Promote, At, HasBuild, Request, Labels, TypeOK
  <2>2. req' \in [Requests -> Request] /\ HasBuild'
    BY <1>13, <2>1, ContinueType DEF Promote
  <2> QED
    BY <1>13, <2>2 DEF Promote, TypeOK, rows, history
<1>14. CASE Commit(r)
  <2>1. q.bld \in BuildIds
    BY <1>14 DEF Commit, At, HasBuild
  <2>2. mains' \subseteq BuildIds /\ promoted' \subseteq BuildIds
    BY <1>14, <2>1 DEF Commit, TypeOK
  <2>3. published' \subseteq BuildIds
    BY <1>0, <1>14, <2>1 DEF Commit, TypeOK, Request
  <2> DEFINE l == IF q.item # {} THEN "refresh" ELSE "done"
  <2>4. [q EXCEPT !.pc = l] \in Request /\ [q EXCEPT !.pc = l].bld \in BuildIds
    BY <1>0, <2>1 DEF Request, Labels
  <2>5. req' \in [Requests -> Request] /\ HasBuild'
    BY <1>14, <2>4, ContinueType DEF Commit
  <2> QED
    BY <1>14, <2>2, <2>3, <2>5 DEF Commit, TypeOK
<1>15. CASE Refresh(r)
  <2>1. q.bld \in BuildIds
    BY <1>15 DEF Refresh, At, HasBuild
  <2>2. PICK l \in {"promote", "done"} :
          Continue(r, [q EXCEPT !.pc = l, !.seen = builds[q.bld], !.item = {}])
    BY <1>15 DEF Refresh
  <2> DEFINE p == [q EXCEPT !.pc = l, !.seen = builds[q.bld], !.item = {}]
  <2>3. p \in Request /\ p.bld \in BuildIds
    BY <1>0, <2>1, <2>2 DEF Request, Labels, TypeOK
  <2>4. req' \in [Requests -> Request] /\ HasBuild'
    BY <2>2, <2>3, ContinueType
  <2> QED
    BY <1>15, <2>4 DEF Refresh, TypeOK, rows, history
<1>16. CASE FinalizeFails(r)
  <2>1. q.bld \in BuildIds
    BY <1>16 DEF FinalizeFails, HasBuild
  <2>2. [q EXCEPT !.pc = "refresh"] \in Request /\ [q EXCEPT !.pc = "refresh"].bld \in BuildIds
    BY <1>0, <2>1 DEF Request, Labels
  <2>3. req' \in [Requests -> Request] /\ HasBuild'
    BY <1>16, <2>2, ContinueType DEF FinalizeFails
  <2> QED
    BY <1>16, <2>3 DEF FinalizeFails, TypeOK, rows, history
<1> QED
  BY <1>1, <1>2, <1>3, <1>4, <1>5, <1>6, <1>7, <1>8, <1>9, <1>10, <1>11, <1>12, <1>13, <1>14,
     <1>15, <1>16
  DEF Advance

LEMMA NextTypeInv == TypeInv /\ [Next]_vars => TypeInv'
<1> SUFFICES ASSUME TypeInv, [Next]_vars PROVE TypeInv'
  OBVIOUS
<1>1. ASSUME NEW r \in Requests, Crash(r) PROVE TypeInv'
  BY <1>1, DoneType DEF Crash, TypeInv, TypeOK, rows, history
<1>2. CASE UNCHANGED vars
  BY <1>2 DEF vars, TypeInv, TypeOK, HasBuild
<1> QED
  BY <1>1, <1>2, StartTypeInv, AdvanceTypeInv DEF Next

\* The rows and the requests keep their types, and a request past its lookups
\* always has a build to work on.
THEOREM TypeCorrect == Spec => []TypeOK
<1>1. Spec => []TypeInv
  BY InitTypeInv, NextTypeInv, PTL DEF Spec
<1>2. TypeInv => TypeOK
  BY DEF TypeInv
<1> QED
  BY <1>1, <1>2, PTL
-----------------------------------------------------------------------------
\* Only the last step of promote_build changes which builds are main, only its
\* first leads there, and no request touches another's local state.
LEMMA QuietStep ==
  ASSUME TypeInv, NEW r \in Requests, Start(r) \/ Advance(r) \/ Crash(r),
         ~Promote(r), ~Commit(r)
  PROVE  /\ UNCHANGED <<mains, promoted>>
         /\ req'[r].pc # "commit"
         /\ \A s \in Requests \ {r} : req'[s] = req[s]
<1> DEFINE q == req[r]
<1>0. q \in Request /\ req \in [Requests -> Request]
  BY DEF TypeInv, TypeOK
<1>1. ASSUME NEW p, Continue(r, p)
      PROVE  /\ req'[r].pc = p.pc
             /\ \A s \in Requests \ {r} : req'[s] = req[s]
  BY <1>0, <1>1 DEF Continue, Resting
<1>2. ASSUME NEW o, NEW b, NEW l \in Labels \ {"commit"}, Load(r, o, b, l)
      PROVE  /\ req'[r].pc # "commit"
             /\ \A s \in Requests \ {r} : req'[s] = req[s]
  BY <1>0, <1>2 DEF Load, Continue, Resting
<1>4. CASE Start(r)
  <2>1. UNCHANGED <<mains, promoted>>
    BY <1>4 DEF Start, StartOpen, StartSave, StartAccept, StartDelete, StartEdit, StartSubmit, StartReject,
                StartPublish, StartLearn, StartRollback, Load, rows, history
  <2>2. CASE StartOpen(r) \/ StartSave(r)
    BY <1>0, <2>1, <2>2 DEF StartOpen, StartSave, Continue, Resting
  <2>3. ASSUME NEW i \in Ins, StartDelete(r, i)
        PROVE  req'[r].pc # "commit" /\ \A s \in Requests \ {r} : req'[s] = req[s]
    BY <1>0, <2>3 DEF StartDelete, Continue, Resting
  <2>4. ASSUME NEW b \in BuildIds, StartRollback(r, b)
        PROVE  req'[r].pc # "commit" /\ \A s \in Requests \ {r} : req'[s] = req[s]
    BY <1>0, <2>4 DEF StartRollback, Continue, Resting
  <2>5. ASSUME NEW b \in BuildIds,
               StartEdit(r, b) \/ StartSubmit(r, b) \/ StartReject(r, b)
                 \/ StartPublish(r, b) \/ StartLearn(r, b)
        PROVE  req'[r].pc # "commit" /\ \A s \in Requests \ {r} : req'[s] = req[s]
    BY <1>2, <2>5
    DEF StartEdit, StartSubmit, StartReject, StartPublish, StartLearn, Labels
  <2>6. ASSUME NEW b \in BuildIds, NEW i \in Ins, NEW v \in Ver, StartAccept(r, b, i, v)
        PROVE  req'[r].pc # "commit" /\ \A s \in Requests \ {r} : req'[s] = req[s]
    <3> DEFINE p == [Resting("insert") EXCEPT !.op = "accept", !.to = [Empty EXCEPT ![i] = v]]
    <3>1. Continue(r, p) /\ p.pc = "insert"
      BY <2>6 DEF StartAccept, Resting
    <3> QED BY <1>1, <3>1
  <2> QED BY <1>4, <2>1, <2>2, <2>3, <2>4, <2>5, <2>6 DEF Start
<1>5. CASE Advance(r)
  <2>1. UNCHANGED <<mains, promoted>>
    BY <1>5 DEF Advance, FindDraft, Insert, Copy, Edit, Add, Reject, Filter, Submit, Approve,
                Route, Diff, Apply, Refresh, FinalizeFails, rows, history
  <2>2. req'[r].pc # "commit" /\ \A s \in Requests \ {r} : req'[s] = req[s]
    <3>1. CASE FindDraft(r)
      <4>1. /\ [q EXCEPT !.pc = "insert"].pc = "insert"
            /\ \A b \in BuildIds : [q EXCEPT !.pc = "add", !.bld = b, !.seen = builds[b]].pc = "add"
        BY <1>0 DEF Request
      <4> QED BY <1>1, <3>1, <4>1 DEF FindDraft, SharedDrafts
    <3>2. CASE Insert(r)
      <4>1. PICK b, n : Continue(r, [q EXCEPT !.pc = "copy", !.bld = b, !.seen = n])
        BY <3>2 DEF Insert
      <4> DEFINE p == [q EXCEPT !.pc = "copy", !.bld = b, !.seen = n]
      <4>2. p.pc = "copy"
        BY <1>0 DEF Request
      <4> QED BY ONLY <1>1, <4>1, <4>2
    <3>3. CASE Copy(r)
      <4>1. AfterCopy(q.op) # "commit" /\ Resting("done").pc # "commit"
        BY DEF AfterCopy, Resting
      <4>2. \A n : [q EXCEPT !.pc = AfterCopy(q.op), !.seen.base = n].pc = AfterCopy(q.op)
        BY <1>0 DEF Request
      <4>3. \/ Continue(r, Resting("done"))
            \/ \E n : Continue(r, [q EXCEPT !.pc = AfterCopy(q.op), !.seen.base = n])
        BY <3>3 DEF Copy
      <4> QED BY <1>1, <4>1, <4>2, <4>3
    <3>4. CASE Edit(r) \/ Reject(r)
      BY <1>1, <3>4 DEF Edit, Reject, Resting
    <3>5. CASE Add(r) \/ Apply(r)
      <4>1. [q EXCEPT !.pc = "submit"].pc = "submit" /\ [q EXCEPT !.pc = "approve"].pc = "approve"
        BY <1>0 DEF Request
      <4> QED BY <1>1, <3>5, <4>1 DEF Add, Apply
    <3>6. CASE Filter(r)
      <4>1. \A l : [q EXCEPT !.pc = l].pc = l
        BY <1>0 DEF Request
      <4> QED BY <1>1, <3>6, <4>1 DEF Filter
    <3>7. CASE Submit(r)
      <4>1. PICK l \in AfterSubmit(q.op) :
              Continue(r, [q EXCEPT !.pc = l, !.seen.status = "pending_approval"])
        BY <3>7 DEF Submit
      <4> DEFINE p == [q EXCEPT !.pc = l, !.seen.status = "pending_approval"]
      <4>2. p.pc = l
        BY <1>0 DEF Request
      <4>3. l # "commit"
        BY DEF AfterSubmit
      <4> QED BY ONLY <1>1, <4>1, <4>2, <4>3
    <3>8. CASE Approve(r)
      <4>1. PICK l \in {"route", "promote"} :
              Continue(r, [q EXCEPT !.pc = l, !.seen.status = "approved"])
        BY <3>8 DEF Approve
      <4> DEFINE p == [q EXCEPT !.pc = l, !.seen.status = "approved"]
      <4>2. p.pc = l
        BY <1>0 DEF Request
      <4> QED BY ONLY <1>1, <4>1, <4>2
    <3>9. CASE Route(r)
      <4>1. PICK l \in {"done", "promote", "diff"} : Continue(r, [q EXCEPT !.pc = l, !.main = TheMain])
        BY <3>9 DEF Route
      <4> DEFINE p == [q EXCEPT !.pc = l, !.main = TheMain]
      <4>2. p.pc = l
        BY <1>0 DEF Request
      <4> QED BY ONLY <1>1, <4>1, <4>2
    <3>10. CASE Diff(r)
      <4>1. PICK l \in {"insert", "done"} :
              \E b, f, t : Continue(r, [q EXCEPT !.pc = l, !.src = b, !.from = f, !.to = t])
        BY <3>10 DEF Diff
      <4>2. PICK b, f, t : Continue(r, [q EXCEPT !.pc = l, !.src = b, !.from = f, !.to = t])
        BY <4>1
      <4> DEFINE p == [q EXCEPT !.pc = l, !.src = b, !.from = f, !.to = t]
      <4>3. p.pc = l
        BY <1>0 DEF Request
      <4> QED BY ONLY <1>1, <4>2, <4>3
    <3>11. CASE Refresh(r)
      <4>1. PICK l \in {"promote", "done"} :
              Continue(r, [q EXCEPT !.pc = l, !.seen = builds[q.bld], !.item = {}])
        BY <3>11 DEF Refresh
      <4> DEFINE p == [q EXCEPT !.pc = l, !.seen = builds[q.bld], !.item = {}]
      <4>2. p.pc = l
        BY <1>0 DEF Request
      <4> QED BY ONLY <1>1, <4>1, <4>2
    <3>12. CASE FinalizeFails(r)
      <4>1. [q EXCEPT !.pc = "refresh"].pc = "refresh"
        BY <1>0 DEF Request
      <4> QED BY <1>1, <3>12, <4>1 DEF FinalizeFails
    <3> QED
      BY <1>5, <3>1, <3>2, <3>3, <3>4, <3>5, <3>6, <3>7, <3>8, <3>9, <3>10, <3>11, <3>12
      DEF Advance
  <2> QED BY <2>1, <2>2
<1>6. CASE Crash(r)
  <2>1. UNCHANGED <<mains, promoted>> /\ Continue(r, Resting("done")) /\ Resting("done").pc # "commit"
    BY <1>6 DEF Crash, Resting, rows, history
  <2> QED BY <1>1, <2>1
<1> QED BY <1>4, <1>5, <1>6

\* A step of the specification is a quiet step or one of promote_build's two.
LEMMA StepCases ==
  ASSUME TypeInv, [Next]_vars
  PROVE  \/ UNCHANGED vars
         \/ \E r \in Requests :
              \/ Promote(r)
              \/ Commit(r)
              \/ /\ Start(r) \/ Advance(r) \/ Crash(r)
                 /\ UNCHANGED <<mains, promoted>>
                 /\ req'[r].pc # "commit"
                 /\ \A s \in Requests \ {r} : req'[s] = req[s]
BY QuietStep DEF Next

\* An organization that has a live build keeps one, whatever requests race or
\* die and on either database.
THEOREM MainStays == Spec => MainNeverVanishes
<1>1. TypeInv /\ [Next]_vars => (mains # {} => mains' # {})
  <2> SUFFICES ASSUME TypeInv, [Next]_vars, mains # {} PROVE mains' # {}
    OBVIOUS
  <2> QED
    BY StepCases DEF vars, Promote, Commit, rows
<1>2. Spec => []TypeInv
  BY InitTypeInv, NextTypeInv, PTL DEF Spec
<1> QED
  BY <1>1, <1>2, PTL DEF Spec, MainNeverVanishes

\* Bases are live builds or none: they are read from the main build only, and
\* every main build has its history entry.
BaseInv ==
  /\ mains \subseteq promoted
  /\ BaseWasLive

\* The base of a build is only ever set to the main build, on creation.
LEMMA BaseStep ==
  ASSUME TypeInv, NEW r \in Requests, Start(r) \/ Advance(r) \/ Crash(r), NEW b \in BuildIds
  PROVE  builds'[b].base \in {builds[b].base, NoBuild, TheMain}
<1> DEFINE q == req[r]
<1>0. builds \in [BuildIds -> Build] /\ q \in Request
  BY DEF TypeInv, TypeOK
<1>1. CASE Start(r) \/ Crash(r)
  BY <1>1 DEF Start, StartOpen, StartSave, StartAccept, StartDelete, StartEdit, StartSubmit, StartReject,
              StartPublish, StartLearn, StartRollback, Load, Crash, rows
<1>2. CASE FindDraft(r) \/ Route(r) \/ Diff(r) \/ Promote(r) \/ Commit(r) \/ Refresh(r)
           \/ FinalizeFails(r)
  BY <1>2 DEF FindDraft, Route, Diff, Promote, Commit, Refresh, FinalizeFails, rows
<1>3. CASE Insert(r)
  <2>1. PICK x \in BuildIds, s \in SourcesOf(q.op) : builds' = [builds EXCEPT ![x] = NewDraft(s)]
    BY <1>3 DEF Insert
  <2>2. NewDraft(s).base = NoBuild
    BY DEF NewDraft, Absent
  <2> QED BY <1>0, <2>1, <2>2
<1>4. CASE Copy(r)
  <2>1. CASE UNCHANGED builds
    BY <2>1
  <2>2. ASSUME NEW base \in {NoBuild, TheMain}, NEW c,
               builds' = [builds EXCEPT ![q.bld].base = base, ![q.bld].contents = c]
        PROVE  builds'[b].base \in {builds[b].base, NoBuild, TheMain}
    BY <1>0, <2>2 DEF Build
  <2>3. \/ UNCHANGED builds
        \/ \E base \in {NoBuild, TheMain} : \E c :
             builds' = [builds EXCEPT ![q.bld].base = base, ![q.bld].contents = c]
    BY <1>4 DEF Copy
  <2> QED BY <2>1, <2>2, <2>3
<1>5. CASE Edit(r) \/ Add(r)
  <2>1. PICK i, v : Write(q.bld, i, v)
    BY <1>5 DEF Edit, Add
  <2> QED BY <1>0, <2>1 DEF Write, Build
<1>6. CASE Reject(r) \/ Submit(r) \/ Approve(r)
  <2>1. PICK t : builds' = [builds EXCEPT ![q.bld].status = t]
    BY <1>6 DEF Reject, Submit, Approve
  <2> QED BY <1>0, <2>1 DEF Build
<1>7. CASE Filter(r) \/ Apply(r)
  <2>1. PICK c : builds' = [builds EXCEPT ![q.bld].contents = c]
    BY <1>7 DEF Filter, Apply
  <2> QED BY <1>0, <2>1 DEF Build
<1> QED BY <1>1, <1>2, <1>3, <1>4, <1>5, <1>6, <1>7 DEF Advance

\* A build is never diffed against a build that was never live, on either
\* database and wherever requests stop.
THEOREM BasesWereLive == Spec => []BaseWasLive
<1>1. Init => BaseInv
  <2> SUFFICES ASSUME Init PROVE BaseInv
    OBVIOUS
  <2>1. Absent.base = NoBuild /\ \A s : FirstMain(s).base = NoBuild
    BY DEF Absent, FirstMain, NewDraft
  <2> QED BY <2>1 DEF Init, BaseInv, BaseWasLive
<1>2. TypeInv /\ BaseInv /\ [Next]_vars => BaseInv'
  <2> SUFFICES ASSUME TypeInv, BaseInv, [Next]_vars PROVE BaseInv'
    OBVIOUS
  <2>1. mains' \subseteq promoted' /\ promoted \subseteq promoted'
    BY StepCases DEF BaseInv, vars, Promote, Commit, rows, history
  <2>2. TheMain \in promoted \cup {NoBuild}
    <3>1. CASE \E m \in mains : mains = {m}
      BY <3>1 DEF TheMain, BaseInv
    <3>2. CASE ~\E m \in mains : mains = {m}
      BY <3>2 DEF TheMain
    <3> QED BY <3>1, <3>2
  <2>3. ASSUME NEW b \in BuildIds
        PROVE  builds'[b].base \in {builds[b].base, NoBuild, TheMain}
    BY BaseStep DEF Next, vars
  <2> QED BY <2>1, <2>2, <2>3 DEF BaseInv, BaseWasLive
<1>3. Spec => []TypeInv
  BY InitTypeInv, NextTypeInv, PTL DEF Spec
<1>4. BaseInv => BaseWasLive
  BY DEF BaseInv
<1> QED
  BY <1>1, <1>2, <1>3, <1>4, PTL DEF Spec
-----------------------------------------------------------------------------
\* What makes one main build enough of an invariant: a single request promotes,
\* and it has cleared every other main build.
OneMainInv ==
  /\ AtMostOneMain
  /\ \A r, s \in Requests : At(r, "commit") /\ At(s, "commit") => r = s
  /\ \A r \in Requests : At(r, "commit") => mains \ req[r].cut \subseteq {req[r].bld}

\* With one writer at a time, promote_build's two statements keep at most one
\* main build.  (Under READ COMMITTED they do not: run builds_two_mains.)
THEOREM OneMainOnSQLite == Isolation = "sqlite" => (Spec => []AtMostOneMain)
<1> SUFFICES ASSUME Isolation = "sqlite" PROVE Spec => []AtMostOneMain
  OBVIOUS
<1>1. Init => OneMainInv
  BY DEF Init, OneMainInv, AtMostOneMain, At, Resting
<1>2. TypeInv /\ OneMainInv /\ [Next]_vars => OneMainInv'
  <2> SUFFICES ASSUME TypeInv, OneMainInv, [Next]_vars PROVE OneMainInv'
    OBVIOUS
  <2>1. CASE UNCHANGED vars
    BY <2>1 DEF vars, OneMainInv, AtMostOneMain, At
  <2>2. ASSUME NEW r \in Requests, UNCHANGED mains, req'[r].pc # "commit",
               \A s \in Requests \ {r} : req'[s] = req[s]
        PROVE  OneMainInv'
    BY <2>2 DEF OneMainInv, AtMostOneMain, At
  <2>3. ASSUME NEW r \in Requests, Promote(r) PROVE OneMainInv'
    <3> DEFINE p == [req[r] EXCEPT !.pc = "commit", !.cut = mains \ {req[r].bld}]
    <3>1. p.pc = "commit" /\ p.cut = mains \ {req[r].bld} /\ p.bld = req[r].bld
      BY DEF TypeInv, TypeOK, Request
    <3>2. UNCHANGED mains /\ req' = [req EXCEPT ![r] = p]
      BY <2>3, <3>1 DEF Promote, Continue, rows
    <3>3. \A s \in Requests \ {r} : ~At(s, "commit")
      BY <2>3 DEF Promote, WriterFree, At
    <3>4. req'[r] = p /\ \A s \in Requests \ {r} : req'[s] = req[s]
      BY <3>2 DEF TypeInv, TypeOK
    <3> QED BY <3>1, <3>2, <3>3, <3>4 DEF OneMainInv, AtMostOneMain, At
  <2>4. ASSUME NEW r \in Requests, Commit(r) PROVE OneMainInv'
    <3>1. mains' = {req[r].bld}
      BY <2>4 DEF Commit, OneMainInv
    <3>2. /\ req'[r].pc # "commit"
          /\ \A s \in Requests \ {r} : req'[s] = req[s]
      <4> DEFINE l == IF req[r].item # {} THEN "refresh" ELSE "done"
      <4>1. [req[r] EXCEPT !.pc = l].pc = l
        BY DEF TypeInv, TypeOK, Request
      <4>2. Continue(r, [req[r] EXCEPT !.pc = l])
        BY <2>4 DEF Commit
      <4> HIDE DEF l
      <4>3. req'[r].pc = l /\ \A s \in Requests \ {r} : req'[s] = req[s]
        BY <4>1, <4>2, ContinueShape
      <4> QED BY <4>3 DEF l
    <3>3. \A s \in Requests : req'[s].pc # "commit"
      BY <2>4, <3>2 DEF Commit, OneMainInv, At
    <3> QED BY <3>1, <3>3 DEF OneMainInv, AtMostOneMain, At
  <2> QED BY <2>1, <2>2, <2>3, <2>4, StepCases
<1>3. Spec => []TypeInv
  BY InitTypeInv, NextTypeInv, PTL DEF Spec
<1>4. OneMainInv => AtMostOneMain
  BY DEF OneMainInv
<1> QED
  BY <1>1, <1>2, <1>3, <1>4, PTL DEF Spec
-----------------------------------------------------------------------------
\* Without overlapping requests, the build a request has loaded is as the request
\* believes it to be: still open until it approves it, approved from then on.
Open == {"copy", "add", "edit", "reject", "filter", "submit", "apply", "approve"}
Settled == {"route", "diff", "promote", "commit"}

AsBelieved(r) ==
  /\ req[r].pc \in Open => builds[req[r].bld].status \in Editable
  /\ req[r].pc \in Settled => builds[req[r].bld].status = "approved"

SerialInv ==
  /\ \A r, s \in Requests : InFlight(r) /\ InFlight(s) => r = s
  /\ \A r \in Requests : AsBelieved(r)
  /\ LiveIsApproved

\* What a step of r keeps: approved builds as they are, r's belief, and the
\* status of everything it puts in front of the agents.
StepKeeps(r) ==
  /\ \A b \in BuildIds : builds[b].status = "approved" => builds'[b] = builds[b]
  /\ AsBelieved(r)'
  /\ \A b \in mains' \ mains : builds[b].status = "approved"

\* Updating an open build leaves the approved ones alone.
LEMMA OpenBuildUpdate ==
  ASSUME TypeInv, NEW x \in BuildIds, builds[x].status # "approved", NEW row,
         builds' = [builds EXCEPT ![x] = row]
  PROVE  /\ \A b \in BuildIds : builds[b].status = "approved" => builds'[b] = builds[b]
         /\ builds'[x] = row
BY DEF TypeInv, TypeOK

LEMMA StartKeeps ==
  ASSUME TypeInv, NEW r \in Requests, Start(r)
  PROVE  StepKeeps(r)
<1>1. UNCHANGED <<builds, mains>>
  BY DEF Start, StartOpen, StartSave, StartAccept, StartDelete, StartEdit, StartSubmit, StartReject,
         StartPublish, StartLearn, StartRollback, Load, rows, history
<1>2. AsBelieved(r)'
  <2>1. ASSUME NEW o, NEW b \in BuildIds, NEW l \in Open, Load(r, o, b, l),
               builds[b].status \in Editable
        PROVE  AsBelieved(r)'
    <3> DEFINE p == [Resting(l) EXCEPT !.op = o, !.bld = b, !.seen = builds[b]]
    <3>1. p.pc = l /\ p.bld = b
      BY DEF Resting
    <3>2. Continue(r, p)
      BY <2>1 DEF Load
    <3>3. req'[r].pc = l /\ req'[r].bld = b
      BY <3>1, <3>2, ContinueShape DEF Open
    <3> QED BY <1>1, <2>1, <3>3 DEF AsBelieved, Open, Settled
  <2>2. ASSUME NEW p, Continue(r, p), p.pc \in {"insert", "draft"}
        PROVE  AsBelieved(r)'
    BY <2>2, ContinueShape DEF AsBelieved, Open, Settled
  <2>3. CASE StartOpen(r) \/ StartSave(r)
    BY <2>2, <2>3 DEF StartOpen, StartSave, Resting
  <2>4. ASSUME NEW i \in Ins, StartDelete(r, i) PROVE AsBelieved(r)'
    BY <2>2, <2>4 DEF StartDelete, Resting
  <2>5. ASSUME NEW t \in BuildIds, StartRollback(r, t) PROVE AsBelieved(r)'
    BY <2>2, <2>5 DEF StartRollback, Resting
  <2>6. ASSUME NEW b \in BuildIds,
               StartEdit(r, b) \/ StartSubmit(r, b) \/ StartReject(r, b)
                 \/ StartPublish(r, b) \/ StartLearn(r, b)
        PROVE  AsBelieved(r)'
    BY <2>1, <2>6 DEF StartEdit, StartSubmit, StartReject, StartPublish, StartLearn, Editable, Open
  <2>7. ASSUME NEW b \in BuildIds, NEW i \in Ins, NEW v \in Ver, StartAccept(r, b, i, v)
        PROVE  AsBelieved(r)'
    <3> DEFINE p == [Resting("insert") EXCEPT !.op = "accept", !.to = [Empty EXCEPT ![i] = v]]
    <3>1. Continue(r, p) /\ p.pc = "insert"
      BY <2>7 DEF StartAccept, Resting
    <3> QED BY <2>2, <3>1
  <2> QED BY <2>3, <2>4, <2>5, <2>6, <2>7 DEF Start
<1> QED BY <1>1, <1>2 DEF StepKeeps

LEMMA AdvanceKeeps ==
  ASSUME TypeInv, SerialInv, NEW r \in Requests, Advance(r)
  PROVE  StepKeeps(r)
<1> DEFINE q == req[r]
<1>0. q \in Request /\ builds \in [BuildIds -> Build] /\ AsBelieved(r)
  BY DEF TypeInv, TypeOK, SerialInv
<1>1. ASSUME NEW l \in Open, q.pc = l
      PROVE  q.bld \in BuildIds /\ builds[q.bld].status \in Editable
                /\ builds[q.bld].status # "approved"
  BY <1>0, <1>1 DEF AsBelieved, TypeInv, HasBuild, Open, Editable
<1>2. ASSUME NEW p, Continue(r, p), p.pc \in {"done", "insert", "draft", "refresh"}
      PROVE  AsBelieved(r)'
  BY <1>2, ContinueShape DEF AsBelieved, Open, Settled
<1>3. ASSUME NEW p, Continue(r, p), p.pc \in Open, builds'[p.bld].status \in Editable
      PROVE  AsBelieved(r)'
  BY <1>3, ContinueShape DEF AsBelieved, Open, Settled
<1>4. ASSUME NEW p, Continue(r, p), p.pc \in Settled, builds'[p.bld].status = "approved"
      PROVE  AsBelieved(r)'
  BY <1>4, ContinueShape DEF AsBelieved, Open, Settled
<1>5. Resting("done").pc = "done"
  BY DEF Resting
<1>6. CASE FindDraft(r)
  <2>1. UNCHANGED <<builds, mains>>
    BY <1>6 DEF FindDraft, rows
  <2>2. CASE Continue(r, [q EXCEPT !.pc = "insert"])
    <3>1. [q EXCEPT !.pc = "insert"].pc = "insert"
      BY <1>0 DEF Request
    <3> QED BY <1>2, <2>1, <2>2, <3>1 DEF StepKeeps
  <2>3. ASSUME NEW b \in SharedDrafts,
               Continue(r, [q EXCEPT !.pc = "add", !.bld = b, !.seen = builds[b]])
        PROVE  StepKeeps(r)
    <3> DEFINE p == [q EXCEPT !.pc = "add", !.bld = b, !.seen = builds[b]]
    <3>1. p.pc = "add" /\ p.bld = b
      BY <1>0 DEF Request
    <3>2. builds[b].status \in Editable
      BY DEF SharedDrafts, Editable
    <3> QED BY <1>3, <2>1, <2>3, <3>1, <3>2 DEF StepKeeps, Open
  <2> QED BY <1>6, <2>2, <2>3 DEF FindDraft
<1>7. CASE Insert(r)
  <2>1. PICK b \in BuildIds, s \in SourcesOf(q.op) :
          /\ builds[b].status = "absent"
          /\ builds' = [builds EXCEPT ![b] = NewDraft(s)]
          /\ Continue(r, [q EXCEPT !.pc = "copy", !.bld = b, !.seen = NewDraft(s)])
    BY <1>7 DEF Insert
  <2> DEFINE p == [q EXCEPT !.pc = "copy", !.bld = b, !.seen = NewDraft(s)]
  <2>2. p.pc = "copy" /\ p.bld = b
    BY <1>0 DEF Request
  <2>3. /\ \A c \in BuildIds : builds[c].status = "approved" => builds'[c] = builds[c]
        /\ builds'[b] = NewDraft(s)
    BY <2>1, OpenBuildUpdate
  <2>4. NewDraft(s).status \in Editable
    BY DEF NewDraft, Absent, Editable
  <2> QED BY <1>3, <1>7, <2>1, <2>2, <2>3, <2>4 DEF StepKeeps, Open, Insert
<1>8. CASE Copy(r)
  <2>1. q.bld \in BuildIds /\ builds[q.bld].status \in Editable /\ builds[q.bld].status # "approved"
    BY <1>1, <1>8 DEF Copy, At, Open
  <2>2. CASE Continue(r, Resting("done")) /\ UNCHANGED builds
    BY <1>2, <1>5, <1>8, <2>2 DEF Copy, StepKeeps
  <2>3. ASSUME NEW base, NEW c,
               builds' = [builds EXCEPT ![q.bld].base = base, ![q.bld].contents = c],
               Continue(r, [q EXCEPT !.pc = AfterCopy(q.op), !.seen.base = base])
        PROVE  StepKeeps(r)
    <3> DEFINE p == [q EXCEPT !.pc = AfterCopy(q.op), !.seen.base = base]
               row == [builds[q.bld] EXCEPT !.base = base, !.contents = c]
    <3>1. p.pc = AfterCopy(q.op) /\ p.bld = q.bld
      BY <1>0 DEF Request
    <3>2. AfterCopy(q.op) \in Open \cup {"done"}
      BY DEF AfterCopy, Open
    <3>3. row.status = builds[q.bld].status
      BY <1>0, <2>1 DEF Build
    <3>4. builds' = [builds EXCEPT ![q.bld] = row]
      BY <1>0, <2>1, <2>3 DEF Build
    <3>5. /\ \A b \in BuildIds : builds[b].status = "approved" => builds'[b] = builds[b]
          /\ builds'[q.bld].status = builds[q.bld].status
      BY <1>0, <2>1, <3>3, <3>4
    <3> HIDE DEF p
    <3> QED BY <1>2, <1>3, <1>8, <2>1, <2>3, <3>1, <3>2, <3>5 DEF StepKeeps, Copy, p
  <2> QED BY <1>8, <2>2, <2>3 DEF Copy
<1>9. CASE Edit(r) \/ Add(r)
  <2>1. q.bld \in BuildIds /\ builds[q.bld].status \in Editable /\ builds[q.bld].status # "approved"
    BY <1>1, <1>9 DEF Edit, Add, At, Open
  <2>2. PICK i, v : builds' = [builds EXCEPT ![q.bld].contents[i] = v]
    BY <1>9 DEF Edit, Add, Write
  <2>3. /\ \A b \in BuildIds : builds[b].status = "approved" => builds'[b] = builds[b]
        /\ builds'[q.bld].status = builds[q.bld].status
    BY <1>0, <2>1, <2>2 DEF Build
  <2>4. [q EXCEPT !.pc = "submit"].pc = "submit" /\ [q EXCEPT !.pc = "submit"].bld = q.bld
    BY <1>0 DEF Request
  <2>5. AsBelieved(r)'
    BY <1>2, <1>3, <1>5, <1>9, <2>1, <2>3, <2>4 DEF Edit, Add, Open
  <2> QED BY <1>9, <2>3, <2>5 DEF StepKeeps, Edit, Add
<1>10. CASE Reject(r)
  <2>1. q.bld \in BuildIds /\ builds[q.bld].status # "approved"
    BY <1>1, <1>10 DEF Reject, At, Open
  <2>2. \A b \in BuildIds : builds[b].status = "approved" => builds'[b] = builds[b]
    BY <1>0, <1>10, <2>1 DEF Build, Reject
  <2> QED BY <1>2, <1>5, <1>10, <2>2 DEF StepKeeps, Reject
<1>11. CASE Filter(r)
  <2>1. q.bld \in BuildIds /\ builds[q.bld].status \in Editable /\ builds[q.bld].status # "approved"
    BY <1>1, <1>11 DEF Filter, At, Open
  <2>2. PICK c : builds' = [builds EXCEPT ![q.bld].contents = c]
    BY <1>11 DEF Filter
  <2>3. /\ \A b \in BuildIds : builds[b].status = "approved" => builds'[b] = builds[b]
        /\ builds'[q.bld].status = builds[q.bld].status
    BY <1>0, <2>1, <2>2 DEF Build
  <2>4. PICK l \in {"submit", "approve"} : Continue(r, [q EXCEPT !.pc = l])
    BY <1>11 DEF Filter
  <2>5. [q EXCEPT !.pc = l].pc = l /\ [q EXCEPT !.pc = l].bld = q.bld
    BY <1>0 DEF Request
  <2> QED BY <1>3, <1>11, <2>1, <2>3, <2>4, <2>5 DEF StepKeeps, Filter, Open
<1>12. CASE Submit(r)
  <2>1. q.bld \in BuildIds /\ builds[q.bld].status # "approved"
    BY <1>1, <1>12 DEF Submit, At, Open
  <2>2. /\ \A b \in BuildIds : builds[b].status = "approved" => builds'[b] = builds[b]
        /\ builds'[q.bld].status \in Editable
    BY <1>0, <1>12, <2>1 DEF Build, Submit, Editable
  <2>3. PICK l \in AfterSubmit(q.op) :
          Continue(r, [q EXCEPT !.pc = l, !.seen.status = "pending_approval"])
    BY <1>12 DEF Submit
  <2> DEFINE p == [q EXCEPT !.pc = l, !.seen.status = "pending_approval"]
  <2>4. p.pc = l /\ p.bld = q.bld
    BY <1>0 DEF Request
  <2>5. l \in {"done", "approve", "refresh"}
    BY DEF AfterSubmit
  <2>6. AsBelieved(r)'
    BY <1>2, <1>3, <2>2, <2>3, <2>4, <2>5 DEF Open
  <2> QED BY <1>12, <2>2, <2>6 DEF StepKeeps, Submit
<1>13. CASE Approve(r)
  <2>1. q.bld \in BuildIds /\ builds[q.bld].status # "approved"
    BY <1>1, <1>13 DEF Approve, At, Open
  <2>2. /\ \A b \in BuildIds : builds[b].status = "approved" => builds'[b] = builds[b]
        /\ builds'[q.bld].status = "approved"
    BY <1>0, <1>13, <2>1 DEF Build, Approve
  <2>3. PICK l \in {"route", "promote"} :
          Continue(r, [q EXCEPT !.pc = l, !.seen.status = "approved"])
    BY <1>13 DEF Approve
  <2> DEFINE p == [q EXCEPT !.pc = l, !.seen.status = "approved"]
  <2>4. p.pc = l /\ p.bld = q.bld
    BY <1>0 DEF Request
  <2>5. AsBelieved(r)'
    BY <1>4, <2>2, <2>3, <2>4 DEF Settled
  <2> QED BY <1>13, <2>2, <2>5 DEF StepKeeps, Approve
<1>14. CASE Route(r)
  <2>1. builds[q.bld].status = "approved" /\ UNCHANGED <<builds, mains>>
    BY <1>0, <1>14 DEF Route, At, AsBelieved, Settled, rows
  <2>2. PICK l \in {"done", "promote", "diff"} : Continue(r, [q EXCEPT !.pc = l, !.main = TheMain])
    BY <1>14 DEF Route
  <2> DEFINE p == [q EXCEPT !.pc = l, !.main = TheMain]
  <2>3. p.pc = l /\ p.bld = q.bld
    BY <1>0 DEF Request
  <2>4. AsBelieved(r)'
    BY <1>2, <1>4, <2>1, <2>2, <2>3 DEF Settled
  <2> QED BY <2>1, <2>4 DEF StepKeeps
<1>15. CASE Diff(r)
  <2>1. PICK l \in {"insert", "done"} :
          \E b, f, t : Continue(r, [q EXCEPT !.pc = l, !.src = b, !.from = f, !.to = t])
    BY <1>15 DEF Diff
  <2>2. PICK b, f, t : Continue(r, [q EXCEPT !.pc = l, !.src = b, !.from = f, !.to = t])
    BY <2>1
  <2> DEFINE p == [q EXCEPT !.pc = l, !.src = b, !.from = f, !.to = t]
  <2>3. p.pc = l
    BY <1>0 DEF Request
  <2>4. AsBelieved(r)'
    BY <1>2, <2>2, <2>3
  <2> QED BY <1>15, <2>4 DEF StepKeeps, Diff, rows
<1>16. CASE Apply(r)
  <2>1. q.bld \in BuildIds /\ builds[q.bld].status \in Editable /\ builds[q.bld].status # "approved"
    BY <1>1, <1>16 DEF Apply, At, Open
  <2>2. PICK c : builds' = [builds EXCEPT ![q.bld].contents = c]
    BY <1>16 DEF Apply
  <2>3. /\ \A b \in BuildIds : builds[b].status = "approved" => builds'[b] = builds[b]
        /\ builds'[q.bld].status = builds[q.bld].status
    BY <1>0, <2>1, <2>2 DEF Build
  <2>4. [q EXCEPT !.pc = "approve"].pc = "approve" /\ [q EXCEPT !.pc = "approve"].bld = q.bld
    BY <1>0 DEF Request
  <2> QED BY <1>3, <1>16, <2>1, <2>3, <2>4 DEF StepKeeps, Apply, Open
<1>17. CASE Promote(r)
  <2>1. builds[q.bld].status = "approved" /\ UNCHANGED <<builds, mains>>
    BY <1>0, <1>17 DEF Promote, At, AsBelieved, Settled, rows
  <2> DEFINE p == [q EXCEPT !.pc = "commit", !.cut = mains \ {q.bld}]
  <2>2. p.pc = "commit" /\ p.bld = q.bld
    BY <1>0 DEF Request
  <2>3. AsBelieved(r)'
    BY <1>4, <1>17, <2>1, <2>2 DEF Settled, Promote
  <2> QED BY <2>1, <2>3 DEF StepKeeps
<1>18. CASE Commit(r)
  <2>1. builds[q.bld].status = "approved" /\ UNCHANGED builds
    BY <1>0, <1>18 DEF Commit, At, AsBelieved, Settled
  <2> DEFINE l == IF q.item # {} THEN "refresh" ELSE "done"
  <2>2. [q EXCEPT !.pc = l].pc = l
    BY <1>0 DEF Request
  <2>3. Continue(r, [q EXCEPT !.pc = l]) /\ l \in {"refresh", "done"}
    BY <1>18 DEF Commit
  <2> HIDE DEF l
  <2>4. AsBelieved(r)'
    BY <1>2, <2>2, <2>3
  <2> QED BY <1>18, <2>1, <2>4 DEF StepKeeps, Commit
<1>19. CASE Refresh(r)
  <2>1. PICK l \in {"promote", "done"} :
          /\ Continue(r, [q EXCEPT !.pc = l, !.seen = builds[q.bld], !.item = {}])
          /\ l = "promote" => builds[q.bld].status = "approved"
    BY <1>19 DEF Refresh
  <2> DEFINE p == [q EXCEPT !.pc = l, !.seen = builds[q.bld], !.item = {}]
  <2>2. p.pc = l /\ p.bld = q.bld
    BY <1>0 DEF Request
  <2>3. UNCHANGED <<builds, mains>>
    BY <1>19 DEF Refresh, rows
  <2> HIDE DEF p
  <2>4. AsBelieved(r)'
    BY <1>2, <1>4, <2>1, <2>2, <2>3 DEF Settled, p
  <2> QED BY <2>3, <2>4 DEF StepKeeps
<1>20. CASE FinalizeFails(r)
  <2>1. [q EXCEPT !.pc = "refresh"].pc = "refresh"
    BY <1>0 DEF Request
  <2>2. AsBelieved(r)'
    BY <1>2, <1>20, <2>1 DEF FinalizeFails
  <2> QED BY <1>20, <2>2 DEF StepKeeps, FinalizeFails, rows
<1> QED
  BY <1>6, <1>7, <1>8, <1>9, <1>10, <1>11, <1>12, <1>13, <1>14, <1>15, <1>16, <1>17, <1>18,
     <1>19, <1>20
  DEF Advance

LEMMA SerialStep ==
  ASSUME Serial, TypeInv, SerialInv, [Next]_vars
  PROVE  /\ SerialInv'
         /\ \A b \in BuildIds : builds[b].status = "approved" => builds'[b] = builds[b]
<1>1. CASE UNCHANGED vars
  BY <1>1 DEF vars, SerialInv, InFlight, AsBelieved, LiveIsApproved
<1>2. ASSUME NEW r \in Requests, Start(r) \/ Advance(r) \/ Crash(r)
      PROVE  /\ SerialInv'
             /\ \A b \in BuildIds : builds[b].status = "approved" => builds'[b] = builds[b]
  <2>1. StepKeeps(r)
    <3>1. CASE Crash(r)
      <4>1. Resting("done").pc = "done"
        BY DEF Resting
      <4> QED BY <3>1, <4>1, ContinueShape DEF Crash, StepKeeps, AsBelieved, Open, Settled, rows
    <3> QED BY <1>2, <3>1, StartKeeps, AdvanceKeeps
  <2>2. /\ \A s \in Requests \ {r} : req'[s] = req[s]
        /\ mains' \subseteq BuildIds
    <3>1. TypeInv'
      BY NextTypeInv
    <3>2. CASE Promote(r) \/ Commit(r)
      BY <3>1, <3>2, ContinueShape DEF Promote, Commit, TypeInv, TypeOK
    <3> QED BY <1>2, <3>1, <3>2, QuietStep DEF TypeInv, TypeOK
  <2>3. \A s \in Requests \ {r} : ~InFlight(s)
    <3>1. CASE InFlight(r)
      BY <3>1 DEF SerialInv
    <3>2. CASE ~InFlight(r)
      <4>1. ~Advance(r) /\ ~Crash(r)
        BY <3>2 DEF Advance, Crash, InFlight, At, FindDraft, Insert, Copy, Edit, Add, Reject,
                    Filter, Submit, Approve, Route, Diff, Apply, Promote, Commit, Refresh,
                    FinalizeFails
      <4>2. \A o : CanStart(r, o) => \A s \in Requests : ~InFlight(s)
        BY DEF CanStart
      <4> QED
        BY <1>2, <4>1, <4>2 DEF Start, StartOpen, StartSave, StartAccept, StartDelete, StartEdit, StartSubmit,
               StartReject, StartPublish, StartLearn, StartRollback, Load
    <3> QED BY <3>1, <3>2
  <2>4. \A s \in Requests \ {r} : AsBelieved(s)' /\ ~InFlight(s)'
    BY <2>2, <2>3 DEF AsBelieved, InFlight, Open, Settled
  <2>5. LiveIsApproved'
    BY <2>1, <2>2 DEF StepKeeps, SerialInv, LiveIsApproved
  <2> QED BY <2>1, <2>4, <2>5 DEF SerialInv, StepKeeps
<1> QED BY <1>1, <1>2 DEF Next

LEMMA InitSerialInv == Init => SerialInv
<1> SUFFICES ASSUME Init PROVE SerialInv
  OBVIOUS
<1>1. \A r \in Requests : req[r].pc = "idle"
  BY DEF Init, Resting
<1>2. LiveIsApproved
  <2>1. \A s : FirstMain(s).status = "approved"
    BY DEF FirstMain, NewDraft, Absent
  <2>2. 1 \in BuildIds
    BY ConstantsAssumption DEF BuildIds
  <2> QED BY <2>1, <2>2 DEF Init, LiveIsApproved
<1> QED BY <1>1, <1>2 DEF SerialInv, InFlight, AsBelieved, Open, Settled

\* Requests that do not overlap only ever make approved builds live.
THEOREM SerialLiveIsApproved == Serial => (Spec => []LiveIsApproved)
<1> SUFFICES ASSUME Serial PROVE Spec => []LiveIsApproved
  OBVIOUS
<1>1. TypeInv /\ SerialInv /\ [Next]_vars => SerialInv'
  BY SerialStep
<1>2. SerialInv => LiveIsApproved
  BY DEF SerialInv
<1> QED
  BY <1>1, <1>2, InitSerialInv, InitTypeInv, NextTypeInv, PTL DEF Spec

\* Requests that do not overlap leave approved builds as they are, however many
\* requests died before.
THEOREM SerialApprovedIsFrozen == Serial => (Spec => ApprovedIsFrozen)
<1> SUFFICES ASSUME Serial PROVE Spec => ApprovedIsFrozen
  OBVIOUS
<1>1. TypeInv /\ SerialInv /\ [Next]_vars => SerialInv'
  BY SerialStep
<1>2. TypeInv /\ SerialInv /\ [Next]_vars
        => [\A b \in BuildIds : builds[b].status = "approved" => builds'[b] = builds[b]]_vars
  BY SerialStep
<1> QED
  BY <1>1, <1>2, InitSerialInv, InitTypeInv, NextTypeInv, PTL DEF Spec, ApprovedIsFrozen
=============================================================================
