----------------------- MODULE InstructionBuilds_mainline -----------------------
(***************************************************************************)
(* Theorems about requests that do not overlap: what goes live, and that   *)
(* InstructionBuilds implements MainLine.                                  *)
(***************************************************************************)
EXTENDS InstructionBuilds_proofs, FiniteSetTheorems

\* Who is not in flight remembers nothing.
AtRest == \A r \in Requests : ~InFlight(r) => req[r] \in {Resting("idle"), Resting("done")}

\* The operations a request at each stage may be performing.
Staged(r) ==
  /\ InFlight(r) <=> req[r].op # "none"
  /\ req[r].op # "crash"
  /\ req[r].op = "open" => req[r].pc \in {"insert", "copy"}
  /\ req[r].op \in {"edit", "reject"} => req[r].pc = req[r].op
  /\ req[r].op = "submit" => req[r].pc = "submit"
  /\ req[r].op = "learn" => req[r].pc \in {"submit", "approve", "promote", "commit"}
  /\ req[r].op = "rollback" => req[r].pc \in {"insert", "copy", "approve", "promote", "commit"}
  /\ req[r].op \in {"save", "accept"} =>
       req[r].pc \in {"draft", "insert", "copy", "add", "submit", "approve", "promote", "commit"}
  /\ req[r].op = "delete" =>
       req[r].pc \in {"draft", "insert", "copy", "add", "submit", "approve", "promote", "commit", "refresh"}
  /\ req[r].op = "publish" =>
       req[r].pc \in IF req[r].src = NoBuild
                     THEN {"filter", "submit", "approve", "route", "diff", "promote", "commit"}
                     ELSE {"insert", "copy", "apply", "approve", "promote", "commit"}
  /\ req[r].src # NoBuild => req[r].op \in {"publish", "rollback"}
  /\ req[r].item # {} => req[r].op = "delete"
  /\ req[r].pc = "draft" => req[r].bld = NoBuild
  /\ req[r].pc = "insert" => req[r].bld = IF req[r].op = "publish" THEN req[r].src ELSE NoBuild

\* What has been live is approved, and what is about to be has not been.
PastSound ==
  /\ mains \subseteq promoted
  /\ \A b \in promoted : builds[b].status = "approved"

Fresh(r) ==
  /\ req[r].pc \in Settled => req[r].bld \notin promoted
  /\ At(r, "refresh") => req[r].bld \in mains \/ req[r].bld \notin promoted
  /\ At(r, "commit") => req[r].cut = mains \ {req[r].bld}
  /\ At(r, "copy") => Contents(req[r].bld) = Empty

Returning(r) ==
  req[r].op = "rollback" =>
    /\ req[r].src \in BuildIds
    /\ builds[req[r].src].status = "approved"
    /\ ~At(r, "insert") => Holds(Contents(req[r].src)) \cap deleted = {}
    /\ ~At(r, "insert") => builds[req[r].bld].source = "rollback" /\ req[r].bld # req[r].src
    /\ req[r].pc \in {"approve", "promote", "commit"} =>
         Contents(req[r].bld) = Contents(req[r].src)

PastInv ==
  /\ AtRest /\ AtMostOneMain /\ PastSound
  /\ \A r \in Requests : Staged(r) /\ Fresh(r) /\ Returning(r)

\* The approved build r is about to make live, itself or its change.
Lands(r, b) ==
  \/ req[r].bld = b /\ ~At(r, "refresh")
  \/ req[r].src = b /\ req[r].op = "publish"

Ending(r) ==
  /\ At(r, "refresh") => req[r].bld \in mains \/ builds[req[r].bld].status \in Editable
  /\ At(r, "diff") => mains = {req[r].main}
  /\ req[r].op = "publish" /\ req[r].src # NoBuild => builds[req[r].src].status = "approved"

\* As long as nobody dies.
LandedInv ==
  /\ \A b \in BuildIds :
       builds[b].status = "approved" => b \in promoted \cup published \/ Landing(b)
  /\ \A r \in Requests : Ending(r)

\* The requests that fork a build for the one change they make.
Authors == {"save", "accept", "delete"}

Drafting(r, b) ==
  req[r].bld = b /\ req[r].op \in Authors /\ req[r].pc \in {"copy", "add", "submit"}

\* The build of r is known to have been forked from what is live.
Forked(r) ==
  \/ req[r].op \in Authors /\ req[r].pc \in {"add", "submit", "approve", "promote", "commit"}
  \/ req[r].op = "publish" /\ req[r].src = NoBuild /\ req[r].pc \in {"promote", "commit"}
  \/ /\ req[r].op = "publish" /\ req[r].src # NoBuild
     /\ req[r].pc \in {"apply", "approve", "promote", "commit"}

\* What a publishing request loaded still describes its build, until it merges
\* the change of src into a fork of what is live.
Merging(r) ==
  /\ req[r].op = "publish" /\ req[r].src = NoBuild =>
       /\ req[r].seen.base = builds[req[r].bld].base
       /\ req[r].pc \notin {"promote", "commit"} =>
            \A i \in Ins : Contents(req[r].bld)[i] \in {NoVer, req[r].seen.contents[i]}
  /\ req[r].op = "publish" /\ req[r].src # NoBuild =>
       /\ builds[req[r].src].base \in promoted
       /\ req[r].from = Contents(builds[req[r].src].base)
       /\ req[r].to = Contents(req[r].src)
       /\ At(r, "apply") => Contents(req[r].bld) = Live
       /\ req[r].pc \in {"approve", "promote", "commit"} =>
            Contents(req[r].bld) = Merge(req[r].from, req[r].to, Live)

OnLine(r) ==
  /\ req[r].op # "learn"
  /\ Forked(r) => mains = {builds[req[r].bld].base}
  /\ req[r].pc \in {"route", "diff"} => builds[req[r].bld].base \in promoted
  /\ Merging(r)

\* What the theorems on the main line are about: requests that neither overlap
\* nor die, none of which promotes a suggestion without merging it or leaves a
\* draft behind that the next save would pick up, in an organization with a main build.
Orderly ==
  /\ Serial /\ Seeded
  /\ "crash" \notin Ops /\ "learn" \notin Ops
  /\ "user" \notin OpenSources

LineInv ==
  /\ mains # {}
  /\ \A b \in BuildIds : builds[b].status = "draft" /\ builds[b].source = "user" =>
                           \E r \in Requests : Drafting(r, b)
  /\ \A b \in BuildIds : builds[b].status \in Editable =>
                           builds[b].base \in promoted \/ InMaking(b)
  /\ \A r \in Requests : OnLine(r)
-----------------------------------------------------------------------------
\* What the request r keeps while it goes on.
Keeps(r) ==
  /\ req'[r].op = req[r].op
  /\ req'[r].bld = req[r].bld
  /\ req'[r].src = req[r].src
  /\ req'[r].from = req[r].from
  /\ req'[r].to = req[r].to
  /\ req'[r].item = req[r].item

Retired(r) == req'[r] = Resting("done")

\* UPDATEs of one build, column by column.
LEMMA RowUpdates ==
  ASSUME NEW f \in [BuildIds -> Build], NEW x \in BuildIds, NEW g
  PROVE  /\ \A c : g = [f EXCEPT ![x].contents = c] =>
               /\ \A b \in BuildIds \ {x} : g[b] = f[b]
               /\ g[x].contents = c
               /\ g[x].status = f[x].status /\ g[x].base = f[x].base /\ g[x].source = f[x].source
         /\ \A v : g = [f EXCEPT ![x].status = v] =>
               /\ \A b \in BuildIds \ {x} : g[b] = f[b]
               /\ g[x].status = v
               /\ g[x].contents = f[x].contents /\ g[x].base = f[x].base /\ g[x].source = f[x].source
         /\ \A i, v : g = [f EXCEPT ![x].contents[i] = v] =>
               /\ \A b \in BuildIds \ {x} : g[b] = f[b]
               /\ g[x].contents = [f[x].contents EXCEPT ![i] = v]
               /\ g[x].status = f[x].status /\ g[x].base = f[x].base /\ g[x].source = f[x].source
         /\ \A h, c : g = [f EXCEPT ![x].base = h, ![x].contents = c] =>
               /\ \A b \in BuildIds \ {x} : g[b] = f[b]
               /\ g[x].contents = c /\ g[x].base = h
               /\ g[x].status = f[x].status /\ g[x].source = f[x].source
BY DEF Build

\* A request that goes on at stage l.
LEMMA GoesOn ==
  ASSUME TypeInv, NEW r \in Requests, NEW l, l # "done"
  PROVE  /\ Continue(r, [req[r] EXCEPT !.pc = l]) =>
              Keeps(r) /\ req'[r].pc = l /\ req'[r].seen = req[r].seen
                /\ req'[r].main = req[r].main /\ req'[r].cut = req[r].cut
         /\ \A v : Continue(r, [req[r] EXCEPT !.pc = l, !.seen.status = v]) =>
              Keeps(r) /\ req'[r].pc = l /\ req'[r].seen.base = req[r].seen.base
                /\ req'[r].seen.contents = req[r].seen.contents
         /\ \A v : Continue(r, [req[r] EXCEPT !.pc = l, !.seen.base = v]) =>
              Keeps(r) /\ req'[r].pc = l
         /\ \A v : Continue(r, [req[r] EXCEPT !.pc = l, !.main = v]) =>
              Keeps(r) /\ req'[r].pc = l /\ req'[r].main = v /\ req'[r].seen = req[r].seen
         /\ \A v : Continue(r, [req[r] EXCEPT !.pc = l, !.cut = v]) =>
              Keeps(r) /\ req'[r].pc = l /\ req'[r].cut = v /\ req'[r].seen = req[r].seen
<1> DEFINE q == req[r]
<1>1. q \in Request /\ q.seen \in Build /\ req \in [Requests -> Request]
  BY DEF TypeInv, TypeOK, Request
<1>2. ASSUME NEW p, p.pc = l, Continue(r, p) PROVE req'[r] = p
  BY <1>1, <1>2 DEF Continue
<1>3. ASSUME Continue(r, [q EXCEPT !.pc = l])
      PROVE  Keeps(r) /\ req'[r].pc = l /\ req'[r].seen = q.seen
               /\ req'[r].main = q.main /\ req'[r].cut = q.cut
  <2>1. [q EXCEPT !.pc = l].pc = l
    BY <1>1 DEF Request
  <2>2. req'[r] = [q EXCEPT !.pc = l]
    BY <1>2, <1>3, <2>1
  <2> QED BY <1>1, <2>2 DEF Keeps, Request
<1>4. ASSUME NEW v, Continue(r, [q EXCEPT !.pc = l, !.seen.status = v])
      PROVE  Keeps(r) /\ req'[r].pc = l /\ req'[r].seen.base = q.seen.base
               /\ req'[r].seen.contents = q.seen.contents
  <2> DEFINE s == [q.seen EXCEPT !.status = v]
  <2>1. [q EXCEPT !.pc = l, !.seen.status = v] = [q EXCEPT !.pc = l, !.seen = s]
    BY <1>1 DEF Request
  <2>2. [q EXCEPT !.pc = l, !.seen = s].pc = l
    BY <1>1 DEF Request
  <2>3. req'[r] = [q EXCEPT !.pc = l, !.seen = s]
    BY <1>2, <1>4, <2>1, <2>2
  <2>4. s.base = q.seen.base /\ s.contents = q.seen.contents
    BY <1>1 DEF Build
  <2> HIDE DEF s
  <2> QED BY <1>1, <2>3, <2>4 DEF Keeps, Request
<1>5. ASSUME NEW v, Continue(r, [q EXCEPT !.pc = l, !.seen.base = v])
      PROVE  Keeps(r) /\ req'[r].pc = l
  <2> DEFINE s == [q.seen EXCEPT !.base = v]
  <2>1. [q EXCEPT !.pc = l, !.seen.base = v] = [q EXCEPT !.pc = l, !.seen = s]
    BY <1>1 DEF Request
  <2> HIDE DEF s
  <2>2. [q EXCEPT !.pc = l, !.seen = s].pc = l
    BY <1>1 DEF Request
  <2>3. req'[r] = [q EXCEPT !.pc = l, !.seen = s]
    BY <1>2, <1>5, <2>1, <2>2
  <2> QED BY <1>1, <2>3 DEF Keeps, Request
<1>6. ASSUME NEW v, Continue(r, [q EXCEPT !.pc = l, !.main = v])
      PROVE  Keeps(r) /\ req'[r].pc = l /\ req'[r].main = v /\ req'[r].seen = q.seen
  <2>1. [q EXCEPT !.pc = l, !.main = v].pc = l
    BY <1>1 DEF Request
  <2>2. req'[r] = [q EXCEPT !.pc = l, !.main = v]
    BY <1>2, <1>6, <2>1
  <2> QED BY <1>1, <2>2 DEF Keeps, Request
<1>7. ASSUME NEW v, Continue(r, [q EXCEPT !.pc = l, !.cut = v])
      PROVE  Keeps(r) /\ req'[r].pc = l /\ req'[r].cut = v /\ req'[r].seen = q.seen
  <2>1. [q EXCEPT !.pc = l, !.cut = v].pc = l
    BY <1>1 DEF Request
  <2>2. req'[r] = [q EXCEPT !.pc = l, !.cut = v]
    BY <1>2, <1>7, <2>1
  <2> QED BY <1>1, <2>2 DEF Keeps, Request
<1> QED BY <1>3, <1>4, <1>5, <1>6, <1>7

LEMMA Retires ==
  ASSUME TypeInv, NEW r \in Requests, NEW p, p.pc = "done", Continue(r, p)
  PROVE  Retired(r)
BY DEF Continue, Retired, TypeInv, TypeOK

-----------------------------------------------------------------------------
\* What each step does to the rows and to its own request, field by field.
LEMMA FindDraftShape ==
  ASSUME TypeInv, NEW r \in Requests, FindDraft(r)
  PROVE  /\ At(r, "draft") /\ UNCHANGED <<rows, history>>
         /\ \/ /\ req'[r].pc = "insert" /\ SharedDrafts = {}
               /\ Keeps(r)
            \/ /\ req'[r].pc = "add" /\ req'[r].bld \in SharedDrafts
               /\ req'[r].op = req[r].op /\ req'[r].src = req[r].src
               /\ req'[r].item = req[r].item
<1> DEFINE q == req[r]
<1>1. q \in Request /\ req \in [Requests -> Request]
  BY DEF TypeInv, TypeOK
<1>2. CASE SharedDrafts = {} /\ Continue(r, [q EXCEPT !.pc = "insert"])
  BY <1>2, GoesOn DEF FindDraft
<1>3. ASSUME NEW b \in SharedDrafts,
             Continue(r, [q EXCEPT !.pc = "add", !.bld = b, !.seen = builds[b]])
      PROVE  /\ req'[r].pc = "add" /\ req'[r].bld = b
             /\ req'[r].op = q.op /\ req'[r].src = q.src /\ req'[r].item = q.item
  <2> DEFINE p == [q EXCEPT !.pc = "add", !.bld = b, !.seen = builds[b]]
  <2>1. p.pc = "add"
    BY <1>1 DEF Request
  <2>2. req'[r] = p
    BY <1>1, <1>3, <2>1 DEF Continue
  <2> QED BY <1>1, <2>2 DEF Request
<1> QED BY <1>2, <1>3 DEF FindDraft

LEMMA InsertShape ==
  ASSUME TypeInv, NEW r \in Requests, Insert(r)
  PROVE  /\ At(r, "insert") /\ req'[r].pc = "copy"
         /\ req'[r].bld \in BuildIds
         /\ builds[req'[r].bld].status = "absent"
         /\ \A b \in BuildIds \ {req'[r].bld} : builds'[b] = builds[b]
         /\ \E s \in SourcesOf(req[r].op) : builds'[req'[r].bld] = NewDraft(s)
         /\ req'[r].op = req[r].op /\ req'[r].src = req[r].src
         /\ req'[r].from = req[r].from /\ req'[r].to = req[r].to
         /\ req'[r].item = req[r].item
         /\ deleted' = IF req[r].op = "rollback" THEN deleted \ Holds(Contents(req[r].src))
                       ELSE deleted
         /\ UNCHANGED <<mains, promoted, published>>
<1> DEFINE q == req[r]
<1>1. q \in Request /\ req \in [Requests -> Request] /\ builds \in [BuildIds -> Build]
  BY DEF TypeInv, TypeOK
<1>2. PICK b \in BuildIds, s \in SourcesOf(q.op) :
        /\ builds[b].status = "absent"
        /\ builds' = [builds EXCEPT ![b] = NewDraft(s)]
        /\ Continue(r, [q EXCEPT !.pc = "copy", !.bld = b, !.seen = NewDraft(s)])
  BY DEF Insert
<1> DEFINE d == NewDraft(s)
           p == [q EXCEPT !.pc = "copy", !.bld = b, !.seen = d]
<1> HIDE DEF d
<1>3. p.pc = "copy"
  BY <1>1 DEF Request
<1>4. req'[r] = p
  BY <1>1, <1>2, <1>3 DEF Continue, d
<1>5. /\ req'[r].pc = "copy" /\ req'[r].bld = b /\ req'[r].op = q.op /\ req'[r].src = q.src
      /\ req'[r].from = q.from /\ req'[r].to = q.to /\ req'[r].item = q.item
  BY <1>1, <1>4 DEF Request
<1>6. builds'[b] = NewDraft(s) /\ \A c \in BuildIds \ {b} : builds'[c] = builds[c]
  BY <1>1, <1>2
<1> QED BY <1>2, <1>5, <1>6 DEF Insert, history

LEMMA CopyShape ==
  ASSUME TypeInv, NEW r \in Requests, Copy(r), Contents(req[r].bld) = Empty
  PROVE  LET base == IF req[r].op = "rollback" THEN NoBuild ELSE TheMain
             copied == IF req[r].op = "rollback" THEN Contents(req[r].src) ELSE Contents(base)
             b == req[r].bld
         IN /\ At(r, "copy") /\ b \in BuildIds
            /\ \A c \in BuildIds \ {b} : builds'[c] = builds[c]
            /\ builds'[b].base = base /\ builds'[b].contents = copied
            /\ builds'[b].status = builds[b].status /\ builds'[b].source = builds[b].source
            /\ IF req[r].op = "open" THEN Retired(r)
               ELSE Keeps(r) /\ req'[r].pc = AfterCopy(req[r].op)
            /\ UNCHANGED <<mains, deleted, history>>
<1> DEFINE q == req[r]
           base == IF q.op = "rollback" THEN NoBuild ELSE TheMain
           copied == IF q.op = "rollback" THEN Contents(q.src) ELSE Contents(base)
<1>1. q \in Request /\ builds \in [BuildIds -> Build] /\ q.bld \in BuildIds
  BY DEF TypeInv, TypeOK, HasBuild, Copy, At
<1>2. Holds(Contents(q.bld)) = {}
  BY DEF Holds, Empty
<1>3. /\ builds' = [builds EXCEPT ![q.bld].base = base, ![q.bld].contents = Beside(copied, @)]
      /\ Continue(r, [q EXCEPT !.pc = AfterCopy(q.op), !.seen.base = base])
  BY <1>2 DEF Copy
<1>4. copied \in Snapshot
  BY <1>1, TheMainType, ContentsType DEF Request, TypeInv
<1>5. builds[q.bld].contents = Empty
  BY <1>1 DEF Contents, BuildIds, NoBuild
<1>6. Beside(copied, Empty) = copied
  BY <1>4 DEF Beside, Empty, Snapshot
<1>7. builds' = [builds EXCEPT ![q.bld].base = base, ![q.bld].contents = copied]
  BY <1>1, <1>3, <1>5, <1>6
<1> HIDE DEF base, copied
<1>8. /\ \A c \in BuildIds \ {q.bld} : builds'[c] = builds[c]
      /\ builds'[q.bld].base = base /\ builds'[q.bld].contents = copied
      /\ builds'[q.bld].status = builds[q.bld].status
      /\ builds'[q.bld].source = builds[q.bld].source
  BY <1>1, <1>7, RowUpdates
<1>9. CASE q.op = "open"
  <2> DEFINE p == [q EXCEPT !.pc = "done", !.seen.base = base]
  <2>1. p.pc = "done"
    BY <1>1 DEF Request
  <2>2. Continue(r, p)
    BY <1>3, <1>9 DEF AfterCopy
  <2>3. Retired(r)
    BY <2>1, <2>2, Retires
  <2> QED BY <1>1, <1>8, <1>9, <2>3 DEF Copy, base, copied
<1>10. CASE q.op # "open"
  <2>1. AfterCopy(q.op) # "done"
    BY <1>10 DEF AfterCopy
  <2>2. Keeps(r) /\ req'[r].pc = AfterCopy(q.op)
    BY <1>3, <2>1, GoesOn
  <2> QED BY <1>1, <1>8, <1>10, <2>2 DEF Copy, base, copied
<1> QED BY <1>9, <1>10

\* The steps that write the contents of the build at hand.
LEMMA WriteShape ==
  ASSUME TypeInv, NEW r \in Requests, Edit(r) \/ Add(r) \/ Filter(r) \/ Apply(r)
  PROVE  LET b == req[r].bld
         IN /\ b \in BuildIds
            /\ \A c \in BuildIds \ {b} : builds'[c] = builds[c]
            /\ builds'[b].status = builds[b].status /\ builds'[b].base = builds[b].base
            /\ builds'[b].source = builds[b].source
            /\ Edit(r) => At(r, "edit") /\ Retired(r)
            /\ Add(r) => At(r, "add") /\ req'[r].pc = "submit" /\ Keeps(r)
            /\ Apply(r) => /\ At(r, "apply") /\ req'[r].pc = "approve" /\ Keeps(r)
                           /\ builds'[b].contents = Merge(req[r].from, req[r].to, builds[b].contents)
            /\ Filter(r) => /\ At(r, "filter") /\ Keeps(r) /\ req'[r].pc \in {"submit", "approve"}
                            /\ req'[r].seen = req[r].seen
                            /\ \A i \in Ins : builds'[b].contents[i] \in {NoVer, builds[b].contents[i]}
            /\ UNCHANGED <<mains, deleted, history>>
<1> DEFINE q == req[r]
<1>1. q \in Request /\ builds \in [BuildIds -> Build] /\ q.bld \in BuildIds
  BY DEF TypeInv, TypeOK, HasBuild, Edit, Add, Filter, Apply, At
<1>2. CASE Edit(r)
  <2>1. Retired(r)
    BY <1>2, Retires DEF Edit, Resting
  <2>2. PICK i, v : builds' = [builds EXCEPT ![q.bld].contents[i] = v]
    BY <1>2 DEF Edit, Write
  <2> QED BY <1>1, <1>2, <2>1, <2>2, RowUpdates DEF Edit, Add, Apply, Filter, At
<1>3. CASE Add(r)
  <2>1. Keeps(r) /\ req'[r].pc = "submit"
    BY <1>3, GoesOn DEF Add
  <2>2. PICK i, v : builds' = [builds EXCEPT ![q.bld].contents[i] = v]
    BY <1>3 DEF Add, Write
  <2> QED BY <1>1, <1>3, <2>1, <2>2, RowUpdates DEF Edit, Add, Apply, Filter, At
<1>4. CASE Apply(r)
  <2>1. Keeps(r) /\ req'[r].pc = "approve"
    BY <1>4, GoesOn DEF Apply
  <2>2. builds' = [builds EXCEPT ![q.bld].contents = Merge(q.from, q.to, builds[q.bld].contents)]
    BY <1>1, <1>4 DEF Apply
  <2> QED BY <1>1, <1>4, <2>1, <2>2, RowUpdates DEF Edit, Add, Apply, Filter, At
<1>5. CASE Filter(r)
  <2>1. Keeps(r) /\ req'[r].pc \in {"submit", "approve"} /\ req'[r].seen = q.seen
    BY <1>5, GoesOn DEF Filter
  <2>2. PICK k : builds' = [builds EXCEPT ![q.bld].contents =
                               [i \in Ins |-> IF i \in k THEN Contents(q.bld)[i] ELSE NoVer]]
    BY <1>5 DEF Filter
  <2>3. Contents(q.bld) = builds[q.bld].contents
    BY <1>1 DEF Contents, BuildIds, NoBuild
  <2> DEFINE c == [i \in Ins |-> IF i \in k THEN Contents(q.bld)[i] ELSE NoVer]
  <2>4. \A i \in Ins : c[i] \in {NoVer, builds[q.bld].contents[i]}
    BY <2>3
  <2>5. builds' = [builds EXCEPT ![q.bld].contents = c]
    BY <2>2
  <2> HIDE DEF c
  <2>6. /\ \A b \in BuildIds \ {q.bld} : builds'[b] = builds[b]
        /\ builds'[q.bld].contents = c
        /\ builds'[q.bld].status = builds[q.bld].status
        /\ builds'[q.bld].base = builds[q.bld].base
        /\ builds'[q.bld].source = builds[q.bld].source
    BY <1>1, <2>5, RowUpdates
  <2> QED BY <1>1, <1>5, <2>1, <2>4, <2>6 DEF Edit, Add, Apply, Filter, At
<1> QED BY <1>2, <1>3, <1>4, <1>5

\* The steps that write the status of the build at hand.
LEMMA StatusShape ==
  ASSUME TypeInv, NEW r \in Requests, Reject(r) \/ Submit(r) \/ Approve(r)
  PROVE  LET b == req[r].bld
         IN /\ b \in BuildIds
            /\ \A c \in BuildIds \ {b} : builds'[c] = builds[c]
            /\ builds'[b].contents = builds[b].contents /\ builds'[b].base = builds[b].base
            /\ builds'[b].source = builds[b].source
            /\ Reject(r) => /\ At(r, "reject") /\ Retired(r)
                            /\ builds'[b].status = "rejected"
            /\ Submit(r) => /\ At(r, "submit")
                            /\ builds'[b].status = "pending_approval"
                            /\ \/ Retired(r) /\ req[r].op \in {"submit", "save", "accept"}
                               \/ /\ Keeps(r)
                                  /\ req'[r].pc \in {"approve", "refresh"}
                                  /\ req'[r].pc = "refresh" => req[r].op = "delete"
                                  /\ req[r].op # "submit"
                                  /\ req'[r].seen.base = req[r].seen.base
                                  /\ req'[r].seen.contents = req[r].seen.contents
            /\ Approve(r) => /\ At(r, "approve") /\ Keeps(r)
                             /\ builds'[b].status = "approved"
                             /\ req'[r].pc = IF req[r].op = "publish" /\ req[r].src = NoBuild
                                             THEN "route" ELSE "promote"
                             /\ req'[r].seen.base = req[r].seen.base
                             /\ req'[r].seen.contents = req[r].seen.contents
            /\ UNCHANGED <<mains, deleted, history>>
<1> DEFINE q == req[r]
<1>1. q \in Request /\ builds \in [BuildIds -> Build] /\ q.bld \in BuildIds
  BY DEF TypeInv, TypeOK, HasBuild, Reject, Submit, Approve, At
<1>2. CASE Reject(r)
  <2>1. Retired(r)
    BY <1>2, Retires DEF Reject, Resting
  <2> QED BY <1>1, <1>2, <2>1, RowUpdates DEF Reject, Submit, Approve, At
<1>3. CASE Submit(r)
  <2>1. PICK l \in AfterSubmit(q.op) :
          Continue(r, [q EXCEPT !.pc = l, !.seen.status = "pending_approval"])
    BY <1>3 DEF Submit
  <2>0. /\ At(r, "submit") /\ ~Reject(r) /\ ~Approve(r)
        /\ \A c \in BuildIds \ {q.bld} : builds'[c] = builds[c]
        /\ builds'[q.bld].contents = builds[q.bld].contents
        /\ builds'[q.bld].base = builds[q.bld].base
        /\ builds'[q.bld].source = builds[q.bld].source
        /\ builds'[q.bld].status = "pending_approval"
        /\ UNCHANGED <<mains, deleted, history>>
    <3>1. /\ builds' = [builds EXCEPT ![q.bld].status = "pending_approval"]
          /\ UNCHANGED <<mains, deleted, history>>
          /\ q.pc = "submit"
      BY <1>3 DEF Submit, At
    <3>2. ~Reject(r) /\ ~Approve(r) /\ At(r, "submit")
      BY <3>1 DEF Reject, Approve, At
    <3> QED BY <1>1, <3>1, <3>2, RowUpdates
  <2>2. CASE l = "done"
    <3> DEFINE p == [q EXCEPT !.pc = l, !.seen.status = "pending_approval"]
    <3>1. p.pc = l
      BY <1>1 DEF Request
    <3>2. Continue(r, p)
      BY <2>1
    <3> HIDE DEF p
    <3>3. Retired(r)
      BY <2>2, <3>1, <3>2, Retires
    <3>4. q.op \in {"submit", "save", "accept"}
      BY <2>2 DEF AfterSubmit
    <3> QED BY <1>1, <2>0, <3>3, <3>4
  <2>3. CASE l # "done"
    <3>1. /\ Keeps(r) /\ req'[r].pc = l /\ req'[r].seen.base = q.seen.base
          /\ req'[r].seen.contents = q.seen.contents
      BY <2>1, <2>3, GoesOn
    <3>2. /\ l \in {"approve", "refresh"} /\ q.op # "submit"
          /\ l = "refresh" => q.op = "delete"
      BY <2>3 DEF AfterSubmit
    <3> QED BY <1>1, <2>0, <2>1, <3>1, <3>2
  <2> QED BY <2>2, <2>3
<1>4. CASE Approve(r)
  <2> DEFINE l == IF q.op = "publish" /\ q.src = NoBuild THEN "route" ELSE "promote"
  <2>1. l # "done"
    OBVIOUS
  <2>2. Continue(r, [q EXCEPT !.pc = l, !.seen.status = "approved"])
    BY <1>4 DEF Approve
  <2> HIDE DEF l
  <2>3. /\ Keeps(r) /\ req'[r].pc = l /\ req'[r].seen.base = q.seen.base
        /\ req'[r].seen.contents = q.seen.contents
    BY <2>1, <2>2, GoesOn
  <2> QED BY <1>1, <1>4, <2>3, RowUpdates DEF Reject, Submit, Approve, At, l
<1> QED BY <1>2, <1>3, <1>4

\* The steps of a publication that only read, with at most one main build.
LEMMA ReadShape ==
  ASSUME TypeInv, AtMostOneMain, NEW r \in Requests, Route(r) \/ Diff(r) \/ Promote(r)
  PROVE  /\ UNCHANGED <<rows, history>>
         /\ Route(r) => /\ At(r, "route") /\ Keeps(r) /\ req'[r].seen = req[r].seen
                        /\ req'[r].pc = IF \/ mains = {} \/ req[r].seen.base = NoBuild
                                           \/ mains = {req[r].seen.base}
                                        THEN "promote" ELSE "diff"
                        /\ mains # {} => mains = {req'[r].main}
         /\ Diff(r) => /\ At(r, "diff")
                       /\ IF mains = {req[r].main}
                          THEN /\ req'[r].pc = "insert"
                               /\ req'[r].op = req[r].op /\ req'[r].bld = req[r].bld
                               /\ req'[r].src = req[r].bld /\ req'[r].item = req[r].item
                               /\ req'[r].from = Contents(req[r].seen.base)
                               /\ req'[r].to = Reread(req[r].seen.contents, Contents(req[r].bld))
                          ELSE Retired(r)
         /\ Promote(r) => /\ At(r, "promote") /\ Keeps(r) /\ req'[r].pc = "commit"
                          /\ req'[r].cut = mains \ {req[r].bld}
                          /\ req'[r].seen = req[r].seen
<1> DEFINE q == req[r]
<1>1. q \in Request /\ req \in [Requests -> Request] /\ mains \subseteq BuildIds
  BY DEF TypeInv, TypeOK
<1>2. ASSUME Route(r)
      PROVE  /\ UNCHANGED <<rows, history>>
             /\ At(r, "route") /\ Keeps(r) /\ req'[r].seen = q.seen
             /\ req'[r].pc = IF mains = {} \/ q.seen.base = NoBuild \/ mains = {q.seen.base}
                             THEN "promote" ELSE "diff"
             /\ mains # {} => mains = {req'[r].main}
  <2>1. mains = {} \/ \E m \in mains : mains = {m}
    BY DEF AtMostOneMain
  <2>2. ~(Cardinality(mains) > 1)
    <3>1. Cardinality({}) = 0
      BY FS_EmptySet
    <3>2. \A m : Cardinality({m}) = 1
      BY FS_Singleton
    <3>3. Cardinality(mains) \in {0, 1}
      BY <2>1, <3>1, <3>2
    <3> QED BY <3>3
  <2>3. mains # {} => mains = {TheMain}
    BY <2>1 DEF TheMain
  <2>4. mains = {} => TheMain = NoBuild
    BY DEF TheMain
  <2> DEFINE fresh == mains = {} \/ q.seen.base = NoBuild \/ q.seen.base = TheMain
             l == IF fresh THEN "promote" ELSE "diff"
  <2>5. Continue(r, [q EXCEPT !.pc = l, !.main = TheMain]) /\ l # "done"
    BY <1>2, <2>2 DEF Route
  <2>6. fresh <=> mains = {} \/ q.seen.base = NoBuild \/ mains = {q.seen.base}
    BY <2>3, <2>4
  <2> HIDE DEF l
  <2>7. Keeps(r) /\ req'[r].pc = l /\ req'[r].main = TheMain /\ req'[r].seen = q.seen
    BY <2>5, GoesOn
  <2> QED BY <1>2, <2>3, <2>6, <2>7 DEF Route, l
<1>3. ASSUME Diff(r)
      PROVE  /\ UNCHANGED <<rows, history>> /\ At(r, "diff")
             /\ IF mains = {q.main}
                THEN /\ req'[r].pc = "insert" /\ req'[r].op = q.op /\ req'[r].bld = q.bld
                     /\ req'[r].src = q.bld /\ req'[r].item = q.item
                     /\ req'[r].from = Contents(q.seen.base)
                     /\ req'[r].to = Reread(q.seen.contents, Contents(q.bld))
                ELSE Retired(r)
  <2> DEFINE l == IF mains = {q.main} THEN "insert" ELSE "done"
             f == Contents(q.seen.base)
             t == Reread(q.seen.contents, Contents(q.bld))
             p == [q EXCEPT !.pc = l, !.src = q.bld, !.from = f, !.to = t]
  <2>1. Continue(r, p)
    BY <1>3 DEF Diff
  <2> HIDE DEF f, t
  <2>2. p.pc = l
    BY <1>1 DEF Request
  <2>3. CASE mains = {q.main}
    <3>1. req'[r] = p
      BY <1>1, <2>1, <2>2, <2>3 DEF Continue
    <3>2. /\ req'[r].pc = "insert" /\ req'[r].op = q.op /\ req'[r].bld = q.bld
          /\ req'[r].src = q.bld /\ req'[r].item = q.item
          /\ req'[r].from = f /\ req'[r].to = t
      BY <1>1, <2>3, <3>1 DEF Request
    <3> QED BY <1>3, <2>3, <3>2 DEF Diff, f, t
  <2>4. CASE mains # {q.main}
    <3>1. p.pc = "done"
      BY <2>2, <2>4
    <3> HIDE DEF p
    <3>2. Retired(r)
      BY <2>1, <3>1, Retires
    <3> QED BY <1>3, <2>4, <3>2 DEF Diff
  <2> QED BY <2>3, <2>4
<1>4. ASSUME Promote(r)
      PROVE  /\ UNCHANGED <<rows, history>> /\ At(r, "promote") /\ Keeps(r)
             /\ req'[r].pc = "commit" /\ req'[r].cut = mains \ {q.bld}
             /\ req'[r].seen = q.seen
  <2>1. /\ UNCHANGED <<rows, history>> /\ At(r, "promote")
        /\ Continue(r, [req[r] EXCEPT !.pc = "commit", !.cut = mains \ {req[r].bld}])
    BY <1>4 DEF Promote
  <2>2. /\ Keeps(r) /\ req'[r].pc = "commit" /\ req'[r].cut = mains \ {q.bld}
        /\ req'[r].seen = q.seen
    BY <2>1, GoesOn
  <2> QED BY <2>1, <2>2
<1>5. /\ Route(r) => req[r].pc = "route"
      /\ Diff(r) => req[r].pc = "diff"
      /\ Promote(r) => req[r].pc = "promote"
  BY DEF Route, Diff, Promote, At
<1> QED BY <1>2, <1>3, <1>4, <1>5

LEMMA CommitShape ==
  ASSUME TypeInv, NEW r \in Requests, Commit(r)
  PROVE  /\ At(r, "commit") /\ req[r].bld \in BuildIds
         /\ UNCHANGED <<builds, deleted>>
         /\ mains' = (mains \ req[r].cut) \cup {req[r].bld}
         /\ promoted' = promoted \cup {req[r].bld}
         /\ published' = IF req[r].op # "publish" THEN published
                         ELSE published \cup {IF req[r].src = NoBuild THEN req[r].bld ELSE req[r].src}
         /\ IF req[r].item = {} THEN Retired(r)
            ELSE Keeps(r) /\ req'[r].pc = "refresh"
<1> DEFINE q == req[r]
<1>1. q \in Request /\ q.bld \in BuildIds
  BY DEF TypeInv, TypeOK, HasBuild, Commit, At
<1>2. CASE q.item = {}
  <2>1. Continue(r, [q EXCEPT !.pc = "done"])
    BY <1>2 DEF Commit
  <2>2. [q EXCEPT !.pc = "done"].pc = "done"
    BY <1>1 DEF Request
  <2>3. Retired(r)
    BY <2>1, <2>2, Retires
  <2> QED BY <1>1, <1>2, <2>3 DEF Commit
<1>3. CASE q.item # {}
  <2>1. Continue(r, [q EXCEPT !.pc = "refresh"])
    BY <1>3 DEF Commit
  <2>2. Keeps(r) /\ req'[r].pc = "refresh"
    BY <2>1, GoesOn
  <2> QED BY <1>1, <1>3, <2>2 DEF Commit
<1> QED BY <1>2, <1>3

\* The end of a delete, and the faults.
LEMMA EndShape ==
  ASSUME TypeInv, NEW r \in Requests, Refresh(r) \/ FinalizeFails(r) \/ Crash(r)
  PROVE  /\ UNCHANGED <<rows, history>>
         /\ Refresh(r) => /\ At(r, "refresh") /\ req[r].bld \in BuildIds
                          /\ IF builds[req[r].bld].status = "approved" /\ req[r].bld \notin mains
                             THEN /\ req'[r].pc = "promote"
                                  /\ req'[r].op = req[r].op /\ req'[r].bld = req[r].bld
                                  /\ req'[r].src = req[r].src /\ req'[r].item = {}
                             ELSE Retired(r)
         /\ FinalizeFails(r) => /\ "crash" \in Ops /\ req[r].item # {}
                                /\ req[r].pc \in {"submit", "approve", "promote", "commit"}
                                /\ Keeps(r) /\ req'[r].pc = "refresh"
         /\ Crash(r) => "crash" \in Ops /\ Retired(r)
<1> DEFINE q == req[r]
<1>1. q \in Request /\ req \in [Requests -> Request]
  BY DEF TypeInv, TypeOK
<1>2. ASSUME Refresh(r)
      PROVE  /\ UNCHANGED <<rows, history>> /\ At(r, "refresh") /\ q.bld \in BuildIds
             /\ IF builds[q.bld].status = "approved" /\ q.bld \notin mains
                THEN /\ req'[r].pc = "promote" /\ req'[r].op = q.op /\ req'[r].bld = q.bld
                     /\ req'[r].src = q.src /\ req'[r].item = {}
                ELSE Retired(r)
  <2> DEFINE again == builds[q.bld].status = "approved" /\ q.bld \notin mains
             l == IF again THEN "promote" ELSE "done"
             p == [q EXCEPT !.pc = l, !.seen = builds[q.bld], !.item = {}]
  <2>1. Continue(r, p) /\ At(r, "refresh") /\ UNCHANGED <<rows, history>> /\ q.bld \in BuildIds
    BY <1>2 DEF Refresh, TypeInv, HasBuild, At
  <2> HIDE DEF again
  <2>2. p.pc = l
    BY <1>1 DEF Request
  <2>3. CASE again
    <3>1. req'[r] = p
      BY <1>1, <2>1, <2>2, <2>3 DEF Continue
    <3>2. /\ req'[r].pc = "promote" /\ req'[r].op = q.op /\ req'[r].bld = q.bld
          /\ req'[r].src = q.src /\ req'[r].item = {}
      BY <1>1, <2>3, <3>1 DEF Request
    <3> QED BY <2>1, <2>3, <3>2 DEF again
  <2>4. CASE ~again
    <3>1. p.pc = "done"
      BY <2>2, <2>4
    <3> HIDE DEF p
    <3>2. Retired(r)
      BY <2>1, <3>1, Retires
    <3> QED BY <2>1, <2>4, <3>2 DEF again
  <2> QED BY <2>3, <2>4
<1>3. FinalizeFails(r) => /\ UNCHANGED <<rows, history>>
                          /\ "crash" \in Ops /\ q.item # {}
                          /\ q.pc \in {"submit", "approve", "promote", "commit"}
                          /\ Keeps(r) /\ req'[r].pc = "refresh"
  BY GoesOn DEF FinalizeFails
<1>4. Crash(r) => UNCHANGED <<rows, history>> /\ "crash" \in Ops /\ Retired(r)
  BY Retires DEF Crash, Resting
<1>5. Refresh(r) => req[r].pc = "refresh"
  BY DEF Refresh, At
<1> QED BY <1>2, <1>3, <1>4, <1>5

LEMMA StartShape ==
  ASSUME TypeInv, NEW r \in Requests, Start(r)
  PROVE  /\ At(r, "idle")
         /\ Serial => \A s \in Requests : ~InFlight(s)
         /\ UNCHANGED <<builds, mains, history>>
         /\ req'[r].op \in Ops
         /\ req'[r].src # NoBuild => req'[r].op = "rollback"
         /\ req'[r].item # {} => req'[r].op = "delete"
         /\ \/ /\ req'[r].bld = NoBuild
               /\ \/ req'[r].pc = "draft" /\ req'[r].op \in {"save", "delete"}
                  \/ req'[r].pc = "insert" /\ req'[r].op \in {"open", "accept"}
                  \/ /\ req'[r].pc = "insert" /\ req'[r].op = "rollback"
                     /\ req'[r].src \in BuildIds /\ builds[req'[r].src].status = "approved"
            \/ /\ req'[r].bld \in BuildIds /\ builds[req'[r].bld].status \in Editable
               /\ req'[r].seen = builds[req'[r].bld]
               /\ \/ req'[r].op \in {"edit", "submit", "reject"} /\ req'[r].pc = req'[r].op
                  \/ req'[r].op = "publish" /\ req'[r].pc = "filter"
                  \/ req'[r].op = "learn" /\ req'[r].pc \in {"submit", "approve"}
<1>0. req \in [Requests -> Request]
  BY DEF TypeInv, TypeOK
<1>1. ASSUME NEW o, NEW l, l # "done", NEW b \in BuildIds, Load(r, o, b, l),
             builds[b].status \in Editable,
             \/ o \in {"edit", "submit", "reject"} /\ l = o
             \/ o = "publish" /\ l = "filter"
             \/ o = "learn" /\ l \in {"submit", "approve"}
      PROVE  /\ CanStart(r, o) /\ UNCHANGED <<builds, mains, history>>
             /\ req'[r].src = NoBuild /\ req'[r].item = {}
             /\ req'[r].bld = b /\ req'[r].seen = builds[b] /\ req'[r].op = o /\ req'[r].pc = l
  BY <1>0, <1>1 DEF Load, Continue, Resting, rows
<1>2. ASSUME StartOpen(r) \/ StartSave(r)
      PROVE  /\ CanStart(r, req'[r].op) /\ UNCHANGED <<builds, mains, history>>
             /\ req'[r].src = NoBuild /\ req'[r].item = {} /\ req'[r].bld = NoBuild
             /\ \/ req'[r].pc = "draft" /\ req'[r].op = "save"
                \/ req'[r].pc = "insert" /\ req'[r].op = "open"
  BY <1>0, <1>2 DEF StartOpen, StartSave, Continue, Resting, rows
<1>3. ASSUME NEW i \in Ins, StartDelete(r, i)
      PROVE  /\ CanStart(r, req'[r].op) /\ UNCHANGED <<builds, mains, history>>
             /\ req'[r].src = NoBuild /\ req'[r].bld = NoBuild
             /\ req'[r].pc = "draft" /\ req'[r].op = "delete"
  BY <1>0, <1>3 DEF StartDelete, Continue, Resting
<1>4. ASSUME NEW b \in BuildIds, NEW i \in Ins, NEW v \in Ver, StartAccept(r, b, i, v)
      PROVE  /\ CanStart(r, req'[r].op) /\ UNCHANGED <<builds, mains, history>>
             /\ req'[r].src = NoBuild /\ req'[r].item = {} /\ req'[r].bld = NoBuild
             /\ req'[r].pc = "insert" /\ req'[r].op = "accept"
  BY <1>0, <1>4 DEF StartAccept, Continue, Resting, rows
<1>5. ASSUME NEW t \in BuildIds, StartRollback(r, t)
      PROVE  /\ CanStart(r, req'[r].op) /\ UNCHANGED <<builds, mains, history>>
             /\ req'[r].src = t /\ req'[r].item = {} /\ req'[r].bld = NoBuild
             /\ req'[r].pc = "insert" /\ req'[r].op = "rollback"
             /\ builds[t].status = "approved"
  BY <1>0, <1>5 DEF StartRollback, Continue, Resting, rows
<1>6. ASSUME NEW b \in BuildIds,
             StartEdit(r, b) \/ StartSubmit(r, b) \/ StartReject(r, b)
               \/ StartPublish(r, b) \/ StartLearn(r, b)
      PROVE  \E o, l : /\ l # "done" /\ Load(r, o, b, l) /\ builds[b].status \in Editable
                       /\ \/ o \in {"edit", "submit", "reject"} /\ l = o
                          \/ o = "publish" /\ l = "filter"
                          \/ o = "learn" /\ l \in {"submit", "approve"}
  BY <1>6 DEF StartEdit, StartSubmit, StartReject, StartPublish, StartLearn, Editable
<1>7. \A o : CanStart(r, o) => /\ o \in Ops /\ At(r, "idle")
                               /\ Serial => \A s \in Requests : ~InFlight(s)
  BY DEF CanStart
<1>8. CASE StartOpen(r) \/ StartSave(r)
  BY <1>2, <1>7, <1>8
<1>9. CASE \E i \in Ins : StartDelete(r, i)
  BY <1>3, <1>7, <1>9
<1>10. CASE \E b \in BuildIds, i \in Ins, v \in Ver : StartAccept(r, b, i, v)
  BY <1>4, <1>7, <1>10
<1>11. CASE \E b \in BuildIds : StartRollback(r, b)
  BY <1>5, <1>7, <1>11
<1>12. CASE \E b \in BuildIds : StartEdit(r, b) \/ StartSubmit(r, b) \/ StartReject(r, b)
                                  \/ StartPublish(r, b) \/ StartLearn(r, b)
  BY <1>1, <1>6, <1>7, <1>12
<1> QED BY <1>8, <1>9, <1>10, <1>11, <1>12 DEF Start
-----------------------------------------------------------------------------
\* The turn of r, with nobody else in flight.
Turn(r) ==
  /\ TypeInv /\ TypeInv' /\ SerialInv /\ SerialInv' /\ PastInv
  /\ \A b \in BuildIds : builds[b].status = "approved" => builds'[b] = builds[b]
  /\ \A s \in Requests \ {r} : ~InFlight(s) /\ req'[s] = req[s]
  /\ ~InFlight(r) => Start(r)

LEMMA TurnTaken ==
  ASSUME Serial, TypeInv, SerialInv, PastInv, NEW r \in Requests,
         Start(r) \/ Advance(r) \/ Crash(r)
  PROVE  Turn(r)
<1>1. Next
  BY DEF Next
<1>2. TypeInv' /\ SerialInv'
      /\ \A b \in BuildIds : builds[b].status = "approved" => builds'[b] = builds[b]
  BY <1>1, NextTypeInv, SerialStep
<1>3. \A s \in Requests \ {r} : req'[s] = req[s]
  <2>1. CASE Promote(r) \/ Commit(r)
    BY <2>1, ContinueShape DEF Promote, Commit
  <2> QED BY <2>1, QuietStep
<1>4. InFlight(r) \/ Start(r)
  BY DEF Advance, Crash, InFlight, At, FindDraft, Insert, Copy, Edit, Add, Reject,
         Filter, Submit, Approve, Route, Diff, Apply, Promote, Commit, Refresh, FinalizeFails
<1>5. \A s \in Requests \ {r} : ~InFlight(s)
  BY <1>4, StartShape DEF SerialInv
<1> QED BY <1>2, <1>3, <1>4, <1>5 DEF Turn

\* A request at rest is trivially sound, before and after a step.
LEMMA RestSound ==
  ASSUME NEW r \in Requests, req[r] \in {Resting("idle"), Resting("done")}
  PROVE  /\ Staged(r) /\ Fresh(r) /\ Returning(r)
         /\ req[r].bld = NoBuild /\ req[r].src = NoBuild /\ req[r].op = "none"
         /\ req[r].pc \in {"idle", "done"}
         /\ ~InFlight(r)
BY DEF Staged, Fresh, Returning, InFlight, Resting, At, Settled

LEMMA RestSoundNext ==
  ASSUME NEW r \in Requests, req'[r] \in {Resting("idle"), Resting("done")}
  PROVE  /\ Staged(r)' /\ Fresh(r)' /\ Returning(r)'
         /\ req'[r].bld = NoBuild /\ req'[r].src = NoBuild /\ req'[r].op = "none"
         /\ req'[r].pc \in {"idle", "done"}
         /\ ~InFlight(r)'
BY DEF Staged, Fresh, Returning, InFlight, Resting, At, Settled

\* What a step of r has to show: nothing about the others, and nothing about
\* itself once it is done.
LEMMA PastOfOne ==
  ASSUME NEW r \in Requests, Turn(r), AtMostOneMain', PastSound',
         Retired(r) \/ (InFlight(r)' /\ Staged(r)' /\ Fresh(r)' /\ Returning(r)')
  PROVE  PastInv'
<1>1. \A s \in Requests \ {r} : req'[s] \in {Resting("idle"), Resting("done")}
  BY DEF Turn, PastInv, AtRest
<1>2. \A s \in Requests \ {r} : Staged(s)' /\ Fresh(s)' /\ Returning(s)'
  BY <1>1, RestSoundNext
<1>3. Retired(r) => Staged(r)' /\ Fresh(r)' /\ Returning(r)'
  BY RestSoundNext DEF Retired
<1>4. AtRest'
  <2> SUFFICES ASSUME NEW s \in Requests, ~InFlight(s)'
               PROVE  req'[s] \in {Resting("idle"), Resting("done")}
    BY DEF AtRest
  <2>1. CASE s = r
    BY <2>1 DEF Retired
  <2> QED BY <1>1, <2>1
<1> QED BY <1>2, <1>3, <1>4 DEF PastInv

LEMMA SamePast ==
  ASSUME NEW r \in Requests, Turn(r), UNCHANGED <<mains, promoted>>
  PROVE  AtMostOneMain' /\ PastSound'
BY DEF Turn, PastInv, PastSound, AtMostOneMain, TypeInv, TypeOK

LEMMA StartPast ==
  ASSUME NEW r \in Requests, Turn(r), Start(r)
  PROVE  PastInv'
<1>1. AtMostOneMain' /\ PastSound'
  BY SamePast, StartShape DEF Turn, history
<1>2. req[r].pc = "idle" /\ TypeInv
  BY StartShape DEF At, Turn
<1>3. InFlight(r)' /\ Staged(r)'
  BY <1>2, StartShape DEF Staged, InFlight
<1>4. Fresh(r)'
  BY <1>2, StartShape DEF Fresh, At, Settled
<1>5. Returning(r)'
  BY <1>2, StartShape DEF Returning, At, NoBuild, BuildIds
<1> QED BY <1>1, <1>3, <1>4, <1>5, PastOfOne

\* Before a request is through: what it knows of itself.
LEMMA Known ==
  ASSUME NEW r \in Requests, Turn(r)
  PROVE  /\ TypeInv /\ AtMostOneMain /\ PastSound
         /\ Staged(r) /\ Fresh(r) /\ Returning(r) /\ AsBelieved(r)
         /\ req[r] \in Request /\ builds \in [BuildIds -> Build]
         /\ req'[r] \in Request /\ builds' \in [BuildIds -> Build]
         /\ promoted \subseteq BuildIds /\ mains \subseteq BuildIds
         /\ NoBuild \notin BuildIds
         /\ \A b \in BuildIds : builds[b].status = "approved" => builds'[b] = builds[b]
BY DEF Turn, PastInv, SerialInv, TypeInv, TypeOK, BuildIds, NoBuild

LEMMA FindDraftPast ==
  ASSUME NEW r \in Requests, Turn(r), FindDraft(r)
  PROVE  PastInv'
<1>1. AtMostOneMain' /\ PastSound'
  BY SamePast, FindDraftShape, Known DEF rows, history
<1>2. InFlight(r)' /\ Staged(r)' /\ Fresh(r)' /\ Returning(r)'
  BY FindDraftShape, Known DEF Staged, Fresh, Returning, InFlight, At, Settled, Keeps, rows
<1> QED BY <1>1, <1>2, PastOfOne

LEMMA InsertPast ==
  ASSUME NEW r \in Requests, Turn(r), Insert(r)
  PROVE  PastInv'
<1>0. TypeInv
  BY Known
<1>1. AtMostOneMain' /\ PastSound'
  BY <1>0, SamePast, InsertShape
<1>2. InFlight(r)' /\ Staged(r)'
  BY <1>0, InsertShape, Known DEF Staged, InFlight, At
<1>3. Fresh(r)'
  <2>1. builds'[req'[r].bld].contents = Empty
    BY <1>0, InsertShape DEF NewDraft, Absent
  <2> QED BY <1>0, <2>1, InsertShape DEF Fresh, At, Settled, Contents
<1>4. Returning(r)'
  <2> SUFFICES ASSUME req[r].op = "rollback" PROVE Returning(r)'
    BY <1>0, InsertShape DEF Returning
  <2>1. /\ req[r].src \in BuildIds /\ builds[req[r].src].status = "approved"
        /\ builds'[req[r].src] = builds[req[r].src]
    BY Known DEF Returning
  <2>2. Holds(Contents(req[r].src))' = Holds(Contents(req[r].src))
    BY <1>0, <2>1, InsertShape DEF Holds, Contents
  <2>3. Holds(Contents(req[r].src))' \cap deleted' = {}
    BY <1>0, <2>2, InsertShape
  <2>4. builds'[req'[r].bld].source = "rollback"
    BY <1>0, InsertShape DEF NewDraft, Absent, SourcesOf
  <2>5. req'[r].src = req[r].src /\ req'[r].pc = "copy" /\ req'[r].bld # req[r].src
    BY <1>0, <2>1, InsertShape
  <2> QED BY <2>1, <2>3, <2>4, <2>5 DEF Returning, Holds, Contents
<1> QED BY <1>1, <1>2, <1>3, <1>4, PastOfOne

LEMMA CopyPast ==
  ASSUME NEW r \in Requests, Turn(r), Copy(r)
  PROVE  PastInv'
<1>0. TypeInv /\ At(r, "copy") /\ Contents(req[r].bld) = Empty
  BY Known DEF Copy, Fresh
<1>1. AtMostOneMain' /\ PastSound'
  BY <1>0, SamePast, CopyShape DEF history
<1>2. CASE req[r].op = "open"
  BY <1>0, <1>1, <1>2, CopyShape, PastOfOne
<1>3. CASE req[r].op # "open"
  <2>0. Keeps(r) /\ req'[r].pc = AfterCopy(req[r].op)
    BY <1>0, <1>3, CopyShape
  <2>1. req'[r].pc = IF req[r].op = "publish" THEN "apply"
                     ELSE IF req[r].op = "rollback" THEN "approve" ELSE "add"
    BY <1>3, <2>0 DEF AfterCopy
  <2>2. InFlight(r)' /\ Staged(r)'
    <3>1. /\ req[r].op \in {"publish", "rollback", "save", "accept", "delete"}
          /\ req[r].op = "publish" => req[r].src # NoBuild
      BY <1>0, <1>3, Known DEF Staged, InFlight, At, Request, OpKinds
    <3> QED BY <1>0, <2>0, <2>1, <3>1, Known DEF Staged, InFlight, Keeps
  <2>3. Fresh(r)'
    BY <2>1 DEF Fresh, At, Settled
  <2>4. Returning(r)'
    <3> SUFFICES ASSUME req[r].op = "rollback" PROVE Returning(r)'
      BY <2>0 DEF Returning, Keeps
    <3>1. /\ req[r].src \in BuildIds /\ builds[req[r].src].status = "approved"
          /\ builds'[req[r].src] = builds[req[r].src]
          /\ Holds(builds[req[r].src].contents) \cap deleted = {}
          /\ builds[req[r].bld].source = "rollback" /\ req[r].bld # req[r].src
      BY <1>0, Known DEF Returning, At, Contents
    <3>2. /\ builds'[req[r].bld].source = "rollback"
          /\ builds'[req[r].bld].contents = builds[req[r].src].contents
          /\ deleted' = deleted /\ req[r].bld \in BuildIds
      BY <1>0, <3>1, CopyShape, Known DEF Contents
    <3> QED BY <2>0, <2>1, <3>1, <3>2, Known DEF Returning, Contents, Keeps
  <2> QED BY <1>1, <2>2, <2>3, <2>4, PastOfOne
<1> QED BY <1>2, <1>3

LEMMA WritePast ==
  ASSUME NEW r \in Requests, Turn(r), Edit(r) \/ Add(r) \/ Filter(r) \/ Apply(r)
  PROVE  PastInv'
<1>0. TypeInv
  BY Known
<1>1. AtMostOneMain' /\ PastSound'
  BY <1>0, SamePast, WriteShape DEF history
<1>2. CASE Edit(r)
  BY <1>0, <1>1, <1>2, WriteShape, PastOfOne
<1>3. CASE Add(r) \/ Filter(r) \/ Apply(r)
  <2>1. /\ Keeps(r) /\ req[r].op # "rollback"
        /\ \/ req[r].pc = "add" /\ req'[r].pc = "submit"
           \/ req[r].pc = "apply" /\ req'[r].pc = "approve"
           \/ req[r].pc = "filter" /\ req'[r].pc \in {"submit", "approve"}
    BY <1>0, <1>3, WriteShape, Known DEF At, Staged
  <2>2. InFlight(r)' /\ Staged(r)'
    BY <2>1, Known DEF Staged, InFlight, Keeps
  <2>3. Fresh(r)' /\ Returning(r)'
    BY <2>1 DEF Fresh, Returning, At, Settled, Keeps
  <2> QED BY <1>1, <2>2, <2>3, PastOfOne
<1> QED BY <1>2, <1>3

LEMMA StatusPast ==
  ASSUME NEW r \in Requests, Turn(r), Reject(r) \/ Submit(r) \/ Approve(r)
  PROVE  PastInv'
<1>0. TypeInv
  BY Known
<1>1. AtMostOneMain' /\ PastSound'
  BY <1>0, SamePast, StatusShape DEF history
<1>2. CASE Retired(r)
  BY <1>1, <1>2, PastOfOne
<1>3. CASE ~Retired(r)
  <2>0. req[r].bld \in BuildIds /\ builds[req[r].bld].status \in Editable
    BY <1>0, StatusShape, Known DEF AsBelieved, Open, At
  <2>1. req[r].bld \notin promoted
    BY <2>0, Known DEF PastSound, Editable
  <2>2. \/ /\ req[r].pc = "submit" /\ Keeps(r) /\ req[r].op # "submit"
           /\ \/ req'[r].pc = "approve"
              \/ req'[r].pc = "refresh" /\ req[r].op = "delete"
        \/ /\ req[r].pc = "approve" /\ Keeps(r)
           /\ req'[r].pc = IF req[r].op = "publish" /\ req[r].src = NoBuild THEN "route" ELSE "promote"
    BY <1>0, <1>3, StatusShape DEF At
  <2>3. InFlight(r)' /\ Staged(r)'
    BY <2>2, Known DEF Staged, InFlight, Keeps
  <2>4. Fresh(r)'
    <3>1. UNCHANGED <<mains, promoted>>
      BY <1>0, StatusShape DEF history
    <3> QED BY <2>1, <2>2, <3>1 DEF Fresh, At, Settled, Keeps
  <2>5. Returning(r)'
    <3> SUFFICES ASSUME req[r].op = "rollback" PROVE Returning(r)'
      BY <2>2 DEF Returning, Keeps
    <3>1. Approve(r) /\ req[r].pc = "approve" /\ req'[r].pc = "promote" /\ Keeps(r)
      BY <1>0, <2>2, StatusShape, Known DEF Staged, At
    <3>2. /\ req[r].src \in BuildIds /\ builds[req[r].src].status = "approved"
          /\ builds'[req[r].src] = builds[req[r].src]
          /\ Holds(builds[req[r].src].contents) \cap deleted = {}
          /\ builds[req[r].bld].source = "rollback" /\ req[r].bld # req[r].src
          /\ builds[req[r].bld].contents = builds[req[r].src].contents
      BY <2>0, <3>1, Known DEF Returning, At, Contents
    <3>3. /\ builds'[req[r].bld].source = "rollback"
          /\ builds'[req[r].bld].contents = builds[req[r].src].contents
          /\ deleted' = deleted
      BY <1>0, <3>1, <3>2, StatusShape
    <3> QED BY <2>0, <3>1, <3>2, <3>3, Known DEF Returning, Contents, Keeps
  <2> QED BY <1>1, <2>3, <2>4, <2>5, PastOfOne
<1> QED BY <1>2, <1>3

LEMMA ReadPast ==
  ASSUME NEW r \in Requests, Turn(r), Route(r) \/ Diff(r) \/ Promote(r)
  PROVE  PastInv'
<1>0. TypeInv /\ AtMostOneMain
  BY Known
<1>1. AtMostOneMain' /\ PastSound' /\ UNCHANGED <<builds, mains, deleted, promoted>>
  BY <1>0, SamePast, ReadShape DEF rows, history
<1>2. CASE Retired(r)
  BY <1>1, <1>2, PastOfOne
<1>3. CASE ~Retired(r) /\ ~Promote(r)
  <2>1. /\ req'[r].op = req[r].op /\ req'[r].bld = req[r].bld /\ req'[r].item = req[r].item
        /\ \/ req[r].pc = "route" /\ req'[r].pc \in {"promote", "diff"} /\ req'[r].src = req[r].src
           \/ req[r].pc = "diff" /\ req'[r].pc = "insert" /\ req'[r].src = req[r].bld
    BY <1>0, <1>3, ReadShape DEF At, Keeps
  <2>2. req[r].op = "publish" /\ req[r].src = NoBuild /\ req[r].bld \notin promoted /\ req[r].bld \in BuildIds
    BY <2>1, Known DEF Staged, Fresh, Settled, TypeInv, HasBuild, InFlight, Request, OpKinds
  <2>3. InFlight(r)' /\ Staged(r)'
    BY <2>1, <2>2, Known DEF Staged, InFlight
  <2>4. Fresh(r)' /\ Returning(r)'
    BY <1>1, <2>1, <2>2 DEF Fresh, Returning, At, Settled
  <2> QED BY <1>1, <2>3, <2>4, PastOfOne
<1>4. CASE Promote(r)
  <2>1. /\ Keeps(r) /\ req[r].pc = "promote" /\ req'[r].pc = "commit"
        /\ req'[r].cut = mains \ {req[r].bld}
    BY <1>0, <1>4, ReadShape DEF At
  <2>2. InFlight(r)' /\ Staged(r)'
    BY <2>1, Known DEF Staged, InFlight, Keeps
  <2>3. Fresh(r)' /\ Returning(r)'
    BY <1>1, <2>1, Known DEF Fresh, Returning, At, Settled, Keeps, Contents, Holds
  <2> QED BY <1>1, <2>2, <2>3, PastOfOne
<1> QED BY <1>2, <1>3, <1>4

LEMMA CommitPast ==
  ASSUME NEW r \in Requests, Turn(r), Commit(r)
  PROVE  PastInv'
<1>0. /\ TypeInv /\ req[r].pc = "commit" /\ req[r].bld \in BuildIds
      /\ req[r].cut = mains \ {req[r].bld} /\ builds[req[r].bld].status = "approved"
  BY CommitShape, Known DEF At, Fresh, AsBelieved, Settled
<1>1. mains' = {req[r].bld} /\ promoted' = promoted \cup {req[r].bld} /\ builds' = builds
  BY <1>0, CommitShape
<1>2. AtMostOneMain' /\ PastSound'
  BY <1>0, <1>1, Known DEF AtMostOneMain, PastSound
<1>3. CASE ~Retired(r)
  <2>1. Keeps(r) /\ req'[r].pc = "refresh" /\ req[r].item # {}
    BY <1>0, <1>3, CommitShape
  <2>2. InFlight(r)' /\ Staged(r)' /\ req[r].op = "delete"
    BY <2>1, Known DEF Staged, InFlight, Keeps
  <2>3. Fresh(r)' /\ Returning(r)'
    BY <1>1, <2>1, <2>2 DEF Fresh, Returning, At, Settled, Keeps
  <2> QED BY <1>2, <2>2, <2>3, PastOfOne
<1> QED BY <1>2, <1>3, PastOfOne

LEMMA EndPast ==
  ASSUME NEW r \in Requests, Turn(r), Refresh(r) \/ FinalizeFails(r) \/ Crash(r)
  PROVE  PastInv'
<1>0. TypeInv
  BY Known
<1>1. AtMostOneMain' /\ PastSound' /\ UNCHANGED <<builds, mains, deleted, promoted>>
  BY <1>0, SamePast, EndShape DEF rows, history
<1>2. CASE Retired(r)
  BY <1>1, <1>2, PastOfOne
<1>3. CASE ~Retired(r)
  <2>1. req[r].op = "delete" /\ req'[r].op = "delete" /\ req'[r].bld = req[r].bld
          /\ req'[r].src = req[r].src
    BY <1>0, <1>3, EndShape, Known DEF Staged, Keeps, At, Request, OpKinds, InFlight
  <2>2. \/ req'[r].pc = "promote" /\ req[r].bld \notin promoted
        \/ req'[r].pc = "refresh" /\ (req[r].bld \in mains \/ req[r].bld \notin promoted)
    <3>1. CASE Refresh(r)
      BY <1>0, <1>3, <3>1, EndShape, Known DEF Fresh, At
    <3>2. CASE FinalizeFails(r)
      <4>1. /\ req'[r].pc = "refresh"
            /\ req[r].pc \in {"submit", "approve", "promote", "commit"}
        BY <1>0, <3>2, EndShape
      <4>2. req[r].pc \in {"submit", "approve"} => builds[req[r].bld].status # "approved"
        BY Known DEF AsBelieved, Open, Editable
      <4> QED BY <4>1, <4>2, Known DEF Fresh, Settled, PastSound
    <3> QED BY <1>0, <1>3, <3>1, <3>2, EndShape
  <2>3. InFlight(r)' /\ Staged(r)'
    BY <1>0, <1>3, <2>1, <2>2, EndShape, Known DEF Staged, InFlight, Keeps
  <2>4. Fresh(r)' /\ Returning(r)'
    BY <1>1, <2>1, <2>2 DEF Fresh, Returning, At, Settled
  <2> QED BY <1>1, <2>3, <2>4, PastOfOne
<1> QED BY <1>2, <1>3

LEMMA PastStep ==
  ASSUME Serial, TypeInv, SerialInv, PastInv, [Next]_vars
  PROVE  PastInv'
<1>1. CASE UNCHANGED vars
  BY <1>1 DEF vars, PastInv, AtRest, AtMostOneMain, PastSound, Staged, Fresh, Returning, InFlight,
              At, Contents, Holds
<1>2. ASSUME NEW r \in Requests, Start(r) \/ Advance(r) \/ Crash(r) PROVE PastInv'
  <2>1. Turn(r)
    BY <1>2, TurnTaken
  <2> QED
    BY <1>2, <2>1, StartPast, FindDraftPast, InsertPast, CopyPast, WritePast, StatusPast, ReadPast,
       CommitPast, EndPast
    DEF Advance
<1> QED BY <1>1, <1>2 DEF Next

LEMMA InitPast == Init => PastInv
<1> SUFFICES ASSUME Init PROVE PastInv
  OBVIOUS
<1>1. \A r \in Requests : req[r] = Resting("idle")
  BY DEF Init
<1>2. AtRest /\ \A r \in Requests : Staged(r) /\ Fresh(r) /\ Returning(r)
  BY <1>1, RestSound DEF AtRest
<1>3. AtMostOneMain /\ PastSound
  <2>1. \A s : FirstMain(s).status = "approved"
    BY DEF FirstMain, NewDraft, Absent
  <2>2. 1 \in BuildIds
    BY ConstantsAssumption DEF BuildIds
  <2> QED BY <2>1, <2>2 DEF Init, AtMostOneMain, PastSound
<1> QED BY <1>2, <1>3 DEF PastInv

SerialPast == TypeInv /\ SerialInv /\ PastInv

LEMMA SerialPastHolds == Serial => (Spec => []SerialPast)
<1> SUFFICES ASSUME Serial PROVE Spec => []SerialPast
  OBVIOUS
<1>1. SerialPast /\ [Next]_vars => SerialPast'
  BY NextTypeInv, SerialStep, PastStep DEF SerialPast
<1>2. Init => SerialPast
  BY InitTypeInv, InitSerialInv, InitPast DEF SerialPast
<1> QED BY <1>1, <1>2, PTL DEF Spec

\* A build newly made live is that of the request whose turn it is, at its commit.
LEMMA NewlyLive ==
  ASSUME Serial, SerialPast, Next, NEW b \in mains' \ mains
  PROVE  \E r \in Requests :
           /\ Turn(r) /\ Commit(r) /\ b = req[r].bld
           /\ req[r].bld \notin promoted /\ mains' = {b}
           /\ \A s \in Requests \ {r} : req[s].op = "none" /\ req[s].bld = NoBuild
<1>1. PICK r \in Requests : Start(r) \/ Advance(r) \/ Crash(r)
  BY DEF Next
<1>2. Turn(r) /\ TypeInv
  BY <1>1, TurnTaken DEF SerialPast
<1>3. Commit(r)
  BY <1>1, <1>2, QuietStep, ReadShape, Known DEF rows
<1>4. b = req[r].bld /\ req[r].bld \notin promoted /\ mains' = {b}
  BY <1>2, <1>3, CommitShape, Known DEF Fresh, At, Settled
<1>5. \A s \in Requests \ {r} : req[s].op = "none" /\ req[s].bld = NoBuild
  BY <1>2, RestSound DEF Turn, PastInv, AtRest
<1> QED BY <1>2, <1>3, <1>4, <1>5

\* Requests that do not overlap make a build live at most once, whoever died before.
THEOREM SerialLiveOnlyOnce == Serial => (Spec => LiveOnlyOnce)
<1> SUFFICES ASSUME Serial PROVE Spec => LiveOnlyOnce
  OBVIOUS
<1>1. SerialPast /\ [Next]_vars => [(mains' \ mains) \cap promoted = {}]_vars
  BY NewlyLive
<1> QED BY <1>1, SerialPastHolds, PTL DEF Spec, LiveOnlyOnce

\* Requests that do not overlap bring back, in a rollback, exactly the target
\* and none of its instructions soft-deleted, whoever died before.
THEOREM SerialRollbackIsExact == Serial => (Spec => RollbackIsExact)
<1> SUFFICES ASSUME Serial PROVE Spec => RollbackIsExact
  OBVIOUS
<1>1. SerialPast /\ [Next]_vars =>
        [\A r \in Requests :
           req[r].op = "rollback" /\ req[r].bld \in mains' \ mains =>
             /\ builds[req[r].bld].contents = builds[req[r].src].contents
             /\ Holds(builds[req[r].bld].contents) \cap deleted = {}]_vars
  <2> SUFFICES ASSUME SerialPast, Next, NEW r \in Requests,
                      req[r].op = "rollback", req[r].bld \in mains' \ mains
               PROVE  /\ builds[req[r].bld].contents = builds[req[r].src].contents
                      /\ Holds(builds[req[r].bld].contents) \cap deleted = {}
    OBVIOUS
  <2>1. Turn(r) /\ Commit(r)
    BY NewlyLive
  <2>2. Returning(r) /\ TypeInv /\ req[r].pc = "commit" /\ req[r].bld \in BuildIds
    BY <2>1, Known, CommitShape DEF At
  <2>3. Contents(req[r].bld) = builds[req[r].bld].contents
        /\ Contents(req[r].src) = builds[req[r].src].contents
    BY <2>2 DEF Contents, Returning, BuildIds, NoBuild
  <2> QED BY <2>2, <2>3 DEF Returning, At
<1> QED BY <1>1, SerialPastHolds, PTL DEF Spec, RollbackIsExact
-----------------------------------------------------------------------------
\* With everybody else at rest, who is landing or in the making is up to r.
Makes(r, b) ==
  /\ req[r].bld = b
  /\ At(r, "copy") \/ req[r].src \notin {NoBuild, b}

LEMMA AloneLands ==
  ASSUME NEW r \in Requests, Turn(r), NEW b \in BuildIds
  PROVE  /\ Landing(b) <=> Lands(r, b)
         /\ Landing(b)' <=> Lands(r, b)'
         /\ InMaking(b) <=> Makes(r, b)
         /\ InMaking(b)' <=> Makes(r, b)'
<1>1. \A s \in Requests \ {r} : req[s] \in {Resting("idle"), Resting("done")}
                                 /\ req'[s] \in {Resting("idle"), Resting("done")}
  BY DEF Turn, PastInv, AtRest
<1>2. \A s \in Requests \ {r} : /\ req[s].bld = NoBuild /\ req[s].src = NoBuild
                                /\ req'[s].bld = NoBuild /\ req'[s].src = NoBuild
  BY <1>1, RestSound, RestSoundNext
<1>3. NoBuild # b
  BY DEF NoBuild, BuildIds
<1> QED BY <1>2, <1>3 DEF Landing, Lands, InMaking, Makes

LEMMA LandedOfOne ==
  ASSUME NEW r \in Requests, Turn(r), LandedInv,
         promoted \subseteq promoted', published \subseteq published',
         \A b \in BuildIds :
           builds'[b].status = "approved" /\ (builds[b].status # "approved" \/ Lands(r, b))
             => b \in promoted' \cup published' \/ Lands(r, b)',
         Retired(r) \/ Ending(r)'
  PROVE  LandedInv'
<1>1. ASSUME NEW b \in BuildIds, builds'[b].status = "approved"
      PROVE  b \in promoted' \cup published' \/ Landing(b)'
  BY <1>1, AloneLands DEF LandedInv
<1>2. \A s \in Requests \ {r} : req'[s] \in {Resting("idle"), Resting("done")}
  BY DEF Turn, PastInv, AtRest
<1>3. ASSUME NEW s \in Requests, req'[s] \in {Resting("idle"), Resting("done")}
      PROVE  Ending(s)'
  BY <1>3, RestSoundNext DEF Ending, At
<1>4. \A s \in Requests : Ending(s)'
  BY <1>2, <1>3 DEF Retired
<1> QED BY <1>1, <1>4 DEF LandedInv

\* What r is about to land while it is at each stage.
LEMMA LandsWhat ==
  ASSUME NEW r \in Requests, Turn(r), LandedInv
  PROVE  /\ LandedInv /\ Ending(r)
         /\ \A b \in BuildIds : builds[b].status = "approved" /\ Lands(r, b) =>
              \/ b = req[r].bld /\ req[r].pc \in Settled
              \/ b = req[r].src /\ req[r].op = "publish"
<1>1. ASSUME NEW b \in BuildIds, builds[b].status = "approved", req[r].bld = b, ~At(r, "refresh")
      PROVE  req[r].pc \in Settled \/ (b = req[r].src /\ req[r].op = "publish")
  <2>1. req[r].pc \notin Open
    BY <1>1, Known DEF AsBelieved, Editable
  <2>2. req[r].pc \notin {"draft", "idle", "done"}
    BY <1>1, RestSound, Known DEF Staged, Turn, PastInv, AtRest, InFlight, At
  <2>3. req[r].pc = "insert" => b = req[r].src /\ req[r].op = "publish"
    BY <1>1, Known DEF Staged, InFlight
  <2> QED BY <1>1, <2>1, <2>2, <2>3, Known DEF Request, Labels, Open, Settled, At
<1> QED BY <1>1 DEF LandedInv, Lands

LEMMA StartLanded ==
  ASSUME NEW r \in Requests, Turn(r), Start(r), LandedInv
  PROVE  LandedInv'
<1>0. TypeInv
  BY Known
<1>1. req[r].bld = NoBuild /\ req[r].src = NoBuild
  BY <1>0, StartShape, RestSound DEF Turn, PastInv, AtRest, InFlight, At
<1>2. Ending(r)'
  BY <1>0, StartShape DEF Ending, At
<1>3. \A b \in BuildIds : ~Lands(r, b)
  BY <1>1, Known DEF Lands
<1> QED BY <1>0, <1>2, <1>3, StartShape, LandedOfOne DEF history

LEMMA BuildLanded ==
  ASSUME NEW r \in Requests, Turn(r), LandedInv,
         FindDraft(r) \/ Insert(r) \/ Copy(r) \/ Edit(r) \/ Add(r) \/ Filter(r) \/ Apply(r)
  PROVE  LandedInv'
<1>0. TypeInv /\ (At(r, "copy") => Contents(req[r].bld) = Empty)
  BY Known DEF Fresh
<1>1. CASE FindDraft(r)
  <2>1. req[r].op \in {"save", "accept", "delete"} /\ req[r].src = NoBuild
    BY <1>0, <1>1, FindDraftShape, Known DEF Staged, At, Request, OpKinds, InFlight
  <2>2. \A b \in BuildIds : builds[b].status = "approved" => ~Lands(r, b)
    BY <1>0, <1>1, <2>1, LandsWhat, FindDraftShape DEF Settled, At
  <2>3. Ending(r)'
    BY <1>0, <1>1, <2>1, FindDraftShape DEF Ending, At, Keeps
  <2> QED BY <1>0, <1>1, <2>2, <2>3, FindDraftShape, LandedOfOne DEF rows, history
<1>2. CASE Insert(r)
  <2>1. \A b \in BuildIds : builds[b].status = "approved" /\ Lands(r, b) =>
           b = req[r].src /\ req[r].op = "publish"
    BY <1>0, <1>2, LandsWhat, InsertShape DEF Settled, At
  <2>2. \A b \in BuildIds : builds'[b].status = "approved" => builds[b].status = "approved"
    BY <1>0, <1>2, InsertShape DEF NewDraft, Absent
  <2>3. Ending(r)'
    BY <1>0, <1>2, InsertShape, LandsWhat, Known DEF Ending, At, Request
  <2> QED BY <1>0, <1>2, <2>1, <2>2, <2>3, InsertShape, LandedOfOne DEF Lands
<1>3. CASE ~FindDraft(r) /\ ~Insert(r)
  <2>1. /\ req[r].pc \in Open /\ req[r].bld \in BuildIds /\ builds[req[r].bld].status # "approved"
        /\ builds'[req[r].bld].status = builds[req[r].bld].status
        /\ \A b \in BuildIds \ {req[r].bld} : builds'[b] = builds[b]
        /\ UNCHANGED <<mains, history>>
    <3>1. req[r].pc \in Open
      BY <1>3 DEF Copy, Edit, Add, Filter, Apply, At, Open
    <3>2. builds[req[r].bld].status # "approved"
      BY <3>1, Known DEF AsBelieved, Editable
    <3>3. CASE Copy(r)
      BY <1>0, <3>1, <3>2, <3>3, CopyShape DEF Copy
    <3> QED BY <1>0, <1>3, <3>1, <3>2, <3>3, WriteShape
  <2>2. Retired(r) \/ (Keeps(r) /\ req'[r].pc \in Open)
    <3>1. CASE Copy(r)
      BY <1>0, <3>1, CopyShape DEF Copy, AfterCopy, Open
    <3> QED BY <1>0, <1>3, <3>1, WriteShape DEF Open
  <2>3. \A b \in BuildIds : builds[b].status = "approved" /\ Lands(r, b) =>
           b = req[r].src /\ req[r].op = "publish"
    BY <2>1, LandsWhat DEF Settled, Open
  <2>4. Retired(r) => req[r].src = NoBuild \/ req[r].op # "publish"
    <3>1. CASE Copy(r) /\ req[r].op = "open"
      BY <3>1
    <3>2. CASE Edit(r)
      BY <3>2, Known DEF Staged, Edit, At
    <3>3. Copy(r) /\ req[r].op # "open" => Keeps(r) /\ req'[r].pc \in Open
      BY <1>0, CopyShape DEF Copy, AfterCopy, Open
    <3> QED BY <1>0, <1>3, <3>1, <3>2, <3>3, WriteShape DEF Retired, Resting, Open
  <2>5. Retired(r) \/ Ending(r)'
    <3> SUFFICES ASSUME Keeps(r), req'[r].pc \in Open PROVE Ending(r)'
      BY <2>2
    <3> QED BY <2>1, LandsWhat, Known DEF Ending, At, Open, Keeps, Request
  <2>6. \A b \in BuildIds : builds[b].status = "approved" /\ Lands(r, b) => Lands(r, b)'
    BY <2>2, <2>3, <2>4, Known DEF Lands, Keeps
  <2>7. promoted \subseteq promoted' /\ published \subseteq published'
    BY <2>1 DEF history
  <2>8. \A b \in BuildIds : builds'[b].status = "approved" => builds[b].status = "approved"
    BY <2>1
  <2> QED BY <2>5, <2>6, <2>7, <2>8, LandedOfOne
<1> QED BY <1>1, <1>2, <1>3

LEMMA StatusLanded ==
  ASSUME NEW r \in Requests, Turn(r), LandedInv, Reject(r) \/ Submit(r) \/ Approve(r)
  PROVE  LandedInv'
<1>0. /\ TypeInv /\ req[r].pc \in Open /\ req[r].bld \in BuildIds
      /\ \A c \in BuildIds \ {req[r].bld} : builds'[c] = builds[c]
      /\ UNCHANGED <<mains, history>>
  BY StatusShape, Known DEF Open, At
<1>1. \A b \in BuildIds : builds[b].status = "approved" /\ Lands(r, b) =>
         b = req[r].src /\ req[r].op = "publish" /\ b # req[r].bld
  BY <1>0, LandsWhat, Known DEF Settled, Open, AsBelieved, Editable
<1>2. CASE Retired(r)
  <2>1. req[r].op # "publish" /\ builds'[req[r].bld].status # "approved"
    BY <1>0, <1>2, StatusShape, Known DEF Staged, At, Retired, Resting, Keeps
  <2>2. \A b \in BuildIds : builds'[b].status = "approved" =>
           builds[b].status = "approved" /\ ~Lands(r, b)
    BY <1>0, <1>1, <2>1
  <2> QED BY <1>0, <1>2, <2>2, LandedOfOne DEF history
<1>3. CASE ~Retired(r)
  <2>1. /\ Keeps(r)
        /\ \/ req'[r].pc \in {"approve", "refresh"} /\ builds'[req[r].bld].status = "pending_approval"
           \/ req'[r].pc \in {"route", "promote"}
    BY <1>0, <1>3, StatusShape
  <2>2. Ending(r)'
    BY <1>0, <2>1, LandsWhat, Known DEF Ending, At, Keeps, Editable, Request
  <2>3. \A b \in BuildIds :
          builds'[b].status = "approved" /\ (builds[b].status # "approved" \/ Lands(r, b))
            => Lands(r, b)'
    BY <1>0, <1>1, <2>1 DEF Lands, Keeps, At
  <2> QED BY <1>0, <2>2, <2>3, LandedOfOne DEF history
<1> QED BY <1>2, <1>3

LEMMA ReadLanded ==
  ASSUME NEW r \in Requests, Turn(r), LandedInv, Route(r) \/ Diff(r) \/ Promote(r)
  PROVE  LandedInv'
<1>0. /\ TypeInv /\ AtMostOneMain /\ UNCHANGED <<builds, mains, promoted, published>>
      /\ req[r].pc \in {"route", "diff", "promote"}
      /\ builds[req[r].bld].status = "approved"
      /\ Ending(r)
  BY ReadShape, LandsWhat, Known DEF rows, history, At, AsBelieved, Settled
<1>1. \/ Keeps(r) /\ req'[r].pc \in {"promote", "diff", "commit"}
      \/ /\ req'[r].pc = "insert" /\ req'[r].op = "publish"
         /\ req'[r].bld = req[r].bld /\ req'[r].src = req[r].bld
  <2>1. CASE Diff(r)
    <3>1. mains = {req[r].main} /\ req[r].op = "publish" /\ req[r].pc = "diff"
      BY <1>0, <2>1, ReadShape, Known DEF Ending, At, Staged, Request, OpKinds, InFlight
    <3> QED BY <1>0, <2>1, <3>1, ReadShape
  <2>2. CASE Route(r) \/ Promote(r)
    BY <1>0, <2>2, ReadShape
  <2> QED BY <2>1, <2>2
<1>2. Ending(r)'
  <2>1. req'[r].pc = "diff" => mains = {req'[r].main}
    <3>1. CASE Route(r)
      BY <1>0, <3>1, ReadShape
    <3>2. CASE Diff(r)
      BY <1>0, <3>2, ReadShape DEF Retired, Resting
    <3>3. CASE Promote(r)
      BY <1>0, <3>3, ReadShape
    <3> QED BY <3>1, <3>2, <3>3
  <2> QED BY <1>0, <1>1, <2>1 DEF Ending, At, Keeps
<1>3. \A b \in BuildIds : builds[b].status = "approved" /\ Lands(r, b) => Lands(r, b)'
  <2>1. req[r].op = "publish" /\ req[r].pc \in {"route", "diff"} => req[r].src = NoBuild
    BY Known DEF Staged
  <2>2. Diff(r) => req[r].pc = "diff"
    BY DEF Diff, At
  <2>3. req'[r].pc = "insert" => req[r].op = "publish" /\ req[r].src = NoBuild
    <3>1. CASE Diff(r)
      BY <2>1, <2>2, <3>1, Known DEF Staged, Request, OpKinds, InFlight
    <3>2. CASE Route(r) \/ Promote(r)
      BY <1>0, <3>2, ReadShape
    <3> QED BY <3>1, <3>2
  <2> QED BY <1>0, <1>1, <2>3, Known DEF Lands, Keeps, At
<1> QED BY <1>0, <1>2, <1>3, LandedOfOne

LEMMA CommitLanded ==
  ASSUME NEW r \in Requests, Turn(r), LandedInv, Commit(r)
  PROVE  LandedInv'
<1>0. TypeInv /\ builds' = builds /\ mains' = (mains \ req[r].cut) \cup {req[r].bld}
      /\ req[r].bld \in BuildIds
  BY CommitShape, Known
<1>1. \A b \in BuildIds : Lands(r, b) => b \in promoted' \cup published'
  BY <1>0, CommitShape, Known DEF Lands
<1>2. Retired(r) \/ Ending(r)'
  <2> SUFFICES ASSUME Keeps(r), req'[r].pc = "refresh", req[r].item # {} PROVE Ending(r)'
    BY <1>0, CommitShape
  <2>1. req[r].op = "delete"
    BY Known DEF Staged
  <2> QED BY <1>0, <2>1 DEF Ending, At, Keeps
<1>3. promoted \subseteq promoted' /\ published \subseteq published'
  BY <1>0, CommitShape
<1> QED BY <1>0, <1>1, <1>2, <1>3, LandedOfOne

LEMMA EndLanded ==
  ASSUME NEW r \in Requests, Turn(r), LandedInv, "crash" \notin Ops,
         Refresh(r) \/ FinalizeFails(r) \/ Crash(r)
  PROVE  LandedInv'
<1>0. /\ TypeInv /\ UNCHANGED <<builds, promoted, published>> /\ Refresh(r)
      /\ req[r].pc = "refresh" /\ Ending(r)
  BY EndShape, LandsWhat, Known DEF rows, history, At
<1>1. Retired(r)
  BY <1>0, EndShape DEF Ending, At, Editable
<1>2. req[r].op = "delete"
  BY <1>0, Known DEF Staged, Request, OpKinds, InFlight
<1>3. \A b \in BuildIds : builds[b].status = "approved" => ~Lands(r, b)
  BY <1>0, <1>2, LandsWhat DEF Settled
<1> QED BY <1>0, <1>1, <1>3, LandedOfOne

LEMMA LandedStep ==
  ASSUME Serial, "crash" \notin Ops, SerialPast, LandedInv, [Next]_vars
  PROVE  LandedInv'
<1>1. CASE UNCHANGED vars
  BY <1>1 DEF vars, LandedInv, Landing, Ending, At
<1>2. ASSUME NEW r \in Requests, Start(r) \/ Advance(r) \/ Crash(r) PROVE LandedInv'
  <2>1. Turn(r)
    BY <1>2, TurnTaken DEF SerialPast
  <2> QED
    BY <1>2, <2>1, StartLanded, BuildLanded, StatusLanded, ReadLanded, CommitLanded, EndLanded
    DEF Advance
<1> QED BY <1>1, <1>2 DEF Next

LEMMA InitLanded == Init => LandedInv
<1> SUFFICES ASSUME Init PROVE LandedInv
  OBVIOUS
<1>1. \A r \in Requests : req[r] = Resting("idle")
  BY DEF Init
<1>2. \A r \in Requests : Ending(r)
  BY <1>1, RestSound DEF Ending, At
<1>3. \A b \in BuildIds : builds[b].status = "approved" => b \in promoted
  BY DEF Init, Absent
<1> QED BY <1>2, <1>3 DEF LandedInv

\* Requests that do not overlap and do not die leave no approved build behind
\* that has neither gone live nor had its change land.
THEOREM SerialApprovedHasLanded ==
  Serial /\ "crash" \notin Ops => (Spec => []ApprovedHasLanded)
<1> SUFFICES ASSUME Serial, "crash" \notin Ops PROVE Spec => []ApprovedHasLanded
  OBVIOUS
<1>1. SerialPast /\ LandedInv /\ [Next]_vars => LandedInv'
  BY LandedStep
<1>2. SerialPast /\ LandedInv => ApprovedHasLanded
  <2> SUFFICES ASSUME SerialPast, LandedInv, \A r \in Requests : ~InFlight(r),
                      NEW b \in BuildIds, builds[b].status = "approved"
               PROVE  b \in promoted \cup published
    BY DEF ApprovedHasLanded
  <2>1. \A r \in Requests : req[r].bld = NoBuild /\ req[r].src = NoBuild
    BY RestSound DEF SerialPast, PastInv, AtRest
  <2>2. ~Landing(b)
    BY <2>1 DEF Landing, NoBuild, BuildIds
  <2> QED BY <2>2 DEF LandedInv
<1> QED BY <1>1, <1>2, InitLanded, SerialPastHolds, PTL DEF Spec
-----------------------------------------------------------------------------
\* What the invariant says of r while everybody else is at rest.
LEMMA LineWhat ==
  ASSUME NEW r \in Requests, Turn(r), LineInv
  PROVE  /\ mains = {TheMain} /\ TheMain \in promoted /\ TheMain \in BuildIds
         /\ builds[TheMain].status = "approved" /\ Live = builds[TheMain].contents
         /\ \A b \in BuildIds : builds[b].status = "draft" /\ builds[b].source = "user" =>
                                  Drafting(r, b)
         /\ \A b \in BuildIds : builds[b].status \in Editable =>
                                  builds[b].base \in promoted \/ Makes(r, b)
         /\ OnLine(r)
<1>1. \A s \in Requests \ {r} : req[s].bld = NoBuild
  BY RestSound DEF Turn, PastInv, AtRest
<1>2. \A s \in Requests \ {r}, b \in BuildIds : ~Drafting(s, b)
  BY <1>1, Known DEF Drafting
<1>3. \E m \in mains : mains = {m}
  BY Known DEF LineInv, AtMostOneMain
<1>4. mains = {TheMain} /\ TheMain \in mains
  BY <1>3 DEF TheMain
<1>5. /\ TheMain \in promoted /\ TheMain \in BuildIds /\ builds[TheMain].status = "approved"
      /\ TheMain # NoBuild
  BY <1>4, Known DEF PastSound
<1> QED BY <1>2, <1>4, <1>5, AloneLands DEF LineInv, Live, Contents

LEMMA LineOfOne ==
  ASSUME NEW r \in Requests, Turn(r), mains' # {},
         \A b \in BuildIds : builds'[b].status = "draft" /\ builds'[b].source = "user" =>
                               Drafting(r, b)',
         \A b \in BuildIds : builds'[b].status \in Editable =>
                               builds'[b].base \in promoted' \/ Makes(r, b)',
         Retired(r) \/ OnLine(r)'
  PROVE  LineInv'
<1>1. \A s \in Requests \ {r} : req'[s] \in {Resting("idle"), Resting("done")}
  BY DEF Turn, PastInv, AtRest
<1>2. ASSUME NEW s \in Requests, req'[s] \in {Resting("idle"), Resting("done")}
      PROVE  OnLine(s)'
  BY <1>2, RestSoundNext DEF OnLine, Forked, Merging
<1>3. \A s \in Requests : OnLine(s)'
  BY <1>1, <1>2 DEF Retired
<1> QED BY <1>3, AloneLands DEF LineInv

\* What is live stays as long as no other build becomes main, and so do the
\* change a merge carries and the base it was made from.
LEMMA LiveSame ==
  ASSUME NEW r \in Requests, Turn(r), LineInv, mains' = mains
  PROVE  /\ TheMain' = TheMain /\ Live' = Live
         /\ \A b \in promoted : builds'[b] = builds[b] /\ Contents(b) = builds[b].contents
<1>1. TheMain' = TheMain
  BY DEF TheMain
<1>2. \A b \in promoted : builds'[b] = builds[b] /\ b \in BuildIds /\ b # NoBuild
  BY Known DEF PastSound
<1> QED BY <1>1, <1>2, LineWhat DEF Live, Contents

\* A merge under way goes on, with the build at hand described by c.
LEMMA MergeGoesOn ==
  ASSUME NEW r \in Requests, Turn(r), LineInv, LandedInv, UNCHANGED <<mains, promoted>>,
         req[r].op = "publish", req[r].src # NoBuild,
         req'[r].op = req[r].op, req'[r].src = req[r].src,
         req'[r].from = req[r].from, req'[r].to = req[r].to,
         req'[r].pc = "apply" => Contents(req[r].bld)' = Live,
         req'[r].pc \in {"approve", "promote", "commit"} =>
           Contents(req[r].bld)' = Merge(req[r].from, req[r].to, Live)
  PROVE  Merging(r)'
<1>1. /\ builds[req[r].src].base \in promoted
      /\ req[r].from = Contents(builds[req[r].src].base)
      /\ req[r].to = Contents(req[r].src)
  BY LineWhat DEF OnLine, Merging
<1>2. req[r].src \in BuildIds /\ builds'[req[r].src] = builds[req[r].src]
  BY LandsWhat, Known DEF Ending, Request
<1>3. Live' = Live /\ builds'[builds[req[r].src].base] = builds[builds[req[r].src].base]
  BY <1>1, LiveSame
<1>4. /\ Contents(builds[req[r].src].base)' = Contents(builds[req[r].src].base)
      /\ Contents(req[r].src)' = Contents(req[r].src)
  BY <1>2, <1>3 DEF Contents
<1> QED BY <1>1, <1>2, <1>3, <1>4 DEF Merging, At

LEMMA StartLine ==
  ASSUME NEW r \in Requests, Turn(r), LineInv, Orderly, Start(r)
  PROVE  LineInv'
<1>0. TypeInv /\ UNCHANGED <<builds, mains, promoted>> /\ mains # {}
  BY Known, StartShape DEF history, LineInv
<1>1. req[r].bld = NoBuild /\ req[r].src = NoBuild
  BY <1>0, StartShape, RestSound DEF Turn, PastInv, AtRest, InFlight, At
<1>2. \A b \in BuildIds : ~Drafting(r, b) /\ ~Makes(r, b)
  BY <1>1, Known DEF Drafting, Makes
<1>3. req'[r].op # "learn" /\ ~Forked(r)' /\ req'[r].pc \notin {"route", "diff"}
  BY <1>0, StartShape DEF Forked, Orderly, Authors
<1>4. Merging(r)'
  <2> SUFFICES ASSUME req'[r].op = "publish" PROVE Merging(r)'
    BY DEF Merging
  <2>1. /\ req'[r].src = NoBuild /\ req'[r].bld \in BuildIds
        /\ req'[r].seen = builds[req'[r].bld]
    BY <1>0, StartShape
  <2> QED BY <1>0, <2>1, Known DEF Merging, Contents
<1>5. OnLine(r)'
  BY <1>3, <1>4 DEF OnLine
<1> QED BY <1>0, <1>2, <1>5, LineWhat, LineOfOne

LEMMA FindDraftLine ==
  ASSUME NEW r \in Requests, Turn(r), LineInv, FindDraft(r)
  PROVE  LineInv'
<1>0. TypeInv /\ UNCHANGED <<builds, mains, promoted>> /\ mains # {} /\ req[r].pc = "draft"
  BY Known, FindDraftShape DEF rows, history, LineInv, At
<1>1. req[r].bld = NoBuild /\ req[r].op \in Authors /\ req[r].src = NoBuild
  BY <1>0, Known DEF Staged, Request, OpKinds, InFlight, Authors
<1>2. \A b \in BuildIds : ~Drafting(r, b) /\ ~Makes(r, b)
  BY <1>1, Known DEF Drafting, Makes
<1>3. SharedDrafts = {}
  BY <1>2, LineWhat DEF SharedDrafts
<1>4. req'[r].pc = "insert" /\ Keeps(r)
  BY <1>0, <1>3, FindDraftShape
<1>5. OnLine(r)'
  BY <1>1, <1>4 DEF OnLine, Forked, Merging, Keeps, Authors
<1> QED BY <1>0, <1>2, <1>5, LineWhat, LineOfOne

LEMMA InsertLine ==
  ASSUME NEW r \in Requests, Turn(r), LineInv, LandedInv, Orderly, Insert(r)
  PROVE  LineInv'
<1>0. TypeInv /\ UNCHANGED <<mains, promoted>> /\ mains # {} /\ req[r].pc = "insert"
  BY Known, InsertShape DEF LineInv, At
<1>a. PICK n \in BuildIds : n = req'[r].bld
  BY <1>0, InsertShape
<1>1. /\ n = req'[r].bld /\ req'[r].pc = "copy" /\ req'[r].op = req[r].op /\ req'[r].src = req[r].src
      /\ req'[r].from = req[r].from /\ req'[r].to = req[r].to
      /\ \A b \in BuildIds \ {n} : builds'[b] = builds[b]
  BY <1>0, <1>a, InsertShape
<1>2. \A b \in BuildIds : ~Drafting(r, b) /\ ~Makes(r, b)
  BY <1>0, Known DEF Drafting, Makes, Staged, InFlight, At
<1>3. req[r].op \in {"open", "publish", "rollback"} \cup Authors
  BY <1>0, Known DEF Staged, Request, OpKinds, InFlight, Authors
<1>4. builds'[n].source = "user" => req[r].op \in Authors
  <2>1. PICK s \in SourcesOf(req[r].op) : builds'[n] = NewDraft(s)
    BY <1>0, <1>a, InsertShape
  <2>2. builds'[n].source = s
    BY <2>1 DEF NewDraft, Absent
  <2> QED BY <1>3, <2>2 DEF SourcesOf, Orderly
<1>5. Makes(r, n)' /\ (req[r].op \in Authors => Drafting(r, n)')
  BY <1>1 DEF Makes, Drafting, At
<1>6. OnLine(r)'
  <2>1. Merging(r)'
    <3>1. CASE req[r].op = "publish"
      <4>1. req[r].src # NoBuild
        BY <1>0, <3>1, Known DEF Staged
      <4> QED BY <1>0, <1>1, <3>1, <4>1, MergeGoesOn
    <3>2. CASE req[r].op # "publish"
      BY <1>1, <3>2 DEF Merging
    <3> QED BY <3>1, <3>2
  <2>2. ~Forked(r)' /\ req'[r].op # "learn"
    BY <1>1, LineWhat DEF Forked, OnLine
  <2> QED BY <1>1, <2>1, <2>2 DEF OnLine
<1>7. \A b \in BuildIds : builds'[b].status = "draft" /\ builds'[b].source = "user" =>
                            Drafting(r, b)'
  BY <1>1, <1>2, <1>4, <1>5, LineWhat
<1>8. \A b \in BuildIds : builds'[b].status \in Editable =>
                            builds'[b].base \in promoted' \/ Makes(r, b)'
  BY <1>0, <1>1, <1>2, <1>5, LineWhat
<1> QED BY <1>0, <1>6, <1>7, <1>8, LineOfOne

LEMMA CopyLine ==
  ASSUME NEW r \in Requests, Turn(r), LineInv, LandedInv, Copy(r)
  PROVE  LineInv'
<1>0. /\ TypeInv /\ UNCHANGED <<mains, promoted>> /\ mains # {} /\ req[r].pc = "copy"
      /\ Contents(req[r].bld) = Empty
  BY Known, CopyShape DEF LineInv, At, history, Fresh, Copy
<1>a. PICK x \in BuildIds : x = req[r].bld
  BY <1>0, CopyShape
<1>1. /\ x = req[r].bld /\ builds[x].status \in Editable
      /\ builds'[x].status = builds[x].status /\ builds'[x].source = builds[x].source
      /\ \A b \in BuildIds \ {x} : builds'[b] = builds[b]
      /\ req[r].op # "rollback" => builds'[x].base = TheMain /\ builds'[x].contents = Contents(TheMain)
  BY <1>0, <1>a, CopyShape, Known DEF AsBelieved, Open
<1>2. req[r].op \in {"open", "publish", "rollback"} \cup Authors
  BY <1>0, Known DEF Staged, Request, OpKinds, InFlight, Authors
<1>3. /\ req[r].op = "open" => Retired(r)
      /\ req[r].op = "publish" => Keeps(r) /\ req'[r].pc = "apply"
      /\ req[r].op = "rollback" => Keeps(r) /\ req'[r].pc = "approve"
      /\ req[r].op \in Authors => Keeps(r) /\ req'[r].pc = "add"
  BY <1>0, CopyShape DEF AfterCopy, Authors
<1>4. \A b \in BuildIds \ {x} : ~Drafting(r, b) /\ ~Makes(r, b)
  BY <1>1 DEF Drafting, Makes
<1>5. \A b \in BuildIds : builds'[b].status = "draft" /\ builds'[b].source = "user" =>
                            Drafting(r, b)'
  <2>1. builds[x].status = "draft" /\ builds[x].source = "user" => req[r].op \in Authors
    BY <1>1, LineWhat DEF Drafting
  <2>2. req[r].op \in Authors => Drafting(r, x)'
    BY <1>1, <1>3 DEF Drafting, Keeps
  <2> QED BY <1>1, <1>4, <2>1, <2>2, LineWhat
<1>6. \A b \in BuildIds : builds'[b].status \in Editable =>
                            builds'[b].base \in promoted' \/ Makes(r, b)'
  <2>1. req[r].op = "rollback" => Makes(r, x)'
    <3> SUFFICES ASSUME req[r].op = "rollback" PROVE Makes(r, x)'
      OBVIOUS
    <3>1. req[r].src \notin {NoBuild, x}
      BY <1>1, Known DEF Returning, Editable
    <3> QED BY <1>1, <1>3, <3>1 DEF Makes, Keeps
  <2>2. req[r].op # "rollback" => builds'[x].base \in promoted'
    BY <1>0, <1>1, LineWhat
  <2> QED BY <1>0, <1>1, <1>4, <2>1, <2>2, LineWhat
<1>7. Retired(r) \/ OnLine(r)'
  <2>1. CASE req[r].op = "publish"
    <3>1. req[r].src # NoBuild
      BY <1>0, <2>1, Known DEF Staged
    <3>2. Contents(x)' = Live
      BY <1>1, <1>3, <2>1, Known DEF Contents, Live, Keeps
    <3>3. Merging(r)'
      BY <1>0, <1>1, <1>3, <2>1, <3>1, <3>2, MergeGoesOn DEF Keeps
    <3>4. mains' = {builds'[x].base}
      BY <1>0, <1>1, <2>1, LineWhat
    <3> QED BY <1>1, <1>3, <2>1, <3>3, <3>4 DEF OnLine, Keeps
  <2>2. CASE req[r].op \in Authors
    <3>1. mains' = {builds'[x].base}
      BY <1>0, <1>1, <2>2, LineWhat DEF Authors
    <3> QED BY <1>1, <1>3, <2>2, <3>1 DEF OnLine, Keeps, Merging, Authors
  <2>3. CASE req[r].op = "rollback"
    BY <1>3, <2>3 DEF OnLine, Keeps, Merging, Forked, Authors
  <2> QED BY <1>2, <1>3, <2>1, <2>2, <2>3
<1> QED BY <1>0, <1>5, <1>6, <1>7, LineOfOne

LEMMA WriteLine ==
  ASSUME NEW r \in Requests, Turn(r), LineInv, LandedInv,
         Edit(r) \/ Add(r) \/ Filter(r) \/ Apply(r)
  PROVE  LineInv'
<1>0. /\ TypeInv /\ UNCHANGED <<mains, promoted>> /\ mains # {} /\ req[r].pc # "copy"
  BY Known, WriteShape DEF LineInv, At, history
<1>a. PICK x \in BuildIds : x = req[r].bld
  BY <1>0, WriteShape
<1>1. /\ x = req[r].bld
      /\ builds'[x].status = builds[x].status /\ builds'[x].source = builds[x].source
      /\ builds'[x].base = builds[x].base
      /\ \A b \in BuildIds \ {x} : builds'[b] = builds[b]
  BY <1>0, <1>a, WriteShape
<1>2. \/ Edit(r) /\ req[r].op = "edit" /\ req[r].src = NoBuild /\ Retired(r)
      \/ Add(r) /\ req[r].op \in Authors /\ req[r].src = NoBuild /\ Keeps(r)
           /\ req[r].pc = "add" /\ req'[r].pc = "submit"
      \/ Filter(r) /\ req[r].op = "publish" /\ req[r].src = NoBuild /\ Keeps(r)
           /\ req'[r].pc \in {"submit", "approve"} /\ req'[r].seen = req[r].seen
           /\ req[r].pc = "filter"
           /\ \A i \in Ins : builds'[x].contents[i] \in {NoVer, builds[x].contents[i]}
      \/ Apply(r) /\ req[r].op = "publish" /\ req[r].src # NoBuild /\ Keeps(r)
           /\ req[r].pc = "apply" /\ req'[r].pc = "approve"
           /\ builds'[x].contents = Merge(req[r].from, req[r].to, builds[x].contents)
  BY <1>0, <1>a, WriteShape, Known DEF At, Staged, Request, OpKinds, InFlight, Authors
<1>3. \A b \in BuildIds : Drafting(r, b) => Drafting(r, b)'
  BY <1>1, <1>2 DEF Drafting, Keeps, Authors
<1>4. \A b \in BuildIds : Makes(r, b) => Makes(r, b)'
  BY <1>0, <1>1, <1>2 DEF Makes, Keeps, At
<1>5. \A b \in BuildIds : /\ builds'[b].status = builds[b].status
                          /\ builds'[b].source = builds[b].source
                          /\ builds'[b].base = builds[b].base
  BY <1>1
<1>6. OnLine(r)
  BY LineWhat
<1>7. Retired(r) \/ OnLine(r)'
  <2>1. CASE Add(r) /\ req[r].op \in Authors /\ req[r].src = NoBuild /\ Keeps(r)
               /\ req[r].pc = "add" /\ req'[r].pc = "submit"
    <3>1. mains' = {builds'[x].base}
      BY <1>0, <1>1, <1>6, <2>1 DEF OnLine, Forked
    <3> QED BY <1>1, <2>1, <3>1 DEF OnLine, Keeps, Merging, Authors
  <2>2. CASE Filter(r) /\ req[r].op = "publish" /\ req[r].src = NoBuild /\ Keeps(r)
               /\ req'[r].pc \in {"submit", "approve"} /\ req'[r].seen = req[r].seen
               /\ req[r].pc = "filter"
               /\ \A i \in Ins : builds'[x].contents[i] \in {NoVer, builds[x].contents[i]}
    <3>1. /\ req[r].seen.base = builds[x].base
          /\ \A i \in Ins : builds[x].contents[i] \in {NoVer, req[r].seen.contents[i]}
      BY <1>1, <1>6, <2>2, Known DEF OnLine, Merging, Contents
    <3>2. \A i \in Ins : builds'[x].contents[i] \in {NoVer, req[r].seen.contents[i]}
      BY <2>2, <3>1
    <3>3. Merging(r)'
      BY <1>1, <2>2, <3>1, <3>2, Known DEF Merging, Keeps, Contents
    <3> QED BY <2>2, <3>3 DEF OnLine, Keeps, Forked, Authors
  <2>3. CASE Apply(r) /\ req[r].op = "publish" /\ req[r].src # NoBuild /\ Keeps(r)
               /\ req[r].pc = "apply" /\ req'[r].pc = "approve"
               /\ builds'[x].contents = Merge(req[r].from, req[r].to, builds[x].contents)
    <3>1. builds[x].contents = Live
      BY <1>1, <1>6, <2>3, Known DEF OnLine, Merging, Contents, At
    <3>2. Contents(x)' = Merge(req[r].from, req[r].to, Live)
      BY <2>3, <3>1, Known DEF Contents
    <3>3. Merging(r)'
      BY <1>0, <1>1, <2>3, <3>2, MergeGoesOn DEF Keeps
    <3>4. mains' = {builds'[x].base}
      BY <1>0, <1>1, <1>6, <2>3 DEF OnLine, Forked
    <3> QED BY <1>1, <2>3, <3>3, <3>4 DEF OnLine, Keeps
  <2> QED BY <1>2, <2>1, <2>2, <2>3
<1> QED BY <1>0, <1>3, <1>4, <1>5, <1>7, LineWhat, LineOfOne

LEMMA StatusLine ==
  ASSUME NEW r \in Requests, Turn(r), LineInv, LandedInv,
         Reject(r) \/ Submit(r) \/ Approve(r)
  PROVE  LineInv'
<1>0. /\ TypeInv /\ UNCHANGED <<mains, promoted>> /\ mains # {} /\ req[r].pc # "copy"
  BY Known, StatusShape DEF LineInv, At, history
<1>a. PICK x \in BuildIds : x = req[r].bld
  BY <1>0, StatusShape
<1>1. /\ x = req[r].bld /\ builds'[x].status \notin {"draft"}
      /\ builds'[x].source = builds[x].source
      /\ builds'[x].base = builds[x].base /\ builds'[x].contents = builds[x].contents
      /\ \A b \in BuildIds \ {x} : builds'[b] = builds[b]
      /\ builds[x].status \in Editable
  BY <1>0, <1>a, StatusShape, Known DEF AsBelieved, Open, At
<1>2. OnLine(r)
  BY LineWhat
<1>3. \/ Retired(r) /\ req[r].src = NoBuild
      \/ /\ Keeps(r)
         /\ req'[r].seen.base = req[r].seen.base
         /\ req'[r].seen.contents = req[r].seen.contents
         /\ \/ req[r].pc = "submit" /\ req'[r].pc \in {"approve", "refresh"}
            \/ /\ req[r].pc = "approve"
               /\ req'[r].pc = IF req[r].op = "publish" /\ req[r].src = NoBuild
                               THEN "route" ELSE "promote"
  BY <1>0, StatusShape, Known DEF At, Staged, Request
<1>4. \A b \in BuildIds \ {x} : ~Drafting(r, b) /\ ~Makes(r, b)
  BY <1>1 DEF Drafting, Makes
<1>5. \A b \in BuildIds : builds'[b].status = "draft" /\ builds'[b].source = "user" =>
                            Drafting(r, b)'
  BY <1>1, <1>4, LineWhat
<1>6. \A b \in BuildIds : Makes(r, b) => Makes(r, b)'
  BY <1>0, <1>3 DEF Makes, Keeps, At
<1>7. \A b \in BuildIds : builds'[b].status \in Editable =>
                            builds'[b].base \in promoted' \/ Makes(r, b)'
  BY <1>0, <1>1, <1>6, LineWhat
<1>8. Contents(x)' = Contents(x)
  BY <1>1, Known DEF Contents
<1>9. Keeps(r) => OnLine(r)'
  <2> SUFFICES ASSUME Keeps(r) PROVE OnLine(r)'
    OBVIOUS
  <2>0. /\ req'[r].seen.base = req[r].seen.base
        /\ req'[r].seen.contents = req[r].seen.contents
        /\ \/ req[r].pc = "submit" /\ req'[r].pc \in {"approve", "refresh"}
           \/ /\ req[r].pc = "approve"
              /\ req'[r].pc = IF req[r].op = "publish" /\ req[r].src = NoBuild
                              THEN "route" ELSE "promote"
        /\ req[r].op # "none"
    <3>1. req[r].op # "none"
      BY <1>0, StatusShape, Known DEF Staged, InFlight, At
    <3> QED BY <1>3, <3>1 DEF Retired, Resting, Keeps
  <2>1. Forked(r)' => mains' = {builds'[x].base}
    <3>1. Forked(r)' => Forked(r)
      BY <2>0, Known DEF Forked, Keeps, Staged, Authors
    <3> QED BY <1>0, <1>1, <1>2, <3>1 DEF OnLine
  <2>2. req'[r].pc \in {"route", "diff"} => builds'[x].base \in promoted'
    <3> SUFFICES ASSUME req'[r].pc = "route" PROVE builds[x].base \in promoted
      BY <1>0, <1>1, <2>0
    <3>1. req[r].src = NoBuild
      BY <2>0
    <3> QED BY <1>0, <1>1, <3>1, LineWhat DEF Makes, At
  <2>3. Merging(r)'
    <3>1. CASE req[r].op = "publish" /\ req[r].src = NoBuild
      BY <1>1, <1>2, <1>8, <2>0, <3>1 DEF Merging, OnLine, Keeps
    <3>2. CASE req[r].op = "publish" /\ req[r].src # NoBuild
      <4>1. req[r].pc = "approve" /\ req'[r].pc = "promote"
        BY <2>0, <3>2, Known DEF Staged
      <4>2. Contents(x)' = Merge(req[r].from, req[r].to, Live)
        BY <1>1, <1>2, <1>8, <3>2, <4>1 DEF Merging, OnLine
      <4> QED BY <1>0, <1>1, <3>2, <4>1, <4>2, MergeGoesOn DEF Keeps
    <3>3. CASE req[r].op # "publish"
      BY <3>3 DEF Merging, Keeps
    <3> QED BY <3>1, <3>2, <3>3
  <2> QED BY <1>1, <1>2, <2>1, <2>2, <2>3 DEF OnLine, Keeps
<1> QED BY <1>0, <1>3, <1>5, <1>7, <1>9, LineOfOne

LEMMA ReadLine ==
  ASSUME NEW r \in Requests, Turn(r), LineInv, LandedInv,
         Route(r) \/ Diff(r) \/ Promote(r)
  PROVE  LineInv'
<1>0. /\ TypeInv /\ AtMostOneMain /\ UNCHANGED <<builds, mains, promoted>> /\ mains # {}
      /\ req[r].pc \in {"route", "diff", "promote"}
  BY Known, ReadShape DEF LineInv, At, rows, history
<1>1. OnLine(r)
  BY LineWhat
<1>a. PICK x \in BuildIds : x = req[r].bld
  BY <1>0, Known DEF TypeInv, HasBuild
<1>2. \A b \in BuildIds : ~Drafting(r, b) /\ ~(builds[b].status \in Editable /\ Makes(r, b))
  BY <1>0, Known DEF Drafting, Makes, At, AsBelieved, Settled, Editable
<1>3. Promote(r) => OnLine(r)'
  <2> SUFFICES ASSUME Promote(r) PROVE OnLine(r)'
    OBVIOUS
  <2>1. /\ Keeps(r) /\ req[r].pc = "promote" /\ req'[r].pc = "commit"
        /\ req'[r].seen = req[r].seen
    BY <1>0, ReadShape DEF At
  <2>2. Contents(x)' = Contents(x)
    BY <1>0, Known DEF Contents
  <2>3. Forked(r)' => Forked(r)
    BY <2>1 DEF Forked, Keeps
  <2>4. Merging(r)'
    <3>1. CASE req[r].op = "publish" /\ req[r].src = NoBuild
      BY <1>0, <1>1, <2>1, <3>1 DEF Merging, OnLine, Keeps
    <3>2. CASE req[r].op = "publish" /\ req[r].src # NoBuild
      <4>1. Contents(x)' = Merge(req[r].from, req[r].to, Live)
        BY <1>a, <1>1, <2>1, <2>2, <3>2 DEF Merging, OnLine
      <4> QED BY <1>a, <1>0, <2>1, <3>2, <4>1, MergeGoesOn DEF Keeps
    <3>3. CASE req[r].op # "publish"
      BY <2>1, <3>3 DEF Merging, Keeps
    <3> QED BY <3>1, <3>2, <3>3
  <2> QED BY <1>0, <1>1, <2>1, <2>3, <2>4 DEF OnLine, Keeps
<1>4. Route(r) \/ Diff(r) => /\ req[r].op = "publish" /\ req[r].src = NoBuild
                             /\ builds[x].base \in promoted
                             /\ req[r].seen.base = builds[x].base
                             /\ \A i \in Ins : builds[x].contents[i] \in {NoVer, req[r].seen.contents[i]}
  <2> SUFFICES ASSUME Route(r) \/ Diff(r)
               PROVE  /\ req[r].op = "publish" /\ req[r].src = NoBuild
                      /\ builds[x].base \in promoted
                      /\ req[r].seen.base = builds[x].base
                      /\ \A i \in Ins : builds[x].contents[i] \in {NoVer, req[r].seen.contents[i]}
    OBVIOUS
  <2>1. req[r].pc \in {"route", "diff"}
    BY <1>0, ReadShape DEF At
  <2>2. req[r].op = "publish" /\ req[r].src = NoBuild
    BY <2>1, Known DEF Staged, Request, OpKinds, InFlight
  <2> QED BY <1>a, <1>1, <2>1, <2>2, Known DEF OnLine, Merging, Contents
<1>5. Route(r) => OnLine(r)'
  <2> SUFFICES ASSUME Route(r) PROVE OnLine(r)'
    OBVIOUS
  <2>1. /\ Keeps(r) /\ req'[r].seen = req[r].seen /\ req'[r].pc \in {"promote", "diff"}
        /\ req'[r].pc = "promote" => mains = {builds[x].base}
    <3>1. builds[x].base # NoBuild
      BY <1>4, Known
    <3> QED BY <1>0, <1>4, <3>1, ReadShape
  <2>2. Merging(r)'
    BY <1>a, <1>0, <1>4, <2>1, Known DEF Merging, Keeps, Contents
  <2> QED BY <1>a, <1>0, <1>4, <2>1, <2>2 DEF OnLine, Keeps, Forked, Authors
<1>6. Diff(r) => Retired(r) \/ OnLine(r)'
  <2> SUFFICES ASSUME Diff(r), ~Retired(r) PROVE OnLine(r)'
    OBVIOUS
  <2>1. /\ req'[r].pc = "insert" /\ req'[r].op = "publish" /\ req'[r].bld = x /\ req'[r].src = x
        /\ req'[r].from = Contents(builds[x].base)
        /\ req'[r].to = Reread(req[r].seen.contents, Contents(x))
    BY <1>a, <1>0, <1>4, ReadShape
  <2>2. builds[x].contents \in Snapshot /\ Contents(x) = builds[x].contents
    BY Known DEF Build, Contents
  <2>3. Reread(req[r].seen.contents, Contents(x)) = Contents(x)
    BY <1>4, <2>2 DEF Reread, Snapshot
  <2>4. Merging(r)'
    <3>1. req'[r].src # NoBuild /\ builds'[req'[r].src].base \in promoted'
      BY <1>0, <1>4, <2>1, Known
    <3>2. req'[r].from = Contents(builds[req[r].src].base)'
      BY <1>0, <2>1 DEF Contents
    <3>3. req'[r].to = Contents(req[r].src)'
      BY <1>0, <2>1, <2>3 DEF Contents
    <3> QED BY <2>1, <3>1, <3>2, <3>3 DEF Merging, At
  <2> QED BY <2>1, <2>4 DEF OnLine, Forked, Authors
<1> QED BY <1>0, <1>2, <1>3, <1>5, <1>6, LineWhat, LineOfOne

LEMMA CommitLine ==
  ASSUME NEW r \in Requests, Turn(r), LineInv, Commit(r)
  PROVE  LineInv'
<1>0. /\ TypeInv /\ builds' = builds /\ mains' # {} /\ promoted \subseteq promoted'
      /\ req[r].pc = "commit"
  BY CommitShape, Known DEF At
<1>2. \A b \in BuildIds : ~Drafting(r, b) /\ ~(builds[b].status \in Editable /\ Makes(r, b))
  BY <1>0, Known DEF Drafting, Makes, At, AsBelieved, Settled, Editable
<1>3. Retired(r) \/ OnLine(r)'
  <2> SUFFICES ASSUME Keeps(r), req'[r].pc = "refresh", req[r].item # {} PROVE OnLine(r)'
    BY <1>0, CommitShape
  <2>1. req[r].op = "delete"
    BY Known DEF Staged
  <2> QED BY <2>1 DEF OnLine, Forked, Merging, Keeps
<1> QED BY <1>0, <1>2, <1>3, LineWhat, LineOfOne

LEMMA EndLine ==
  ASSUME NEW r \in Requests, Turn(r), LineInv, LandedInv, Orderly,
         Refresh(r) \/ FinalizeFails(r) \/ Crash(r)
  PROVE  LineInv'
<1>0. /\ TypeInv /\ UNCHANGED <<builds, mains, promoted>> /\ Refresh(r) /\ mains # {}
      /\ req[r].pc = "refresh" /\ Ending(r)
  BY EndShape, LandsWhat, Known DEF rows, history, At, Orderly, LineInv
<1>1. Retired(r)
  BY <1>0, EndShape DEF Ending, At, Editable
<1>2. req[r].src = NoBuild
  BY <1>0, Known DEF Staged, Request, InFlight
<1>3. \A b \in BuildIds : ~Drafting(r, b) /\ ~Makes(r, b)
  BY <1>0, <1>2 DEF Drafting, Makes, At
<1> QED BY <1>0, <1>1, <1>3, LineWhat, LineOfOne

LEMMA LineStep ==
  ASSUME Orderly, SerialPast, LandedInv, LineInv, [Next]_vars
  PROVE  LineInv'
<1>1. CASE UNCHANGED vars
  BY <1>1 DEF vars, LineInv, Drafting, InMaking, OnLine, Forked, Merging, At, Contents, Live,
              TheMain
<1>2. ASSUME NEW r \in Requests, Start(r) \/ Advance(r) \/ Crash(r) PROVE LineInv'
  <2>1. Turn(r)
    BY <1>2, TurnTaken DEF SerialPast, Orderly
  <2> QED
    BY <1>2, <2>1, StartLine, FindDraftLine, InsertLine, CopyLine, WriteLine, StatusLine, ReadLine,
       CommitLine, EndLine
    DEF Advance
<1> QED BY <1>1, <1>2 DEF Next

LEMMA InitLine == Orderly /\ Init => LineInv
<1> SUFFICES ASSUME Orderly, Init PROVE LineInv
  OBVIOUS
<1>1. \A r \in Requests : req[r] = Resting("idle")
  BY DEF Init
<1>2. \A r \in Requests : OnLine(r)
  BY <1>1, RestSound DEF OnLine, Forked, Merging, Authors
<1>3. mains # {} /\ \A b \in BuildIds : builds[b].status \in {"approved", "absent"}
  <2>1. \A s : FirstMain(s).status = "approved"
    BY DEF FirstMain, NewDraft, Absent
  <2>2. Absent.status = "absent"
    BY DEF Absent
  <2> QED BY <2>1, <2>2 DEF Init, Orderly
<1> QED BY <1>2, <1>3 DEF LineInv, Editable

OrderlyInv == SerialPast /\ LandedInv /\ LineInv

LEMMA OrderlyHolds == Orderly => (Spec => []OrderlyInv)
<1> SUFFICES ASSUME Orderly PROVE Spec => []OrderlyInv
  OBVIOUS
<1>1. Serial /\ "crash" \notin Ops
  BY DEF Orderly
<1>2. OrderlyInv /\ [Next]_vars => OrderlyInv'
  BY <1>1, NextTypeInv, SerialStep, PastStep, LandedStep, LineStep DEF OrderlyInv, SerialPast
<1>3. Init => OrderlyInv
  BY InitTypeInv, InitSerialInv, InitPast, InitLanded, InitLine DEF OrderlyInv, SerialPast
<1> QED BY <1>2, <1>3, PTL DEF Spec

\* Orderly requests revert nobody else's instructions: what goes live, other than
\* by a rollback, was forked from the very build it replaces.
THEOREM OrderlyNoSilentRevert == Orderly => (Spec => NoSilentRevert)
<1> SUFFICES ASSUME Orderly PROVE Spec => NoSilentRevert
  OBVIOUS
<1>1. OrderlyInv /\ [Next]_vars =>
        [\A b \in mains' \ mains, m \in mains \ mains' :
           builds[b].source # "rollback" =>
             \A i \in Ins : \/ builds[b].contents[i] = builds[m].contents[i]
                           \/ builds[b].contents[i] # Contents(builds[b].base)[i]]_vars
  <2> SUFFICES ASSUME OrderlyInv, Next, NEW b \in mains' \ mains, NEW m \in mains \ mains',
                      builds[b].source # "rollback"
               PROVE  Contents(builds[b].base) = builds[m].contents
    OBVIOUS
  <2>1. PICK r \in Requests : Turn(r) /\ Commit(r) /\ b = req[r].bld
    BY NewlyLive DEF OrderlyInv, Orderly
  <2>2. req[r].pc = "commit" /\ TypeInv
    BY <2>1, CommitShape, Known DEF At
  <2>3. req[r].op \notin {"rollback", "learn"}
    BY <2>1, <2>2, Known, LineWhat DEF Returning, OrderlyInv, OnLine, At
  <2>4. Forked(r)
    BY <2>1, <2>2, <2>3, Known DEF Staged, Forked, Authors, Request, OpKinds, InFlight
  <2>5. mains = {builds[b].base} /\ m = builds[b].base /\ m \in BuildIds
    BY <2>1, <2>4, LineWhat, Known DEF OrderlyInv, OnLine
  <2> QED BY <2>1, <2>5, Known DEF Contents
<1> QED BY <1>1, OrderlyHolds, PTL DEF Spec, NoSilentRevert
-----------------------------------------------------------------------------
(***************************************************************************)
(* The refinement of MainLine: initial states map to initial states, and   *)
(* every step of an orderly request to a step of MainLine or a stutter.    *)
(***************************************************************************)
LEMMA MainOps ==
  /\ Main!Empty = Empty /\ Main!Snapshot = Snapshot
  /\ \A f, t, o : Main!Merge(f, t, o) = Merge(f, t, o)
  /\ Main!Closed = [from |-> Empty, to |-> Empty, open |-> FALSE]
  /\ \A f, t : Main!Proposal(f, t) = [from |-> f, to |-> t, open |-> TRUE]
BY DEF Main!Empty, Empty, Main!Snapshot, Snapshot, Main!Merge, Merge, Main!Closed, Main!Proposal

\* Merging a change into what it started from gives what it led to.
LEMMA MergeOntoBase ==
  ASSUME NEW f \in Snapshot, NEW t \in Snapshot
  PROVE  Merge(f, t, f) = t
BY DEF Merge, Snapshot

LEMMA MapInit == Orderly /\ Init => Main!Init
<1> SUFFICES ASSUME Orderly, Init PROVE Main!Init
  OBVIOUS
<1>1. PICK s \in Snapshot : builds = [b \in BuildIds |-> IF b = 1 THEN FirstMain(s) ELSE Absent]
  BY DEF Init, Orderly
<1>2. 1 \in BuildIds /\ 1 # NoBuild /\ mains = {1}
  BY ConstantsAssumption DEF BuildIds, NoBuild, Init, Orderly
<1>3. FirstMain(s).status = "approved" /\ FirstMain(s).contents = s /\ Absent.status = "absent"
  BY DEF FirstMain, NewDraft, Absent
<1>4. TheMain = 1
  BY <1>2 DEF TheMain
<1>5. Live = s
  BY <1>1, <1>2, <1>3, <1>4 DEF Live, Contents
<1>6. \A b \in BuildIds : ~Landing(b)
  BY DEF Landing, Init, Resting, NoBuild, BuildIds
<1>7. \A b \in BuildIds : ~IsProposal(b)
  BY <1>1, <1>3, <1>6 DEF IsProposal, Editable
<1>8. ApprovedSnapshots = {s}
  BY <1>1, <1>2, <1>3, <1>6 DEF ApprovedSnapshots, Orderly
<1>9. Proposals = [p \in BuildIds |-> Main!Closed]
  <2>1. ASSUME NEW b \in BuildIds
        PROVE  [from |-> IF IsProposal(b) THEN Contents(builds[b].base) ELSE Empty,
                to |-> IF IsProposal(b) THEN builds[b].contents ELSE Empty,
                open |-> IsProposal(b)] = Main!Closed
    <3>1. IsProposal(b) = FALSE
      BY <1>7 DEF IsProposal
    <3> QED BY <3>1, MainOps
  <2> QED BY <2>1 DEF Proposals
<1> QED BY <1>5, <1>8, <1>9, MainOps DEF Main!Init

\* What is a proposal is up to r, and its base does not move.
LEMMA ProposalsOfOne ==
  ASSUME NEW r \in Requests, Turn(r), LineInv, LandedInv, NEW b \in BuildIds
  PROVE  /\ IsProposal(b) <=> ~Makes(r, b) /\ \/ builds[b].status \in Editable
                                              \/ builds[b].status = "approved" /\ Lands(r, b)
         /\ IsProposal(b)' <=> ~Makes(r, b)' /\ \/ builds'[b].status \in Editable
                                                \/ builds'[b].status = "approved" /\ Lands(r, b)'
         /\ IsProposal(b) =>
              /\ builds[b].base \in promoted
              /\ builds'[builds[b].base] = builds[builds[b].base]
<1>1. /\ IsProposal(b) <=> ~Makes(r, b) /\ \/ builds[b].status \in Editable
                                           \/ builds[b].status = "approved" /\ Lands(r, b)
      /\ IsProposal(b)' <=> ~Makes(r, b)' /\ \/ builds'[b].status \in Editable
                                             \/ builds'[b].status = "approved" /\ Lands(r, b)'
  BY AloneLands DEF IsProposal
<1>2. ASSUME IsProposal(b) PROVE builds[b].base \in promoted
  <2>1. CASE builds[b].status \in Editable
    BY <1>1, <1>2, <2>1, LineWhat
  <2>2. CASE builds[b].status = "approved" /\ Lands(r, b)
    <3>1. CASE b = req[r].src /\ req[r].op = "publish"
      BY <3>1, LineWhat, Known DEF OnLine, Merging
    <3>2. CASE b = req[r].bld /\ req[r].pc \in {"route", "diff"}
      BY <3>2, LineWhat DEF OnLine
    <3>3. CASE b = req[r].bld /\ req[r].pc \in {"promote", "commit"}
      <4>1. req[r].op # "rollback"
        <5>1. req[r].op = "rollback" => req[r].src \in BuildIds
          BY Known DEF Returning
        <5>2. req[r].op = "rollback" => req[r].src # b
          BY <3>3, Known DEF Returning, At
        <5> QED BY <1>1, <1>2, <3>3, <5>1, <5>2, Known DEF Makes
      <4>2. Forked(r)
        BY <3>3, <4>1, LineWhat, Known DEF Forked, Staged, Authors, OnLine, Request, OpKinds, InFlight
      <4>3. mains = {builds[b].base}
        BY <3>3, <4>2, LineWhat DEF OnLine
      <4> QED BY <4>3, Known DEF PastSound
    <3> QED BY <2>2, <3>1, <3>2, <3>3, LandsWhat DEF Settled
  <2> QED BY <1>1, <1>2, <2>1, <2>2
<1>3. \A m \in promoted : builds'[m] = builds[m]
  BY Known DEF PastSound
<1> QED BY <1>1, <1>2, <1>3

\* Build b shows the abstract state the same proposal after the step as before it.
Stays(b) ==
  /\ IsProposal(b)' <=> IsProposal(b)
  /\ IsProposal(b) => builds'[b].contents = builds[b].contents /\ builds'[b].base = builds[b].base

LEMMA ProposalIs ==
  ASSUME NEW b \in BuildIds
  PROVE  /\ IsProposal(b) => Proposals[b] = Main!Proposal(Contents(builds[b].base), builds[b].contents)
         /\ ~IsProposal(b) => Proposals[b] = Main!Closed
         /\ IsProposal(b)' => Proposals'[b] = Main!Proposal(Contents(builds[b].base)', builds'[b].contents)
         /\ ~IsProposal(b)' => Proposals'[b] = Main!Closed
         /\ Proposals[b].open <=> IsProposal(b)
<1>1. IsProposal(b) \in BOOLEAN
  BY DEF IsProposal
<1>2. Proposals[b] = [from |-> IF IsProposal(b) THEN Contents(builds[b].base) ELSE Empty,
                      to |-> IF IsProposal(b) THEN builds[b].contents ELSE Empty,
                      open |-> IsProposal(b)]
  BY DEF Proposals
<1>4. /\ IsProposal(b) => Proposals[b] = Main!Proposal(Contents(builds[b].base), builds[b].contents)
      /\ ~IsProposal(b) => Proposals[b] = Main!Closed
      /\ Proposals[b].open <=> IsProposal(b)
  <2>1. CASE IsProposal(b)
    <3>1. IsProposal(b) = TRUE
      BY <1>1, <2>1
    <3>2. Proposals[b] = [from |-> Contents(builds[b].base), to |-> builds[b].contents,
                          open |-> TRUE]
      BY <1>2, <3>1
    <3>3. Proposals[b] = Main!Proposal(Contents(builds[b].base), builds[b].contents)
      BY <3>2 DEF Main!Proposal
    <3>4. Proposals[b].open
      BY <3>2
    <3> QED BY <2>1, <3>3, <3>4
  <2>2. CASE ~IsProposal(b)
    <3>1. IsProposal(b) = FALSE
      BY <1>1, <2>2
    <3>2. Proposals[b] = [from |-> Empty, to |-> Empty, open |-> FALSE]
      BY <1>2, <3>1
    <3>3. Proposals[b] = Main!Closed
      BY <3>2, MainOps
    <3>4. ~Proposals[b].open
      BY <3>2
    <3> QED BY <2>2, <3>3, <3>4
  <2> QED BY <2>1, <2>2
<1>5. /\ (IsProposal(b) => Proposals[b] = Main!Proposal(Contents(builds[b].base), builds[b].contents))'
      /\ (~IsProposal(b) => Proposals[b] = Main!Closed)'
  BY <1>4, PTL
<1> QED BY <1>4, <1>5

LEMMA ProposalStays ==
  ASSUME NEW r \in Requests, Turn(r), LineInv, LandedInv, NEW b \in BuildIds, Stays(b)
  PROVE  Proposals'[b] = Proposals[b]
<1>1. CASE ~IsProposal(b)
  BY <1>1, ProposalIs DEF Stays
<1>2. CASE IsProposal(b)
  <2>1. Contents(builds[b].base)' = Contents(builds[b].base)
    BY <1>2, ProposalsOfOne DEF Stays, Contents
  <2> QED BY <1>2, <2>1, ProposalIs DEF Stays
<1> QED BY <1>1, <1>2

LEMMA ProposalsDomain ==
  /\ Proposals = [b \in BuildIds |-> Proposals[b]]
  /\ Proposals' = [b \in BuildIds |-> Proposals'[b]]
BY DEF Proposals

\* Nothing is landed, or stops being landed.
LandedAlike ==
  \A b \in BuildIds :
    (builds'[b].status = "approved" /\ ~Landing(b)') <=> (builds[b].status = "approved" /\ ~Landing(b))

LEMMA ApprovedStay ==
  ASSUME NEW r \in Requests, Turn(r), LandedAlike
  PROVE  ApprovedSnapshots' = ApprovedSnapshots
<1>1. {c \in BuildIds : builds'[c].status = "approved" /\ ~Landing(c)'}
        = {c \in BuildIds : builds[c].status = "approved" /\ ~Landing(c)}
  BY DEF LandedAlike
<1>2. \A c \in BuildIds : builds[c].status = "approved" => builds'[c].contents = builds[c].contents
  BY Known
<1>3. {builds'[b].contents : b \in {c \in BuildIds : builds'[c].status = "approved" /\ ~Landing(c)'}}
        = {builds[b].contents : b \in {c \in BuildIds : builds[c].status = "approved" /\ ~Landing(c)}}
  BY <1>1, <1>2
<1> QED BY <1>3 DEF ApprovedSnapshots

\* Steps that do not show.
LEMMA MapQuiet ==
  ASSUME NEW r \in Requests, Turn(r), LineInv, LandedInv, mains' = mains,
         \A b \in BuildIds : Stays(b), LandedAlike
  PROVE  UNCHANGED Main!vars
<1>1. Proposals' = Proposals
  BY ProposalStays, ProposalsDomain
<1> QED BY <1>1, ApprovedStay, LiveSame DEF Main!vars

\* Steps that show one proposal in another state.
LEMMA MapOne ==
  ASSUME NEW r \in Requests, Turn(r), LineInv, LandedInv, mains' = mains, LandedAlike,
         NEW x \in BuildIds, \A b \in BuildIds \ {x} : Stays(b)
  PROVE  /\ UNCHANGED <<Live, ApprovedSnapshots>>
         /\ Proposals' = [Proposals EXCEPT ![x] = Proposals'[x]]
<1>1. \A b \in BuildIds \ {x} : Proposals'[b] = Proposals[b]
  BY ProposalStays
<1>2. Proposals' = [Proposals EXCEPT ![x] = Proposals'[x]]
  BY <1>1, ProposalsDomain
<1> QED BY <1>2, ApprovedStay, LiveSame

\* The context of the lemmas below: an orderly turn of r.
OrderlyTurn(r) == Turn(r) /\ Orderly /\ LandedInv /\ LineInv

LEMMA Alone ==
  ASSUME NEW r \in Requests, OrderlyTurn(r), NEW b \in BuildIds
  PROVE  /\ Landing(b) <=> Lands(r, b)
         /\ Landing(b)' <=> Lands(r, b)'
         /\ IsProposal(b) <=> ~Makes(r, b) /\ \/ builds[b].status \in Editable
                                              \/ builds[b].status = "approved" /\ Lands(r, b)
         /\ IsProposal(b)' <=> ~Makes(r, b)' /\ \/ builds'[b].status \in Editable
                                                \/ builds'[b].status = "approved" /\ Lands(r, b)'
BY AloneLands, ProposalsOfOne DEF OrderlyTurn

\* Steps before which r had no build, and after which it has none to land.
LEMMA QuietRequest ==
  ASSUME NEW r \in Requests, OrderlyTurn(r), UNCHANGED <<builds, mains>>,
         \A b \in BuildIds : Makes(r, b)' <=> Makes(r, b),
         \A b \in BuildIds : builds[b].status = "approved" => (Lands(r, b)' <=> Lands(r, b))
  PROVE  UNCHANGED Main!vars
<1>1. \A b \in BuildIds : Stays(b)
  BY Alone DEF Stays, Editable
<1>2. LandedAlike
  BY Alone DEF LandedAlike
<1> QED BY <1>1, <1>2, MapQuiet DEF OrderlyTurn

LEMMA StartMaps ==
  ASSUME NEW r \in Requests, OrderlyTurn(r), Start(r)
  PROVE  UNCHANGED Main!vars
<1>0. TypeInv /\ UNCHANGED <<builds, mains>>
  BY Known, StartShape DEF OrderlyTurn
<1>1. req[r].bld = NoBuild /\ req[r].src = NoBuild
  BY <1>0, StartShape, RestSound DEF OrderlyTurn, Turn, PastInv, AtRest, InFlight, At
<1>2. \A b \in BuildIds : ~Makes(r, b) /\ ~Lands(r, b)
  BY <1>1, Known DEF Makes, Lands, OrderlyTurn
<1>3. \A b \in BuildIds : ~Makes(r, b)' /\ (builds[b].status = "approved" => ~Lands(r, b)')
  BY <1>0, StartShape, Known DEF Makes, Lands, At, Editable, OrderlyTurn
<1> QED BY <1>0, <1>2, <1>3, QuietRequest

LEMMA FindDraftMaps ==
  ASSUME NEW r \in Requests, OrderlyTurn(r), FindDraft(r)
  PROVE  UNCHANGED Main!vars
<1>0. TypeInv /\ UNCHANGED <<builds, mains>> /\ req[r].pc = "draft"
  BY Known, FindDraftShape DEF OrderlyTurn, rows, At
<1>1. req[r].bld = NoBuild /\ req[r].op \in Authors /\ req[r].src = NoBuild
  BY <1>0, Known DEF Staged, Request, OpKinds, InFlight, Authors, OrderlyTurn
<1>2. \A b \in BuildIds : ~Makes(r, b) /\ ~Lands(r, b) /\ ~Drafting(r, b)
  BY <1>1, Known DEF Makes, Lands, Drafting, OrderlyTurn
<1>3. SharedDrafts = {}
  BY <1>2, LineWhat DEF SharedDrafts, OrderlyTurn
<1>4. Keeps(r)
  BY <1>0, <1>3, FindDraftShape
<1>5. \A b \in BuildIds : ~Makes(r, b)' /\ ~Lands(r, b)'
  BY <1>1, <1>4, Known DEF Makes, Lands, Keeps, OrderlyTurn
<1> QED BY <1>0, <1>2, <1>5, QuietRequest

LEMMA InsertMaps ==
  ASSUME NEW r \in Requests, OrderlyTurn(r), Insert(r)
  PROVE  UNCHANGED Main!vars
<1>0. TypeInv /\ mains' = mains /\ req[r].pc = "insert" /\ req'[r].pc = "copy"
  BY Known, InsertShape DEF OrderlyTurn, At
<1>a. PICK n \in BuildIds : n = req'[r].bld
  BY <1>0, InsertShape
<1>1. /\ n = req'[r].bld /\ req'[r].op = req[r].op /\ req'[r].src = req[r].src
      /\ \A b \in BuildIds \ {n} : builds'[b] = builds[b]
      /\ builds[n].status = "absent" /\ builds'[n].status = "draft"
  BY <1>0, <1>a, InsertShape DEF NewDraft, Absent
<1>2. req[r].bld = IF req[r].op = "publish" THEN req[r].src ELSE NoBuild
  BY <1>0, Known DEF Staged, OrderlyTurn
<1>3. \A b \in BuildIds : ~Makes(r, b) /\ (Lands(r, b) <=> req[r].src = b /\ req[r].op = "publish")
  BY <1>0, <1>2, Known DEF Makes, Lands, At, OrderlyTurn
<1>4. /\ Makes(r, n)'
      /\ \A b \in BuildIds \ {n} : ~Makes(r, b)' /\ (Lands(r, b)' <=> req[r].src = b /\ req[r].op = "publish")
  BY <1>0, <1>1 DEF Makes, Lands, At
<1>5. \A b \in BuildIds : Stays(b)
  BY <1>1, <1>3, <1>4, Alone DEF Stays, Editable
<1>6. LandedAlike
  BY <1>1, <1>3, <1>4, Alone DEF LandedAlike
<1> QED BY <1>0, <1>5, <1>6, MapQuiet DEF OrderlyTurn

\* A fork appears as a proposal once the live rows are copied into it; the build
\* of a merge or a rollback is never one.
LEMMA CopyMaps ==
  ASSUME NEW r \in Requests, OrderlyTurn(r), Copy(r)
  PROVE  Main!Next \/ UNCHANGED Main!vars
<1>0. /\ TypeInv /\ mains' = mains /\ req[r].pc = "copy" /\ Contents(req[r].bld) = Empty
  BY Known, CopyShape DEF At, Fresh, Copy, OrderlyTurn
<1>a. PICK x \in BuildIds : x = req[r].bld
  BY <1>0, CopyShape
<1>1. /\ x = req[r].bld /\ builds[x].status \in Editable
      /\ builds'[x].status = builds[x].status
      /\ \A b \in BuildIds \ {x} : builds'[b] = builds[b]
      /\ req[r].op # "rollback" => builds'[x].base = TheMain /\ builds'[x].contents = Contents(TheMain)
  BY <1>0, <1>a, CopyShape, Known DEF AsBelieved, Open, OrderlyTurn
<1>2. /\ req[r].op \in {"open", "publish", "rollback"} \cup Authors
      /\ req[r].op \in {"publish", "rollback"} <=> req[r].src # NoBuild
      /\ req[r].src # x
  BY <1>0, <1>1, LandsWhat, Known
  DEF Staged, Request, OpKinds, InFlight, Authors, OrderlyTurn, Returning, At, Editable, Ending, BuildIds
<1>3. /\ req[r].op = "open" => Retired(r)
      /\ req[r].op # "open" => Keeps(r) /\ req'[r].pc \in {"add", "apply", "approve"}
  BY <1>0, CopyShape DEF AfterCopy
<1>4. /\ Makes(r, x)
      /\ \A b \in BuildIds \ {x} : ~Makes(r, b) /\ ~Makes(r, b)'
      /\ Makes(r, x)' <=> req[r].src # NoBuild
  <2>1. CASE req[r].op = "open"
    BY <1>0, <1>1, <1>2, <1>3, <2>1, Known DEF Makes, At, Retired, Resting, OrderlyTurn
  <2>2. CASE req[r].op # "open"
    BY <1>0, <1>1, <1>2, <1>3, <2>2 DEF Makes, At, Keeps
  <2> QED BY <2>1, <2>2
<1>5. \A b \in BuildIds : builds[b].status = "approved" => (Lands(r, b)' <=> Lands(r, b))
  <2>1. CASE req[r].op = "open"
    BY <1>0, <1>1, <1>2, <1>3, <2>1, Known DEF Lands, At, Retired, Resting, OrderlyTurn, Editable
  <2>2. CASE req[r].op # "open"
    BY <1>0, <1>1, <1>2, <1>3, <2>2 DEF Lands, At, Keeps, Editable
  <2> QED BY <2>1, <2>2
<1>6. LandedAlike
  BY <1>1, <1>5, Alone DEF LandedAlike, Editable
<1>7. \A b \in BuildIds \ {x} : Stays(b)
  BY <1>1, <1>4, <1>5, Alone DEF Stays, Editable
<1>8. CASE req[r].src # NoBuild
  <2>1. Stays(x)
    BY <1>4, <1>8, Alone DEF Stays
  <2> QED BY <1>0, <1>6, <1>7, <2>1, MapQuiet DEF OrderlyTurn
<1>9. CASE req[r].src = NoBuild
  <2>1. ~IsProposal(x) /\ IsProposal(x)'
    BY <1>1, <1>4, <1>9, Alone
  <2>2. Contents(builds[x].base)' = Live /\ builds'[x].contents = Live
    <3>1. builds'[x].base = TheMain /\ builds'[x].contents = Live
      BY <1>1, <1>2, <1>9 DEF Live
    <3>2. Contents(TheMain)' = Live
      BY <1>0, LiveSame DEF Live, OrderlyTurn
    <3>3. TheMain' = TheMain
      BY <1>0, LiveSame DEF OrderlyTurn
    <3> QED BY <3>1, <3>2, <3>3 DEF Contents
  <2>3. Proposals'[x] = Main!Proposal(Live, Live)
    BY <2>1, <2>2, ProposalIs
  <2>4. Main!Fork(x)
    BY <1>0, <1>6, <1>7, <2>1, <2>3, MapOne, ProposalIs DEF OrderlyTurn, Main!Fork
  <2> QED BY <2>4 DEF Main!Next
<1> QED BY <1>8, <1>9

\* Writing into a fork is an edit of the proposal; writing the merged change into
\* the build of a merge does not show.
LEMMA WriteMaps ==
  ASSUME NEW r \in Requests, OrderlyTurn(r), Edit(r) \/ Add(r) \/ Filter(r) \/ Apply(r)
  PROVE  Main!Next \/ UNCHANGED Main!vars
<1>0. TypeInv /\ mains' = mains
  BY Known, WriteShape DEF OrderlyTurn
<1>a. PICK x \in BuildIds : x = req[r].bld
  BY <1>0, WriteShape
<1>1. /\ x = req[r].bld /\ builds[x].status \in Editable
      /\ builds'[x].status = builds[x].status /\ builds'[x].base = builds[x].base
      /\ \A b \in BuildIds \ {x} : builds'[b] = builds[b]
  BY <1>0, <1>a, WriteShape, Known DEF AsBelieved, Open, OrderlyTurn, At, Edit, Add, Filter, Apply
<1>2. \/ Edit(r) /\ req[r].src = NoBuild /\ Retired(r) /\ req[r].pc = "edit"
      \/ (Add(r) \/ Filter(r)) /\ req[r].src = NoBuild /\ Keeps(r)
           /\ req[r].pc \in {"add", "filter"} /\ req'[r].pc \in {"submit", "approve"}
      \/ Apply(r) /\ req[r].op = "publish" /\ req[r].src # NoBuild /\ Keeps(r)
           /\ req[r].pc = "apply" /\ req'[r].pc = "approve"
  BY <1>0, <1>a, WriteShape, Known
  DEF At, Staged, Request, OpKinds, InFlight, Authors, OrderlyTurn
<1>3. \A b \in BuildIds : /\ Makes(r, b)' <=> Makes(r, b)
                          /\ builds[b].status = "approved" => (Lands(r, b)' <=> Lands(r, b))
  <2>1. CASE req[r].src = NoBuild /\ Retired(r) /\ req[r].pc = "edit"
    BY <1>1, <2>1, Known DEF Makes, Lands, Retired, Resting, At, Editable, OrderlyTurn
  <2>2. CASE Keeps(r) /\ req[r].pc \in {"add", "filter", "apply"} /\ req'[r].pc \in {"submit", "approve"}
    BY <2>2 DEF Makes, Lands, Keeps, At
  <2> QED BY <1>2, <2>1, <2>2
<1>4. LandedAlike
  BY <1>1, <1>3, Alone DEF LandedAlike, Editable
<1>5. \A b \in BuildIds \ {x} : Stays(b)
  BY <1>1, <1>3, Alone DEF Stays, Editable
<1>6. IsProposal(x)' <=> IsProposal(x)
  BY <1>1, <1>3, Alone
<1>7. CASE Apply(r) /\ req[r].src # NoBuild /\ req[r].op = "publish"
  <2>1. builds[req[r].src].status = "approved"
    BY <1>7, LandsWhat DEF Ending, OrderlyTurn
  <2>2. Makes(r, x)
    BY <1>1, <1>7, <2>1 DEF Makes, Editable
  <2>3. Stays(x)
    BY <1>6, <2>2, Alone DEF Stays
  <2> QED BY <1>0, <1>4, <1>5, <2>3, MapQuiet DEF OrderlyTurn
<1>8. CASE req[r].src = NoBuild /\ req[r].pc \in {"edit", "add", "filter"}
  <2>1. IsProposal(x) /\ IsProposal(x)'
    BY <1>1, <1>6, <1>8, Alone DEF Makes, At
  <2>2. Contents(builds[x].base)' = Contents(builds[x].base)
    BY <1>1, <2>1, ProposalsOfOne DEF Contents, OrderlyTurn
  <2>3. Proposals[x].from = Contents(builds[x].base)
    <3>1. Proposals[x] = Main!Proposal(Contents(builds[x].base), builds[x].contents)
      BY <2>1, ProposalIs
    <3> QED BY <3>1 DEF Main!Proposal
  <2>4. Proposals'[x] = Main!Proposal(Proposals[x].from, builds'[x].contents)
    BY <2>1, <2>2, <2>3, ProposalIs
  <2>5. builds'[x].contents \in Main!Snapshot
    BY MainOps, Known DEF OrderlyTurn, Build
  <2>6. Main!Edit(x)
    BY <1>0, <1>4, <1>5, <2>1, <2>4, <2>5, MapOne, ProposalIs DEF OrderlyTurn, Main!Edit
  <2> QED BY <2>6 DEF Main!Next
<1> QED BY <1>2, <1>7, <1>8

\* A rejection closes the proposal; submitting and approving do not show.
LEMMA StatusMaps ==
  ASSUME NEW r \in Requests, OrderlyTurn(r), Reject(r) \/ Submit(r) \/ Approve(r)
  PROVE  Main!Next \/ UNCHANGED Main!vars
<1>0. TypeInv /\ mains' = mains
  BY Known, StatusShape DEF OrderlyTurn
<1>a. PICK x \in BuildIds : x = req[r].bld
  BY <1>0, StatusShape
<1>1. /\ x = req[r].bld /\ builds[x].status \in Editable
      /\ builds'[x].contents = builds[x].contents /\ builds'[x].base = builds[x].base
      /\ \A b \in BuildIds \ {x} : builds'[b] = builds[b]
      /\ Reject(r) => builds'[x].status = "rejected"
      /\ Submit(r) => builds'[x].status = "pending_approval"
      /\ Approve(r) => builds'[x].status = "approved"
  BY <1>0, <1>a, StatusShape, Known DEF AsBelieved, Open, OrderlyTurn, At
<1>2. \/ Reject(r) /\ req[r].src = NoBuild /\ Retired(r) /\ req[r].pc = "reject"
      \/ Submit(r) /\ req[r].src = NoBuild /\ req[r].pc = "submit"
           /\ (Retired(r) \/ (Keeps(r) /\ req'[r].pc \in {"approve", "refresh"}))
      \/ Approve(r) /\ req[r].pc = "approve" /\ Keeps(r) /\ req'[r].pc \in {"route", "promote"}
  BY <1>0, <1>a, StatusShape, Known DEF At, Staged, Request, OpKinds, InFlight, OrderlyTurn
<1>3. \A b \in BuildIds : Makes(r, b)' <=> Makes(r, b)
  BY <1>2, Known DEF Makes, Retired, Resting, At, OrderlyTurn, Keeps
<1>4. \A b \in BuildIds : builds[b].status = "approved" => (Lands(r, b)' <=> Lands(r, b))
  <2>1. CASE req[r].src = NoBuild /\ Retired(r)
    BY <1>1, <2>1, Known DEF Lands, Retired, Resting, Editable, OrderlyTurn
  <2>2. CASE req[r].src = NoBuild /\ Keeps(r)
    BY <1>1, <2>2, Known DEF Lands, Keeps, Editable, OrderlyTurn
  <2>3. CASE Keeps(r) /\ req[r].pc = "approve" /\ req'[r].pc \in {"route", "promote"}
    BY <2>3 DEF Lands, Keeps, At
  <2> QED BY <1>2, <2>1, <2>2, <2>3
<1>5. Approve(r) => Lands(r, x)'
  BY <1>1, <1>2 DEF Lands, Keeps, At, Reject, Submit, Approve
<1>6. LandedAlike
  BY <1>1, <1>4, <1>5, Alone DEF LandedAlike, Editable
<1>7. \A b \in BuildIds \ {x} : Stays(b)
  BY <1>1, <1>3, <1>4, Alone DEF Stays, Editable
<1>8. CASE Reject(r)
  <2>1. IsProposal(x) /\ ~IsProposal(x)'
    BY <1>1, <1>2, <1>8, Alone DEF Makes, At, Editable, Reject, Submit, Approve
  <2>2. Main!Reject(x)
    BY <1>0, <1>6, <1>7, <2>1, MapOne, ProposalIs DEF OrderlyTurn, Main!Reject
  <2> QED BY <2>2 DEF Main!Next
<1>9. CASE Submit(r) \/ Approve(r)
  <2>1. Stays(x)
    BY <1>1, <1>3, <1>5, <1>9, Alone DEF Stays, Editable
  <2> QED BY <1>0, <1>6, <1>7, <2>1, MapQuiet DEF OrderlyTurn
<1> QED BY <1>8, <1>9

LEMMA ReadMaps ==
  ASSUME NEW r \in Requests, OrderlyTurn(r), Route(r) \/ Diff(r) \/ Promote(r)
  PROVE  UNCHANGED Main!vars
<1>0. /\ TypeInv /\ AtMostOneMain /\ UNCHANGED <<builds, mains>>
      /\ req[r].pc \in {"route", "diff", "promote"}
  BY Known, ReadShape DEF rows, At, OrderlyTurn
<1>1. CASE Route(r) \/ Promote(r)
  <2>1. Keeps(r) /\ req'[r].pc \in {"promote", "diff", "commit"}
    BY <1>0, <1>1, ReadShape
  <2>2. \A b \in BuildIds : (Makes(r, b)' <=> Makes(r, b)) /\ (Lands(r, b)' <=> Lands(r, b))
    BY <1>0, <2>1 DEF Makes, Lands, Keeps, At
  <2> QED BY <1>0, <2>2, QuietRequest
<1>2. CASE Diff(r)
  <2>1. req[r].pc = "diff" /\ mains = {req[r].main}
    BY <1>0, <1>2, ReadShape, LandsWhat DEF At, Ending, OrderlyTurn
  <2>2. req[r].op = "publish" /\ req[r].src = NoBuild
    BY <2>1, Known DEF Staged, Request, OpKinds, InFlight, OrderlyTurn
  <2>3. /\ req'[r].pc = "insert" /\ req'[r].op = "publish"
        /\ req'[r].bld = req[r].bld /\ req'[r].src = req[r].bld
    BY <1>0, <1>2, <2>1, <2>2, ReadShape
  <2>4. \A b \in BuildIds : (Makes(r, b)' <=> Makes(r, b)) /\ (Lands(r, b)' <=> Lands(r, b))
    BY <2>1, <2>2, <2>3, Known DEF Makes, Lands, At, OrderlyTurn
  <2> QED BY <1>0, <2>4, QuietRequest
<1> QED BY <1>1, <1>2

LEMMA EndMaps ==
  ASSUME NEW r \in Requests, OrderlyTurn(r), Refresh(r) \/ FinalizeFails(r) \/ Crash(r)
  PROVE  UNCHANGED Main!vars
<1>0. /\ TypeInv /\ UNCHANGED <<builds, mains>> /\ Refresh(r)
      /\ req[r].pc = "refresh" /\ Ending(r)
  BY EndShape, LandsWhat, Known DEF rows, At, Orderly, OrderlyTurn
<1>1. Retired(r)
  BY <1>0, EndShape DEF Ending, At, Editable
<1>2. req[r].src = NoBuild /\ req[r].op = "delete"
  BY <1>0, Known DEF Staged, Request, InFlight, OpKinds, OrderlyTurn
<1>3. \A b \in BuildIds : ~Makes(r, b) /\ ~Lands(r, b)
  BY <1>0, <1>2, Known DEF Makes, Lands, At, OrderlyTurn
<1>4. \A b \in BuildIds : ~Makes(r, b)' /\ ~Lands(r, b)'
  BY <1>1, Known DEF Makes, Lands, At, OrderlyTurn, Retired, Resting
<1> QED BY <1>0, <1>3, <1>4, QuietRequest

\* Making a build main lands its change, or that of the build it was merged from,
\* on top of what was live; the build of a rollback restores what was approved.
LEMMA CommitMaps ==
  ASSUME NEW r \in Requests, OrderlyTurn(r), Commit(r)
  PROVE  Main!Next
<1>0. /\ TypeInv /\ builds' = builds /\ req[r].pc = "commit"
      /\ OnLine(r) /\ Returning(r) /\ Ending(r)
  BY CommitShape, LineWhat, LandsWhat, Known DEF At, OrderlyTurn
<1>a. PICK x \in BuildIds : x = req[r].bld
  BY <1>0, CommitShape
<1>1. x = req[r].bld /\ builds[x].status = "approved" /\ mains' = {x}
  BY <1>0, <1>a, CommitShape, Known DEF AsBelieved, Settled, OrderlyTurn, Fresh, At
<1>2. /\ req[r].op \in {"publish", "rollback"} \cup Authors
      /\ req[r].op = "rollback" => req[r].src \in BuildIds /\ req[r].src # x
      /\ req[r].op \in Authors => req[r].src = NoBuild
      /\ req[r].op = "publish" => req[r].src \in BuildIds \cup {NoBuild}
  BY <1>0, <1>1, Known
  DEF Staged, Request, OpKinds, InFlight, Authors, OrderlyTurn, Returning, OnLine, At
<1>3. \A b \in BuildIds : ~Makes(r, b)' /\ ~Lands(r, b)'
  <2>1. CASE Retired(r)
    BY <2>1, Known DEF Makes, Lands, At, OrderlyTurn, Retired, Resting
  <2>2. CASE ~Retired(r)
    <3>1. Keeps(r) /\ req'[r].pc = "refresh" /\ req[r].op = "delete"
      BY <1>0, <2>2, CommitShape, Known DEF Staged, OrderlyTurn
    <3>2. req[r].src = NoBuild
      BY <1>2, <3>1 DEF Authors
    <3> QED BY <3>1, <3>2, Known DEF Makes, Lands, At, Keeps, OrderlyTurn
  <2> QED BY <2>1, <2>2
<1>4. Live' = builds[x].contents
  <2>1. TheMain' = x
    BY <1>1 DEF TheMain
  <2> QED BY <1>0, <2>1, Known DEF Live, Contents, OrderlyTurn
<1>5. Live \in Snapshot /\ Live = Contents(TheMain) /\ mains = {TheMain}
  BY LineWhat, Known DEF OrderlyTurn, Build, Live
<1>6. CASE req[r].op = "rollback"
  <2> DEFINE t == req[r].src
  <2>1. \A b \in BuildIds : (Makes(r, b) <=> b = x) /\ (Lands(r, b) <=> b = x)
    BY <1>0, <1>1, <1>2, <1>6, Known DEF Makes, Lands, At, OrderlyTurn
  <2>2. \A b \in BuildIds : Stays(b)
    BY <1>0, <1>1, <1>3, <2>1, Alone DEF Stays, Editable
  <2>3. Proposals' = Proposals
    BY <2>2, ProposalStays, ProposalsDomain DEF OrderlyTurn
  <2>4. builds[x].contents = builds[t].contents /\ builds[t].status = "approved" /\ ~Landing(t)
    BY <1>0, <1>1, <1>2, <1>6, <2>1, Alone, Known DEF Returning, Contents, OrderlyTurn
  <2> DEFINE A == {c \in BuildIds : builds[c].status = "approved" /\ ~Landing(c)}
             B == {c \in BuildIds : builds'[c].status = "approved" /\ ~Landing(c)'}
  <2>5. B = A \cup {x} /\ t \in A
    BY <1>0, <1>1, <1>2, <1>3, <1>6, <2>1, <2>4, Alone
  <2>6. {builds'[b].contents : b \in B} = {builds[b].contents : b \in A}
    <3> HIDE DEF A, B, t
    <3> QED BY <1>0, <2>4, <2>5
  <2>7. ApprovedSnapshots' = ApprovedSnapshots
    BY <2>6 DEF ApprovedSnapshots
  <2>8. Live' \in ApprovedSnapshots
    BY <1>4, <2>4, <2>5 DEF ApprovedSnapshots
  <2> QED BY <2>3, <2>7, <2>8 DEF Main!Next, Main!Restore
<1>7. CASE req[r].op # "rollback"
  <2>a. PICK y \in BuildIds : y = IF req[r].src = NoBuild THEN x ELSE req[r].src
    BY <1>1, <1>2, <1>7
  <2>1. /\ builds[y].status = "approved" /\ Lands(r, y) /\ ~Makes(r, y)
        /\ \A b \in BuildIds \ {x, y} : ~Makes(r, b) /\ ~Lands(r, b)
        /\ Lands(r, x) /\ (x # y => Makes(r, x))
    BY <1>0, <1>1, <1>2, <1>7, <2>a, Known DEF Makes, Lands, At, OrderlyTurn, Ending
  <2>2. IsProposal(y) /\ \A b \in {x, y} : ~IsProposal(b)'
    BY <1>0, <1>1, <1>3, <2>1, Alone DEF Editable
  <2>3. \A b \in BuildIds \ {y} : Stays(b)
    BY <1>0, <1>1, <1>3, <2>1, Alone DEF Stays, Editable
  <2>4. Live' = Merge(Contents(builds[y].base), builds[y].contents, Live)
    <3>1. CASE req[r].src = NoBuild
      <4>1. y = x /\ Forked(r)
        BY <1>0, <1>2, <1>7, <2>a, <3>1 DEF Forked
      <4>2. Contents(builds[y].base) = Live
        <5>1. mains = {builds[x].base}
          BY <1>0, <1>1, <4>1 DEF OnLine
        <5>2. builds[x].base = TheMain
          BY <1>5, <5>1
        <5> QED BY <1>5, <4>1, <5>2
      <4>3. builds[y].contents \in Snapshot
        BY Known DEF OrderlyTurn, Build
      <4> QED BY <1>4, <1>5, <4>1, <4>2, <4>3, MergeOntoBase
    <3>2. CASE req[r].src # NoBuild
      <4>1. y = req[r].src /\ req[r].op = "publish"
        BY <1>2, <1>7, <2>a, <3>2
      <4>2. /\ Contents(x) = Merge(req[r].from, req[r].to, Live)
            /\ req[r].from = Contents(builds[y].base) /\ req[r].to = Contents(y)
        BY <1>0, <1>1, <3>2, <4>1 DEF OnLine, Merging
      <4>3. Contents(x) = builds[x].contents /\ Contents(y) = builds[y].contents
        BY Known DEF Contents, OrderlyTurn
      <4> QED BY <1>4, <4>2, <4>3
    <3> QED BY <3>1, <3>2
  <2> DEFINE A == {c \in BuildIds : builds[c].status = "approved" /\ ~Landing(c)}
             B == {c \in BuildIds : builds'[c].status = "approved" /\ ~Landing(c)'}
  <2>5. B = A \cup {x, y}
    BY <1>0, <1>1, <1>3, <2>1, Alone
  <2>6. {builds'[b].contents : b \in B}
          = {builds[b].contents : b \in A} \cup {builds[y].contents, builds[x].contents}
    <3> HIDE DEF A, B
    <3> QED BY <1>0, <2>5
  <2>7. ApprovedSnapshots' = ApprovedSnapshots \cup {builds[y].contents, Live'}
    BY <1>4, <2>6 DEF ApprovedSnapshots
  <2>8. \A b \in BuildIds \ {y} : Proposals'[b] = Proposals[b]
    BY <2>3, ProposalStays DEF OrderlyTurn
  <2>9. Proposals' = [Proposals EXCEPT ![y] = Main!Closed]
    BY <2>2, <2>8, ProposalIs, ProposalsDomain
  <2>10. /\ Proposals[y].open
         /\ Proposals[y].from = Contents(builds[y].base) /\ Proposals[y].to = builds[y].contents
    <3>1. Proposals[y] = Main!Proposal(Contents(builds[y].base), builds[y].contents)
      BY <2>2, ProposalIs
    <3> QED BY <2>2, <3>1, ProposalIs DEF Main!Proposal
  <2>11. Live' = Main!Merge(Proposals[y].from, Proposals[y].to, Live)
    BY <2>4, <2>10, MainOps
  <2>12. Main!Land(y)
    BY <2>7, <2>9, <2>10, <2>11 DEF Main!Land
  <2> QED BY <2>12 DEF Main!Next
<1> QED BY <1>6, <1>7

LEMMA StepMaps ==
  ASSUME Orderly, OrderlyInv, [Next]_vars
  PROVE  Main!Next \/ UNCHANGED Main!vars
<1>1. CASE UNCHANGED vars
  <2>1. TheMain' = TheMain /\ \A b \in BuildIds : Contents(b)' = Contents(b)
    BY <1>1 DEF vars, TheMain, Contents
  <2>2. Live' = Live
    BY <1>1 DEF vars, TheMain, Contents, Live
  <2>3. \A b \in BuildIds : /\ Landing(b)' <=> Landing(b)
                            /\ InMaking(b)' <=> InMaking(b)
                            /\ Contents(builds[b].base)' = Contents(builds[b].base)
    BY <1>1 DEF vars, Landing, InMaking, Contents, At
  <2>4. \A b \in BuildIds : IsProposal(b)' <=> IsProposal(b)
    BY <1>1, <2>3 DEF vars, IsProposal
  <2>5. \A b \in BuildIds : Proposals'[b] = Proposals[b]
    BY <1>1, <2>3, <2>4, ProposalIs DEF vars
  <2>6. Proposals' = Proposals
    BY <2>5, ProposalsDomain
  <2>7. {c \in BuildIds : builds'[c].status = "approved" /\ ~Landing(c)'}
          = {c \in BuildIds : builds[c].status = "approved" /\ ~Landing(c)}
    BY <1>1, <2>3 DEF vars
  <2>8. ApprovedSnapshots' = ApprovedSnapshots
    BY <1>1, <2>7 DEF vars, ApprovedSnapshots
  <2> QED BY <2>2, <2>6, <2>8 DEF Main!vars
<1>2. ASSUME NEW r \in Requests, Start(r) \/ Advance(r) \/ Crash(r)
      PROVE  Main!Next \/ UNCHANGED Main!vars
  <2>1. OrderlyTurn(r)
    BY <1>2, TurnTaken DEF OrderlyTurn, OrderlyInv, SerialPast, Orderly
  <2> QED
    BY <1>2, <2>1, StartMaps, FindDraftMaps, InsertMaps, CopyMaps, WriteMaps, StatusMaps,
       ReadMaps, CommitMaps, EndMaps
    DEF Advance
<1> QED BY <1>1, <1>2 DEF Next

\* Orderly requests implement the main line: whatever they do, step by step, to
\* builds, statuses and main flags, the users see one live snapshot that moves
\* only by landing one whole proposal on top of it, or back to an approved one.
THEOREM OrderlyImplementsMainLine == Orderly => (Spec => ImplementsMainLine)
<1> SUFFICES ASSUME Orderly PROVE Spec => ImplementsMainLine
  OBVIOUS
<1>1. Init => Main!Init
  BY MapInit
<1>2. OrderlyInv /\ [Next]_vars => [Main!Next]_(Main!vars)
  BY StepMaps
<1> QED BY <1>1, <1>2, OrderlyHolds, PTL DEF Spec, ImplementsMainLine, Main!Spec
=================================================================================
