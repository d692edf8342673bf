---------------------------- MODULE AgentRun_proofs ----------------------------
(***************************************************************************)
(* Proofs about AgentRun, for any number of completions, slots, rounds,     *)
(* tools, retries, stops and faults.                                        *)
(*                                                                          *)
(* One completion's run only meets the others at the semaphore, so the      *)
(* inductive invariant is a predicate on the state of one completion: its   *)
(* run, its row, the stop it has heard, what it has decided.                *)
(***************************************************************************)
EXTENDS AgentRun, TLAPS, FiniteSetTheorems

Looping == {"planning", "streaming"}
Settling == {"writing", "telling"}
Unsettled == {"in_progress", "stopped"}
Afters == {"tool", "tail", "returned", "raised"}

\* The loop: a decision's calls are counted down, and as long as the analysis is
\* not complete no breaker has tripped and nothing has been announced.
LoopSound(r, d) ==
  /\ r.stage \in {"idle", "saved", "abandoned", "waiting", "starting"} => r = [Idle EXCEPT !.stage = r.stage]
  /\ r.stage \in Looping => ~r.done
  /\ r.stage = "tool" => r.todo >= 1
  /\ r.stage \in Settling /\ r.after = "tool" => r.done /\ r.todo >= 1 /\ r.verdict = "success"
  /\ r.stage \in Settling /\ r.after = "raised" => r.verdict = "error"
  /\ r.stage \in Looping \cup {"tool"} /\ ~r.done =>
       /\ d = "none" /\ ~r.emitted
       /\ r.times < MaxRepeats
       /\ \A t \in Calls : r.failed[t] < MaxToolFailures

\* The row: a run that has announced nothing has written nothing, and writes a
\* success or a stop only once.
RowSound(r, w, d, k) ==
  /\ r.stage = "idle" <=> w = "none"
  /\ w = "none" => k = "idle"
  /\ r.stage \in Looping \cup {"idle", "saved", "abandoned", "waiting", "starting", "tool", "tail"} /\ ~r.emitted =>
       d = "none" /\ w \in Unsettled \cup {"none"}
  /\ r.stage = "writing" /\ r.verdict # "error" =>
       ~r.emitted /\ d = "none" /\ w \in Unsettled
  /\ r.stage = "telling" /\ r.verdict # "error" => d = "none" /\ w \in {r.verdict, "stopped"}
  /\ r.stage = "returned" => r.emitted

\* The announcement, in a run the database has not failed: it follows the write,
\* and without a stop the row keeps what was decided.
WordSound(r, w, d, f, k) ==
  /\ r.poisoned => f
  /\ ~f =>
       /\ r.stage \in {"telling", "ending", "ended"} \/ d # "none" => w \in Final
       /\ r.emitted /\ r.stage \notin Settling => d # "none"
       /\ k = "idle" => /\ r.stage = "telling" => w = r.verdict
                        /\ r.stage \in {"ending", "ended"} \/ d # "none" => w \in {d, "error"}

\* A stop heard in the loop leads out of it, to a stop or an error.
StopSound(r, h, d) ==
  h \in Looping =>
    /\ d \in {"none", "stopped", "error"}
    /\ \/ r.stage \in Looping \cup {"tail", "failing", "returned", "raised"}
       \/ r.stage \in Settling /\ r.verdict \in {"stopped", "error"}

\* What a run r of completion c must be, given the rest of c's state.
Fits(c, r) ==
  /\ LoopSound(r, decided[c])
  /\ RowSound(r, row[c], decided[c], stopper[c])
  /\ WordSound(r, row[c], decided[c], faulty[c], stopper[c])
  /\ StopSound(r, heard[c], decided[c])

\* The queue: announcements are written, and the sentinel is last.
Written(c) == ~faulty[c] /\ (\E i \in DOMAIN queue[c] : queue[c][i] \in Final) => row[c] \in Final
Closed(c) == At(c, "ended") => reader[c] = "closed" \/ (queue[c] # <<>> /\ queue[c][Len(queue[c])] = "end")

Sound(c) == Fits(c, run[c]) /\ Written(c) /\ Closed(c)

\* TypeOK, but for the bound on free, which follows from SlotsConserved.
Types ==
  /\ row \in [Completions -> {"none", "in_progress"} \cup Final]
  /\ run \in [Completions -> Run]
  /\ heard \in [Completions -> Agent \cup {"never"}]
  /\ line \in Seq(Completions) /\ free \in Nat
  /\ queue \in [Completions -> Seq(Events)]
  /\ \A c \in Completions : Len(queue[c]) <= QueueSize
  /\ lost \in [Completions -> BOOLEAN]
  /\ reader \in [Completions -> {"none", "reading", "closed"}]
  /\ shown \in [Completions -> {"none", "in_progress"} \cup Final]
  /\ stops \in Nat
  /\ stopper \in [Completions -> {"idle", "over", "in_progress"} \cup Final]
  /\ decided \in [Completions -> Final \cup {"none"}]
  /\ faulty \in [Completions -> BOOLEAN] /\ faults \in Nat

IInv ==
  /\ Types
  /\ SlotsConserved
  /\ \A c \in Completions : Sound(c)
-----------------------------------------------------------------------------
(* Parts of a state                                                          *)

LEMMA IdleType == Idle \in Run
BY DEF Idle, Run, Stages, Agent, Final

LEMMA OverType ==
  ASSUME NEW r \in Run, NEW s \in Stages
  PROVE  /\ Over(r, s) \in Run
         /\ Over(r, s).stage = s /\ ~Over(r, s).done
         /\ Over(r, s).emitted = r.emitted /\ Over(r, s).poisoned = r.poisoned
BY DEF Over, Idle, Run, Final

LEMMA ToType ==
  ASSUME Types, NEW c \in Completions, NEW s \in Stages
  PROVE  /\ To(c, s) \in Run /\ run[c] \in Run
         /\ To(c, s) = [run[c] EXCEPT !.stage = s]
<1>1. run[c] \in Run
  BY DEF Types
<1> QED
  BY <1>1 DEF To, Run

LEMMA ConcludeType ==
  ASSUME NEW r \in Run, NEW s \in Final, NEW after \in Afters
  PROVE  /\ Conclude(r, s, after) \in Run
         /\ Conclude(r, s, after).stage = "writing" /\ Conclude(r, s, after).verdict = s
         /\ Conclude(r, s, after).after = after
         /\ Conclude(r, s, after).done = r.done /\ Conclude(r, s, after).todo = r.todo
         /\ Conclude(r, s, after).emitted = r.emitted /\ Conclude(r, s, after).poisoned = r.poisoned
BY DEF Conclude, Run, Stages, Agent, Afters

\* Fault and the end of a run, and what they leave alone.
LEMMA FaultType ==
  ASSUME Types, NEW c \in Completions, Fault(c)
  PROVE  /\ faulty' \in [Completions -> BOOLEAN] /\ faults' \in Nat
         /\ faulty'[c] /\ \A d \in Completions : faulty[d] => faulty'[d]
         /\ \A d \in Completions \ {c} : faulty'[d] = faulty[d]
BY DEF Types, Fault

LEMMA PutType ==
  ASSUME Types, NEW c \in Completions, NEW e \in Events, Put(c, e)
  PROVE  /\ queue' \in [Completions -> Seq(Events)] /\ lost' \in [Completions -> BOOLEAN]
         /\ \A d \in Completions : Len(queue'[d]) <= QueueSize
         /\ \A d \in Completions \ {c} : queue'[d] = queue[d]
         /\ queue'[c] = queue[c] \/ queue'[c] = Append(queue[c], e)
<1>1. queue[c] \in Seq(Events) /\ Len(queue[c]) \in Nat
  BY DEF Types
<1>2. CASE Full(c)
  BY <1>1, <1>2 DEF Put, Types
<1>3. CASE ~Full(c)
  <2>1. queue' = [queue EXCEPT ![c] = Append(queue[c], e)] /\ lost' = [lost EXCEPT ![c] = @ \/ Full(c)]
    BY <1>3 DEF Put
  <2>2. Append(queue[c], e) \in Seq(Events) /\ Len(Append(queue[c], e)) = Len(queue[c]) + 1
    BY <1>1
  <2>3. Len(queue[c]) + 1 <= QueueSize
    BY <1>1, <1>3, Parameters DEF Full, Positive
  <2> QED
    BY <2>1, <2>2, <2>3 DEF Types, Full
<1> QED
  BY <1>2, <1>3

LEMMA FinishType ==
  ASSUME Types, NEW c \in Completions, Finish(c)
  PROVE  /\ queue' \in [Completions -> Seq(Events)] /\ lost' \in [Completions -> BOOLEAN]
         /\ \A d \in Completions : Len(queue'[d]) <= QueueSize
         /\ \A d \in Completions \ {c} : queue'[d] = queue[d]
         /\ \/ queue'[c] = Append(queue[c], "end")
            \/ queue[c] # <<>> /\ queue'[c] = Append(Tail(queue[c]), "end")
<1>1. queue[c] \in Seq(Events) /\ Len(queue[c]) \in Nat /\ Len(queue[c]) <= QueueSize /\ "end" \in Events
  BY DEF Types, Events
<1>2. queue' = [queue EXCEPT ![c] = Append(IF Full(c) THEN Tail(queue[c]) ELSE queue[c], "end")]
  BY DEF Finish
<1>3. lost' \in [Completions -> BOOLEAN]
  BY DEF Finish, Types, Full
<1>4. CASE Full(c)
  <2>1. Len(queue[c]) >= 1
    BY <1>1, <1>4, Parameters DEF Full, Positive
  <2>2. queue[c] # <<>> /\ Tail(queue[c]) \in Seq(Events) /\ Len(Tail(queue[c])) = Len(queue[c]) - 1
    BY <1>1, <2>1
  <2>3. /\ Append(Tail(queue[c]), "end") \in Seq(Events)
        /\ Len(Append(Tail(queue[c]), "end")) = Len(queue[c])
    BY <1>1, <2>2
  <2> QED
    BY <1>1, <1>2, <1>3, <1>4, <2>2, <2>3 DEF Types
<1>5. CASE ~Full(c)
  <2>1. /\ Append(queue[c], "end") \in Seq(Events)
        /\ Len(Append(queue[c], "end")) = Len(queue[c]) + 1
    BY <1>1
  <2>2. Len(queue[c]) + 1 <= QueueSize
    BY <1>1, <1>5, Parameters DEF Full, Positive
  <2> QED
    BY <1>2, <1>3, <1>5, <2>1, <2>2 DEF Types
<1> QED
  BY <1>4, <1>5

\* What the queue's end and its announcements become when an event is appended.
LEMMA AppendAnnounces ==
  ASSUME NEW q \in Seq(Events), NEW e \in Events, NEW i \in DOMAIN Append(q, e),
         Append(q, e)[i] \in Final
  PROVE  e \in Final \/ \E j \in DOMAIN q : q[j] \in Final
OBVIOUS

LEMMA TailAnnounces ==
  ASSUME NEW q \in Seq(Events), q # <<>>, NEW i \in DOMAIN Tail(q), Tail(q)[i] \in Final
  PROVE  Tail(q) \in Seq(Events) /\ \E j \in DOMAIN q : q[j] \in Final
OBVIOUS

LEMMA AppendEnds ==
  ASSUME NEW q \in Seq(Events), NEW e \in Events
  PROVE  Append(q, e) # <<>> /\ Append(q, e)[Len(Append(q, e))] = e
OBVIOUS

LEMMA TailEnds ==
  ASSUME NEW q \in Seq(Events), q # <<>>, q[Len(q)] = "end", Head(q) # "end"
  PROVE  Tail(q) # <<>> /\ Tail(q)[Len(Tail(q))] = "end"
<1>1. Len(q) \in Nat /\ Len(q) >= 1 /\ Head(q) = q[1]
  OBVIOUS
<1>2. Len(q) >= 2
  BY <1>1
<1>3. Len(Tail(q)) = Len(q) - 1 /\ \A i \in 1..(Len(q) - 1) : Tail(q)[i] = q[i + 1]
  BY <1>2
<1>4. Tail(q)[Len(q) - 1] = q[Len(q)]
  BY <1>1, <1>2, <1>3
<1>5. Tail(q) \in Seq(Events) /\ Len(Tail(q)) >= 1
  BY <1>2, <1>3
<1>6. Tail(q) # <<>>
  BY <1>5
<1>7. q[Len(q)] = "end" /\ Len(Tail(q)) = Len(q) - 1
  BY <1>3
<1> QED
  BY <1>4, <1>6, <1>7
-----------------------------------------------------------------------------
(* One completion moves                                                      *)

Frame(c) ==
  \A d \in Completions \ {c} :
    /\ run'[d] = run[d] /\ row'[d] = row[d] /\ heard'[d] = heard[d]
    /\ decided'[d] = decided[d] /\ faulty'[d] = faulty[d] /\ stopper'[d] = stopper[d]
    /\ queue'[d] = queue[d] /\ reader'[d] = reader[d]

Holds(c) == run[c].stage \notin {"idle", "saved", "abandoned", "waiting", "ended"}

LEMMA Elsewhere ==
  ASSUME NEW c \in Completions, NEW d \in Completions \ {c}, Frame(c), Sound(d)
  PROVE  Sound(d)'
BY DEF Frame, Sound, Fits, Written, Closed, At

LEMMA HoldersFinite == IsFiniteSet(Holders) /\ Cardinality(Holders) \in Nat
<1>1. IsFiniteSet(Completions)
  BY Parameters, FS_Interval DEF Completions
<1>2. Holders \in SUBSET Completions
  BY DEF Holders
<1> QED
  BY <1>1, <1>2, FS_Subset, FS_CardinalityType

\* A step that neither takes nor gives back a slot.
LEMMA Proceeds ==
  ASSUME IInv, Types', NEW c \in Completions, Frame(c), Sound(c)',
         Holds(c)' = Holds(c), free' = free
  PROVE  IInv'
<1>1. Holders' = Holders
  BY DEF Frame, Holders, Holds
<1>2. SlotsConserved'
  BY <1>1 DEF SlotsConserved, IInv
<1>3. ASSUME NEW d \in Completions PROVE Sound(d)'
  BY <1>3, Elsewhere DEF IInv
<1> QED
  BY <1>2, <1>3 DEF IInv

\* Nothing new is announced by what is put into the queue.
LEMMA StillWritten ==
  ASSUME NEW c \in Completions, Written(c), queue[c] \in Seq(Events), NEW e \in Events,
         \/ queue'[c] = queue[c]
         \/ queue'[c] = Append(queue[c], e)
         \/ queue[c] # <<>> /\ queue'[c] = Append(Tail(queue[c]), e),
         faulty[c] => faulty'[c],
         ~faulty'[c] /\ (e \in Final \/ row[c] \in Final) => row'[c] \in Final
  PROVE  Written(c)'
<1> SUFFICES ASSUME ~faulty'[c], NEW i \in DOMAIN queue'[c], queue'[c][i] \in Final
             PROVE  row'[c] \in Final
  BY DEF Written
<1>1. CASE queue'[c] = queue[c]
  BY <1>1 DEF Written
<1>2. CASE queue'[c] = Append(queue[c], e)
  BY <1>2, AppendAnnounces DEF Written
<1>3. CASE queue[c] # <<>> /\ queue'[c] = Append(Tail(queue[c]), e)
  <2>1. Tail(queue[c]) \in Seq(Events)
    BY <1>3
  <2>2. e \in Final \/ \E j \in DOMAIN Tail(queue[c]) : Tail(queue[c])[j] \in Final
    BY <1>3, <2>1, AppendAnnounces
  <2>3. e \in Final \/ \E j \in DOMAIN queue[c] : queue[c][j] \in Final
    BY <1>3, <2>2, TailAnnounces
  <2> QED
    BY <2>3 DEF Written
<1> QED
  BY <1>1, <1>2, <1>3

\* A step of the loop, of the tool runner or of what follows them.
LEMMA Moves ==
  ASSUME IInv, NEW c \in Completions, NEW r \in Run, Go(c, r), Others,
         UNCHANGED pipe \/ Put(c, "progress"),
         Fits(c, r), Holds(c), r.stage \notin {"idle", "saved", "abandoned", "waiting", "ended"}
  PROVE  IInv'
<1> USE DEF IInv
<1>1. "progress" \in Events /\ "progress" \notin Final
  BY DEF Events, Final
<1>2. /\ run' \in [Completions -> Run] /\ run'[c] = r
      /\ \A d \in Completions \ {c} : run'[d] = run[d]
  BY DEF Go, Types
<1>3. /\ queue' \in [Completions -> Seq(Events)] /\ lost' \in [Completions -> BOOLEAN]
      /\ \A d \in Completions : Len(queue'[d]) <= QueueSize
      /\ \A d \in Completions \ {c} : queue'[d] = queue[d]
      /\ queue'[c] = queue[c] \/ queue'[c] = Append(queue[c], "progress")
  BY <1>1, PutType DEF pipe, Types
<1>4. Types'
  BY <1>2, <1>3 DEF Types, Others, slots, client, stopping, errors
<1>5. Frame(c)
  BY <1>2, <1>3 DEF Frame, Others, slots, client, stopping, errors
<1>6. Fits(c, run[c])'
  BY <1>2 DEF Fits, Others, stopping, errors
<1>7. Written(c)'
  BY <1>1, <1>3, StillWritten DEF Types, Sound, Others, errors
<1>8. Closed(c)'
  BY <1>2 DEF Closed, At
<1>9. Holds(c)' = Holds(c) /\ free' = free
  BY <1>2 DEF Holds, Others, slots
<1> QED
  BY <1>4, <1>5, <1>6, <1>7, <1>8, <1>9, Proceeds DEF Sound
-----------------------------------------------------------------------------
(* The loop                                                                  *)

\* What is known of a run in the loop, in terms the actions below start from.
LEMMA InLoop ==
  ASSUME IInv, NEW c \in Completions
  PROVE  /\ run[c] \in Run /\ Fits(c, run[c])
         /\ row[c] \in {"none", "in_progress"} \cup Final
         /\ heard[c] \in Agent \cup {"never"} /\ decided[c] \in Final \cup {"none"}
         /\ faulty[c] \in BOOLEAN
BY DEF IInv, Types, Sound

\* Leaving the loop keeps what has been announced.
LEMMA OverFits ==
  ASSUME IInv, NEW c \in Completions, NEW s \in {"tail", "failing"},
         run[c].stage \in Looping \cup {"tool", "tail"},
         heard[c] \in Looping => run[c].stage # "tool"
  PROVE  Over(run[c], s) \in Run /\ Fits(c, Over(run[c], s))
<1>1. run[c] \in Run /\ Fits(c, run[c])
  BY InLoop
<1>2. s \in Stages
  BY DEF Stages, Agent
<1> DEFINE o == Over(run[c], s)
<1>3. /\ o \in Run /\ o.stage = s /\ ~o.done
      /\ o.emitted = run[c].emitted /\ o.poisoned = run[c].poisoned
  BY <1>1, <1>2, OverType
<1> HIDE DEF o
<1>4. LoopSound(o, decided[c])
  BY <1>3 DEF LoopSound, Looping, Settling
<1>5. RowSound(o, row[c], decided[c], stopper[c])
  BY <1>1, <1>3 DEF RowSound, Fits, Looping
<1>6. WordSound(o, row[c], decided[c], faulty[c], stopper[c])
  BY <1>1, <1>3 DEF WordSound, Fits, Settling, Looping
<1>7. StopSound(o, heard[c], decided[c])
  BY <1>1, <1>3 DEF StopSound, Fits, Looping
<1> QED
  BY <1>3, <1>4, <1>5, <1>6, <1>7 DEF Fits, o

\* Another round keeps the counts of the breakers.
LEMMA RoundFits ==
  ASSUME IInv, NEW c \in Completions, NEW r \in Run,
         run[c].stage \in Looping, r.stage \in Looping, ~r.done,
         r.emitted = run[c].emitted, r.poisoned = run[c].poisoned,
         r.times = run[c].times, r.failed = run[c].failed
  PROVE  Fits(c, r)
BY InLoop DEF Fits, LoopSound, RowSound, WordSound, StopSound, Looping, Settling

LEMMA AgainType ==
  ASSUME IInv, NEW c \in Completions
  PROVE  /\ Again(c) \in Run /\ Again(c).stage = "planning" /\ Again(c).done = run[c].done
         /\ Again(c).emitted = run[c].emitted /\ Again(c).poisoned = run[c].poisoned
         /\ Again(c).times = run[c].times /\ Again(c).failed = run[c].failed
<1> DEFINE p == To(c, "planning")
<1>1. run[c] \in Run /\ "planning" \in Stages
  BY InLoop DEF Stages, Agent
<1>2. /\ p \in Run /\ p.stage = "planning" /\ p.done = run[c].done
      /\ p.emitted = run[c].emitted /\ p.poisoned = run[c].poisoned
      /\ p.times = run[c].times /\ p.failed = run[c].failed
  BY <1>1 DEF To, Run
<1> HIDE DEF p
<1>3. Again(c) = [p EXCEPT !.invalid = @ + 1]
  BY DEF Again, p
<1> QED
  BY <1>2, <1>3 DEF Run

LEMMA PreparePreserves ==
  ASSUME IInv, NEW c \in Completions, Prepare(c)
  PROVE  IInv'
<1>1. /\ run[c] \in Run /\ Fits(c, run[c]) /\ run[c].stage = "planning" /\ Holds(c)
      /\ Others
  BY InLoop DEF Prepare, At, Holds
<1>2. CASE Go(c, Over(run[c], "tail")) /\ UNCHANGED pipe
  <2>1. Over(run[c], "tail") \in Run /\ Fits(c, Over(run[c], "tail"))
    BY <1>1, OverFits DEF Looping
  <2>2. Over(run[c], "tail").stage = "tail"
    BY <1>1, OverType DEF Stages, Agent
  <2> QED
    BY <1>1, <1>2, <2>1, <2>2, Moves
<1>3. CASE /\ ~Heard(c)
           /\ Go(c, [To(c, "streaming") EXCEPT !.rounds = @ + 1, !.done = FALSE])
           /\ Put(c, "progress")
  <2> DEFINE p == To(c, "streaming")
             q == [p EXCEPT !.rounds = @ + 1]
             r == [q EXCEPT !.done = FALSE]
  <2>1. /\ p \in Run /\ p.stage = "streaming" /\ p.emitted = run[c].emitted
        /\ p.poisoned = run[c].poisoned /\ p.times = run[c].times /\ p.failed = run[c].failed
    BY <1>1 DEF To, Run, Stages, Agent
  <2> HIDE DEF p
  <2>2. /\ q \in Run /\ q.stage = "streaming" /\ q.emitted = run[c].emitted
        /\ q.poisoned = run[c].poisoned /\ q.times = run[c].times /\ q.failed = run[c].failed
    BY <2>1 DEF Run
  <2>3. Go(c, r)
    <3>1. r = [To(c, "streaming") EXCEPT !.rounds = @ + 1, !.done = FALSE]
      BY <2>1 DEF p, Run
    <3> QED
      BY <1>3, <3>1
  <2> HIDE DEF q
  <2>4. /\ r \in Run /\ r.stage = "streaming" /\ ~r.done /\ r.emitted = run[c].emitted
        /\ r.poisoned = run[c].poisoned /\ r.times = run[c].times /\ r.failed = run[c].failed
    BY <2>2 DEF Run
  <2> HIDE DEF r
  <2>5. Fits(c, r)
    BY <1>1, <2>4, RoundFits DEF Looping
  <2> QED
    BY <1>1, <1>3, <2>4, <2>3, <2>5, Moves
<1>4. CASE /\ ~Heard(c)
           /\ Go(c, [Again(c) EXCEPT !.rounds = @ + 1])
           /\ Put(c, "progress")
  <2> DEFINE r == [Again(c) EXCEPT !.rounds = @ + 1]
  <2>1. /\ r \in Run /\ r.stage = "planning" /\ r.done = run[c].done /\ r.emitted = run[c].emitted
        /\ r.poisoned = run[c].poisoned /\ r.times = run[c].times /\ r.failed = run[c].failed
    BY AgainType DEF Run
  <2>2. Go(c, r)
    BY <1>4
  <2> HIDE DEF r
  <2>3. ~r.done /\ Fits(c, r)
    BY <1>1, <2>1, RoundFits DEF Fits, LoopSound, Looping
  <2> QED
    BY <1>1, <1>4, <2>1, <2>2, <2>3, Moves
<1> QED
  BY <1>2, <1>3, <1>4 DEF Prepare

\* Interrupt and Undecided go back to the top of the loop, as Actionless may.
LEMMA ReturnsToTop ==
  ASSUME IInv, NEW c \in Completions, At(c, "streaming"), Others,
         \/ Go(c, To(c, "planning")) /\ (UNCHANGED pipe \/ Put(c, "progress"))
         \/ Go(c, Again(c)) /\ Put(c, "progress")
  PROVE  IInv'
<1>1. run[c] \in Run /\ Fits(c, run[c]) /\ run[c].stage = "streaming" /\ Holds(c) /\ ~run[c].done
  BY InLoop DEF At, Holds, Fits, LoopSound, Looping
<1>2. CASE Go(c, To(c, "planning")) /\ (UNCHANGED pipe \/ Put(c, "progress"))
  <2> DEFINE r == To(c, "planning")
  <2>1. /\ r \in Run /\ r.stage = "planning" /\ r.done = run[c].done /\ r.emitted = run[c].emitted
        /\ r.poisoned = run[c].poisoned /\ r.times = run[c].times /\ r.failed = run[c].failed
    BY <1>1 DEF To, Run, Stages, Agent
  <2>2. Go(c, r)
    BY <1>2
  <2> HIDE DEF r
  <2>3. Fits(c, r)
    BY <1>1, <2>1, RoundFits DEF Looping
  <2> QED
    BY <1>1, <1>2, <2>1, <2>2, <2>3, Moves
<1>3. CASE Go(c, Again(c)) /\ Put(c, "progress")
  <2>1. Again(c) \in Run /\ Again(c).stage = "planning" /\ Fits(c, Again(c))
    BY <1>1, AgainType, RoundFits DEF Looping
  <2> QED
    BY <1>1, <1>3, <2>1, Moves
<1> QED
  BY <1>2, <1>3

\* A conclusion out of the loop, for the reason the planner or a tool has given.
LEMMA ConclusionFits ==
  ASSUME IInv, NEW c \in Completions, NEW r \in Run, NEW s \in Final,
         NEW after \in Afters,
         after = "tool" => r.done /\ r.todo >= 1 /\ s = "success",
         after = "raised" => s = "error",
         s # "error" => ~r.emitted /\ decided[c] = "none" /\ row[c] \in Unsettled,
         row[c] # "none",
         r.poisoned => faulty[c],
         heard[c] \in Looping => s # "success",
         run[c].stage \in Looping \cup {"tool", "tail", "failing"}
  PROVE  /\ Conclude(r, s, after) \in Run /\ Fits(c, Conclude(r, s, after))
         /\ Conclude(r, s, after).stage = "writing"
<1> DEFINE w == Conclude(r, s, after)
<1>1. /\ w \in Run /\ w.stage = "writing" /\ w.verdict = s /\ w.after = after
      /\ w.done = r.done /\ w.todo = r.todo /\ w.emitted = r.emitted /\ w.poisoned = r.poisoned
  BY ConcludeType
<1>2. Fits(c, run[c])
  BY InLoop
<1> HIDE DEF w
<1>3. LoopSound(w, decided[c])
  BY <1>1 DEF LoopSound, Looping, Settling
<1>4. RowSound(w, row[c], decided[c], stopper[c])
  BY <1>1, <1>2 DEF RowSound, Fits, Looping
<1>5. WordSound(w, row[c], decided[c], faulty[c], stopper[c])
  BY <1>1, <1>2 DEF WordSound, Fits, Settling, Looping
<1>6. StopSound(w, heard[c], decided[c])
  BY <1>1, <1>2 DEF StopSound, Fits, Looping, Settling, Final
<1> QED
  BY <1>1, <1>3, <1>4, <1>5, <1>6 DEF Fits, w
-----------------------------------------------------------------------------
(* The planner's decisions                                                   *)

\* In the loop nothing has been announced, so no stop has been missed either.
LEMMA LoopFacts ==
  ASSUME IInv, NEW c \in Completions, run[c].stage \in Looping
  PROVE  /\ run[c] \in Run /\ Holds(c) /\ ~run[c].done /\ ~run[c].emitted
         /\ decided[c] = "none" /\ row[c] \in Unsettled
         /\ run[c].poisoned => faulty[c]
BY InLoop DEF Fits, LoopSound, RowSound, WordSound, Looping, Holds, Unsettled

LEMMA AnswerPreserves ==
  ASSUME IInv, NEW c \in Completions, Answer(c)
  PROVE  IInv'
<1> DEFINE o == Over(run[c], "tail")
<1>1. /\ run[c].stage \in Looping /\ ~Heard(c) /\ Put(c, "progress") /\ Others
      /\ run[c].stage # "tool"
  BY DEF Answer, At, Looping
<1>2. /\ run[c] \in Run /\ Holds(c) /\ ~run[c].emitted /\ decided[c] = "none"
      /\ row[c] \in Unsettled /\ (run[c].poisoned => faulty[c])
  BY <1>1, LoopFacts
<1>3. "tail" \in Stages /\ "tail" \in Afters /\ "success" \in Final
  BY DEF Stages, Agent, Afters, Final
<1>4. o \in Run /\ ~o.emitted /\ o.poisoned = run[c].poisoned
  BY <1>2, <1>3, OverType
<1>5. Go(c, Conclude(o, "success", "tail"))
  BY <1>2 DEF Answer
<1> HIDE DEF o
<1>6. /\ Conclude(o, "success", "tail") \in Run /\ Fits(c, Conclude(o, "success", "tail"))
      /\ Conclude(o, "success", "tail").stage = "writing"
  BY <1>1, <1>2, <1>3, <1>4, ConclusionFits DEF Heard, Looping, Unsettled
<1> QED
  BY <1>1, <1>2, <1>5, <1>6, Moves

LEMMA MalformedPreserves ==
  ASSUME IInv, NEW c \in Completions, Malformed(c)
  PROVE  IInv'
<1>1. /\ run[c].stage \in Looping /\ ~Heard(c) /\ Put(c, "progress") /\ Others /\ At(c, "streaming")
  BY DEF Malformed, At, Looping
<1>2. CASE Go(c, Again(c))
  BY <1>1, <1>2, ReturnsToTop
<1>3. CASE Go(c, Conclude([Over(run[c], "tail") EXCEPT !.emitted = TRUE], "error", "tail"))
  <2> DEFINE o == Over(run[c], "tail")
             r == [o EXCEPT !.emitted = TRUE]
  <2>1. /\ run[c] \in Run /\ Holds(c) /\ ~run[c].emitted /\ decided[c] = "none"
        /\ row[c] \in Unsettled /\ (run[c].poisoned => faulty[c])
    BY <1>1, LoopFacts
  <2>2. "tail" \in Stages /\ "tail" \in Afters /\ "error" \in Final
    BY DEF Stages, Agent, Afters, Final
  <2>3. o \in Run /\ o.poisoned = run[c].poisoned
    BY <2>1, <2>2, OverType
  <2> HIDE DEF o
  <2>4. r \in Run /\ r.poisoned = run[c].poisoned
    BY <2>3 DEF Run
  <2>5. Go(c, Conclude(r, "error", "tail"))
    BY <1>3 DEF o
  <2> HIDE DEF r
  <2>6. /\ Conclude(r, "error", "tail") \in Run /\ Fits(c, Conclude(r, "error", "tail"))
        /\ Conclude(r, "error", "tail").stage = "writing"
    BY <1>1, <2>1, <2>2, <2>4, ConclusionFits DEF Heard, Looping, Unsettled
  <2> QED
    BY <1>1, <2>1, <2>5, <2>6, Moves
<1> QED
  BY <1>2, <1>3 DEF Malformed

LEMMA ActPreserves ==
  ASSUME IInv, NEW c \in Completions, NEW n \in 1..MaxActions, Act(c, n)
  PROVE  IInv'
<1> DEFINE t == To(c, "tool")
           q == [t EXCEPT !.todo = n]
           r == [q EXCEPT !.attempt = 1]
<1>1. /\ run[c].stage \in Looping /\ ~Heard(c) /\ Put(c, "progress") /\ Others
  BY DEF Act, At, Looping
<1>2. run[c] \in Run /\ Fits(c, run[c]) /\ Holds(c) /\ n \in Nat /\ n >= 1
  BY <1>1, InLoop, LoopFacts
<1>3. /\ t \in Run /\ t.stage = "tool" /\ t.done = run[c].done /\ t.emitted = run[c].emitted
      /\ t.poisoned = run[c].poisoned /\ t.times = run[c].times /\ t.failed = run[c].failed
  BY <1>2 DEF To, Run, Stages, Agent
<1>4. Go(c, r)
  <2>1. r = [To(c, "tool") EXCEPT !.todo = n, !.attempt = 1]
    BY <1>3 DEF Run
  <2> QED
    BY <2>1 DEF Act
<1> HIDE DEF t
<1>5. /\ q \in Run /\ q.stage = "tool" /\ q.done = run[c].done /\ q.emitted = run[c].emitted
      /\ q.poisoned = run[c].poisoned /\ q.times = run[c].times /\ q.failed = run[c].failed
      /\ q.todo = n
  BY <1>2, <1>3 DEF Run
<1> HIDE DEF q
<1>6. /\ r \in Run /\ r.stage = "tool" /\ r.done = run[c].done /\ r.emitted = run[c].emitted
      /\ r.poisoned = run[c].poisoned /\ r.times = run[c].times /\ r.failed = run[c].failed
      /\ r.todo = n
  BY <1>5 DEF Run
<1> HIDE DEF r
<1>7. Fits(c, r)
  BY <1>1, <1>2, <1>6 DEF Fits, LoopSound, RowSound, WordSound, StopSound, Looping, Settling, Heard
<1> QED
  BY <1>1, <1>2, <1>4, <1>6, <1>7, Moves
-----------------------------------------------------------------------------
(* The tools                                                                 *)

\* In a tool call no stop has been heard in the planner's part of the loop.
LEMMA ToolFacts ==
  ASSUME IInv, NEW c \in Completions, At(c, "tool")
  PROVE  /\ run[c] \in Run /\ Fits(c, run[c]) /\ Holds(c) /\ run[c].stage = "tool" /\ run[c].todo >= 1
         /\ heard[c] \notin Looping /\ row[c] # "none"
         /\ ~run[c].emitted => decided[c] = "none" /\ row[c] \in Unsettled
         /\ run[c].poisoned => faulty[c]
         /\ ~run[c].done => /\ decided[c] = "none" /\ ~run[c].emitted
                            /\ run[c].times < MaxRepeats
                            /\ \A t \in Calls : run[c].failed[t] < MaxToolFailures
BY InLoop DEF At, Holds, Fits, LoopSound, RowSound, WordSound, StopSound, Looping, Settling, Unsettled

\* The call that follows in a decision, or the round that follows it.
LEMMA NextType ==
  ASSUME NEW r \in Run, r.stage = "tool", r.todo >= 1, ~(r.todo = 1 /\ r.done)
  PROVE  /\ NextCall(r) \in Run
         /\ \/ NextCall(r).stage = "tool" /\ NextCall(r).todo >= 1
            \/ NextCall(r).stage = "planning" /\ ~r.done
         /\ NextCall(r).done = r.done /\ NextCall(r).emitted = r.emitted
         /\ NextCall(r).poisoned = r.poisoned
         /\ NextCall(r).times = r.times /\ NextCall(r).failed = r.failed
<1> DEFINE s == IF r.todo > 1 THEN "tool" ELSE "planning"
           p == [r EXCEPT !.todo = @ - 1]
           q == [p EXCEPT !.attempt = 1]
           n == [q EXCEPT !.stage = s]
<1>1. r.todo - 1 \in Nat /\ s \in Stages
  BY DEF Run, Stages, Agent
<1>2. NextCall(r) = n
  BY DEF NextCall, Run
<1>3. /\ p \in Run /\ p.todo = r.todo - 1 /\ p.done = r.done /\ p.emitted = r.emitted
      /\ p.poisoned = r.poisoned /\ p.times = r.times /\ p.failed = r.failed
  BY <1>1 DEF Run
<1> HIDE DEF p
<1>4. /\ q \in Run /\ q.todo = r.todo - 1 /\ q.done = r.done /\ q.emitted = r.emitted
      /\ q.poisoned = r.poisoned /\ q.times = r.times /\ q.failed = r.failed
  BY <1>3 DEF Run
<1> HIDE DEF q
<1>5. /\ n \in Run /\ n.stage = s /\ n.todo = r.todo - 1 /\ n.done = r.done
      /\ n.emitted = r.emitted
      /\ n.poisoned = r.poisoned /\ n.times = r.times /\ n.failed = r.failed
  <2> HIDE DEF s
  <2> QED
    BY <1>1, <1>4 DEF Run
<1>6. r.todo \in Nat
  BY DEF Run
<1> HIDE DEF n
<1> QED
  BY <1>2, <1>5, <1>6

LEMMA NextFits ==
  ASSUME IInv, NEW c \in Completions, At(c, "tool"), NEW r \in Run,
         r.stage = "tool", r.todo >= 1,
         r.emitted = run[c].emitted, r.poisoned = run[c].poisoned, run[c].done => r.done,
         r.done \/ (r.times < MaxRepeats /\ \A t \in Calls : r.failed[t] < MaxToolFailures)
  PROVE  /\ NextCall(r) \in Run /\ Fits(c, NextCall(r))
         /\ NextCall(r).stage \in {"tool", "planning", "tail"}
         /\ r.done => \/ NextCall(r).stage = "tool" /\ NextCall(r).done /\ NextCall(r).todo >= 1
                      \/ NextCall(r).stage = "tail"
         /\ NextCall(r).emitted = r.emitted /\ NextCall(r).poisoned = r.poisoned
<1>1. CASE r.todo = 1 /\ r.done
  <2>1. NextCall(r) = Over(run[c], "tail")
    BY <1>1 DEF NextCall, Over
  <2>2. run[c] \in Run /\ run[c].stage = "tool" /\ heard[c] \notin Looping /\ "tail" \in Stages
    BY ToolFacts DEF Stages, Agent
  <2>3. Over(run[c], "tail") \in Run /\ Fits(c, Over(run[c], "tail"))
    BY <2>2, OverFits
  <2>4. /\ Over(run[c], "tail").stage = "tail"
        /\ Over(run[c], "tail").emitted = run[c].emitted /\ Over(run[c], "tail").poisoned = run[c].poisoned
    BY <2>2, OverType
  <2> QED
    BY <1>1, <2>1, <2>3, <2>4
<1>2. CASE ~(r.todo = 1 /\ r.done)
  <2> DEFINE n == NextCall(r)
  <2>1. /\ n \in Run
        /\ (n.stage = "tool" /\ n.todo >= 1) \/ (n.stage = "planning" /\ ~r.done)
        /\ n.done = r.done /\ n.emitted = r.emitted /\ n.poisoned = r.poisoned
        /\ n.times = r.times /\ n.failed = r.failed
    BY <1>2, NextType
  <2> HIDE DEF n
  <2>2. /\ run[c].stage = "tool" /\ Fits(c, run[c]) /\ heard[c] \notin Looping
        /\ ~run[c].done => decided[c] = "none" /\ ~run[c].emitted
    BY ToolFacts
  <2>3. LoopSound(n, decided[c])
    BY <2>1, <2>2 DEF LoopSound, Looping, Settling
  <2>4. RowSound(n, row[c], decided[c], stopper[c])
    BY <2>1, <2>2 DEF RowSound, Fits, Looping
  <2>5. WordSound(n, row[c], decided[c], faulty[c], stopper[c])
    BY <2>1, <2>2 DEF WordSound, Fits, Settling
  <2>6. StopSound(n, heard[c], decided[c])
    BY <2>2 DEF StopSound
  <2> QED
    BY <2>1, <2>3, <2>4, <2>5, <2>6 DEF Fits, n
<1> QED
  BY <1>1, <1>2

\* What an observation must know of the result r it is given.
LEMMA ObservePreserves ==
  ASSUME IInv, NEW c \in Completions, At(c, "tool"), NEW r \in Run, NEW complete \in BOOLEAN,
         r.stage = "tool", r.todo = run[c].todo, r.done = run[c].done,
         r.emitted = run[c].emitted, r.poisoned = run[c].poisoned,
         \/ complete \/ run[c].done
         \/ r.times < MaxRepeats /\ \A t \in Calls : r.failed[t] < MaxToolFailures,
         Observe(c, r, complete), Put(c, "progress"), Others
  PROVE  IInv'
<1> DEFINE p == [r EXCEPT !.invalid = 0]
           o == [p EXCEPT !.done = @ \/ complete]
           n == NextCall(o)
<1>1. /\ run[c] \in Run /\ Holds(c) /\ run[c].stage = "tool" /\ run[c].todo >= 1
      /\ heard[c] \notin Looping /\ row[c] # "none"
      /\ ~run[c].emitted => decided[c] = "none" /\ row[c] \in Unsettled
      /\ run[c].poisoned => faulty[c]
  BY ToolFacts
<1>2. Go(c, IF complete /\ ~r.emitted THEN Conclude(n, "success", n.stage) ELSE n)
  <2>1. o = [r EXCEPT !.invalid = 0, !.done = @ \/ complete]
    BY DEF Run
  <2> HIDE DEF o
  <2> QED
    BY <2>1 DEF Observe
<1>3. /\ p \in Run /\ p.stage = "tool" /\ p.todo = r.todo /\ p.done = r.done
      /\ p.emitted = r.emitted /\ p.poisoned = r.poisoned /\ p.times = r.times /\ p.failed = r.failed
  BY DEF Run
<1> HIDE DEF p
<1>4. /\ o \in Run /\ o.stage = "tool" /\ o.todo = r.todo /\ o.done = (r.done \/ complete)
      /\ o.emitted = r.emitted /\ o.poisoned = r.poisoned /\ o.times = r.times /\ o.failed = r.failed
  BY <1>3 DEF Run
<1> HIDE DEF o
<1>5. /\ n \in Run /\ Fits(c, n) /\ n.stage \in {"tool", "planning", "tail"}
      /\ o.done => (n.stage = "tool" /\ n.done /\ n.todo >= 1) \/ n.stage = "tail"
      /\ n.emitted = o.emitted /\ n.poisoned = o.poisoned
  BY <1>1, <1>4, NextFits, ZenonT(60)
<1> HIDE DEF n
<1>6. CASE complete /\ ~r.emitted
  <2>1. n.stage \in Afters /\ "success" \in Final /\ Go(c, Conclude(n, "success", n.stage))
    BY <1>2, <1>4, <1>5, <1>6 DEF Afters, Final
  <2>2. /\ n.stage = "tool" => n.done /\ n.todo >= 1
        /\ n.stage # "raised" /\ ~n.emitted /\ decided[c] = "none" /\ row[c] \in Unsettled
        /\ n.poisoned => faulty[c]
    BY <1>1, <1>4, <1>5, <1>6
  <2>3. /\ Conclude(n, "success", n.stage) \in Run /\ Fits(c, Conclude(n, "success", n.stage))
        /\ Conclude(n, "success", n.stage).stage = "writing"
    BY <1>1, <1>5, <2>1, <2>2, ConclusionFits
  <2> QED
    BY <1>1, <2>1, <2>3, Moves
<1>7. CASE ~(complete /\ ~r.emitted)
  <2>1. Go(c, n)
    BY <1>2, <1>7
  <2> QED
    BY <1>1, <1>5, <2>1, Moves
<1> QED
  BY <1>6, <1>7

LEMMA UnresolvedPreserves ==
  ASSUME IInv, NEW c \in Completions, Unresolved(c)
  PROVE  IInv'
<1>1. At(c, "tool") /\ Go(c, NextCall(run[c])) /\ UNCHANGED pipe /\ Others
  BY DEF Unresolved
<1>2. /\ run[c] \in Run /\ Holds(c) /\ run[c].stage = "tool" /\ run[c].todo >= 1
      /\ ~run[c].done => /\ run[c].times < MaxRepeats
                         /\ \A t \in Calls : run[c].failed[t] < MaxToolFailures
  BY <1>1, ToolFacts
<1>3. /\ NextCall(run[c]) \in Run /\ Fits(c, NextCall(run[c]))
      /\ NextCall(run[c]).stage \in {"tool", "planning", "tail"}
  BY <1>1, <1>2, NextFits
<1> QED
  BY <1>1, <1>2, <1>3, Moves

LEMMA FailurePreserves ==
  ASSUME IInv, NEW c \in Completions, At(c, "tool"), NEW t \in Calls,
         NEW r \in Run, NEW complete \in BOOLEAN,
         r.stage = "tool", r.todo = run[c].todo, r.done = run[c].done,
         r.emitted = run[c].emitted, r.poisoned = run[c].poisoned,
         r.times = run[c].times, r.failed = run[c].failed,
         Failure(c, t, r, complete), Put(c, "progress"), Others
  PROVE  IInv'
<1> DEFINE g == [r.failed EXCEPT ![t] = @ + 1]
           f == [r EXCEPT !.failed = g]
           tripped == r.failed[t] + 1 >= MaxToolFailures
<1>1. /\ r.failed[t] \in Nat /\ g \in [Calls -> Nat] /\ g[t] = r.failed[t] + 1
      /\ \A u \in Calls \ {t} : g[u] = r.failed[u]
  BY DEF Run
<1>2. Observe(c, f, complete \/ tripped)
  <2>1. f = [r EXCEPT !.failed[t] = @ + 1]
    BY DEF Run
  <2> QED
    BY <2>1 DEF Failure
<1> HIDE DEF g
<1>3. /\ f \in Run /\ f.stage = "tool" /\ f.todo = r.todo /\ f.done = r.done
      /\ f.emitted = r.emitted /\ f.poisoned = r.poisoned /\ f.times = r.times /\ f.failed = g
  BY <1>1 DEF Run
<1> HIDE DEF f
<1>4. \/ complete \/ tripped \/ run[c].done
      \/ f.times < MaxRepeats /\ \A u \in Calls : f.failed[u] < MaxToolFailures
  <2> SUFFICES ASSUME ~tripped, ~run[c].done
               PROVE  f.times < MaxRepeats /\ \A u \in Calls : f.failed[u] < MaxToolFailures
    OBVIOUS
  <2>1. /\ run[c].times < MaxRepeats
        /\ \A u \in Calls : run[c].failed[u] < MaxToolFailures
    BY ToolFacts
  <2>2. g[t] < MaxToolFailures
    BY <1>1, Parameters DEF Positive
  <2> QED
    BY <1>1, <1>3, <2>1, <2>2
<1> HIDE DEF tripped
<1>5. (complete \/ tripped) \in BOOLEAN
  OBVIOUS
<1> QED
  BY <1>2, <1>3, <1>4, <1>5, ObservePreserves
-----------------------------------------------------------------------------
\* A run of a call that has failed, with its count of rejected arguments.
LEMMA RejectedType ==
  ASSUME NEW r \in Run, NEW n \in Nat
  PROVE  LET q == [r EXCEPT !.rejected = n] IN
         /\ q \in Run /\ q.stage = r.stage /\ q.todo = r.todo /\ q.done = r.done
         /\ q.emitted = r.emitted /\ q.poisoned = r.poisoned /\ q.times = r.times
         /\ q.failed = r.failed
BY DEF Run

LEMMA FailsPreserves ==
  ASSUME IInv, NEW c \in Completions, NEW t \in Calls, Fails(c, t)
  PROVE  IInv'
<1>1. At(c, "tool") /\ Put(c, "progress") /\ Others
  BY DEF Fails
<1>2. PICK n \in {0, run[c].rejected} : Failure(c, t, [run[c] EXCEPT !.rejected = n], FALSE)
  BY DEF Fails
<1>3. run[c] \in Run /\ n \in Nat /\ run[c].stage = "tool"
  BY <1>1, ToolFacts DEF Run
<1> DEFINE q == [run[c] EXCEPT !.rejected = n]
<1>4. /\ q \in Run /\ q.stage = run[c].stage /\ q.todo = run[c].todo /\ q.done = run[c].done
      /\ q.emitted = run[c].emitted /\ q.poisoned = run[c].poisoned /\ q.times = run[c].times
      /\ q.failed = run[c].failed
  BY <1>3, RejectedType
<1>5. Failure(c, t, q, FALSE)
  BY <1>2
<1> HIDE DEF q
<1> QED
  BY <1>1, <1>3, <1>4, <1>5, FailurePreserves

LEMMA RejectedPreserves ==
  ASSUME IInv, NEW c \in Completions, NEW t \in Calls, Rejected(c, t)
  PROVE  IInv'
<1> DEFINE n == run[c].rejected + 1
           q == [run[c] EXCEPT !.rejected = n]
           complete == n >= MaxRejected
<1>1. At(c, "tool") /\ Put(c, "progress") /\ Others /\ Failure(c, t, q, complete)
  BY DEF Rejected
<1>2. run[c] \in Run /\ n \in Nat /\ run[c].stage = "tool"
  BY <1>1, ToolFacts DEF Run
<1>3. /\ q \in Run /\ q.stage = run[c].stage /\ q.todo = run[c].todo /\ q.done = run[c].done
      /\ q.emitted = run[c].emitted /\ q.poisoned = run[c].poisoned /\ q.times = run[c].times
      /\ q.failed = run[c].failed
  BY <1>2, RejectedType
<1>4. complete \in BOOLEAN
  OBVIOUS
<1> HIDE DEF q, n, complete
<1> QED
  BY <1>1, <1>2, <1>3, <1>4, FailurePreserves

LEMMA BreaksPreserves ==
  ASSUME IInv, NEW c \in Completions, NEW t \in Calls, Breaks(c, t)
  PROVE  IInv'
<1>1. At(c, "tool") /\ Put(c, "progress") /\ Others
  BY DEF Breaks
<1>2. run[c] \in Run /\ Fits(c, run[c]) /\ Holds(c) /\ run[c].stage = "tool" /\ run[c].todo >= 1
  BY <1>1, ToolFacts
<1>3. CASE Go(c, [run[c] EXCEPT !.attempt = @ + 1])
  <2> DEFINE q == [run[c] EXCEPT !.attempt = @ + 1]
  <2>1. /\ q \in Run /\ q.stage = "tool" /\ q.todo = run[c].todo /\ q.done = run[c].done
        /\ q.emitted = run[c].emitted /\ q.poisoned = run[c].poisoned /\ q.times = run[c].times
        /\ q.failed = run[c].failed
    BY <1>2 DEF Run
  <2>2. Go(c, q)
    BY <1>3
  <2> HIDE DEF q
  <2>3. Fits(c, q)
    BY <1>2, <2>1 DEF Fits, LoopSound, RowSound, WordSound, StopSound, Looping, Settling
  <2> QED
    BY <1>1, <1>2, <2>1, <2>2, <2>3, Moves
<1>4. CASE Failure(c, t, run[c], TRUE)
  BY <1>1, <1>2, <1>4, FailurePreserves
<1> QED
  BY <1>3, <1>4 DEF Breaks

LEMMA SucceedsPreserves ==
  ASSUME IInv, NEW c \in Completions, NEW t \in Calls, NEW complete \in BOOLEAN,
         Succeeds(c, t, complete)
  PROVE  IInv'
<1> DEFINE n == IF run[c].last = t THEN run[c].times + 1 ELSE 1
           g == [run[c].failed EXCEPT ![t] = 0]
           p == [run[c] EXCEPT !.rejected = 0]
           q == [p EXCEPT !.failed = g]
           r == [q EXCEPT !.last = t]
           s == [r EXCEPT !.times = n]
           tripped == n >= MaxRepeats
<1>1. At(c, "tool") /\ Put(c, "progress") /\ Others
  BY DEF Succeeds
<1>2. /\ run[c] \in Run /\ run[c].stage = "tool"
      /\ ~run[c].done => \A u \in Calls : run[c].failed[u] < MaxToolFailures
  BY <1>1, ToolFacts
<1>3. /\ n \in Nat /\ g \in [Calls -> Nat] /\ g[t] = 0
      /\ \A u \in Calls \ {t} : g[u] = run[c].failed[u]
  BY <1>2 DEF Run
<1>4. Observe(c, s, complete \/ tripped)
  <2>1. s = [run[c] EXCEPT !.rejected = 0, !.failed[t] = 0, !.last = t, !.times = n]
    BY <1>2 DEF Run
  <2> QED
    BY <2>1 DEF Succeeds
<1> HIDE DEF n, g
<1>5. /\ p \in Run /\ p.stage = "tool" /\ p.todo = run[c].todo /\ p.done = run[c].done
      /\ p.emitted = run[c].emitted /\ p.poisoned = run[c].poisoned
  BY <1>2 DEF Run
<1> HIDE DEF p
<1>6. /\ q \in Run /\ q.stage = "tool" /\ q.todo = run[c].todo /\ q.done = run[c].done
      /\ q.emitted = run[c].emitted /\ q.poisoned = run[c].poisoned /\ q.failed = g
  BY <1>3, <1>5 DEF Run
<1> HIDE DEF q
<1>7. /\ r \in Run /\ r.stage = "tool" /\ r.todo = run[c].todo /\ r.done = run[c].done
      /\ r.emitted = run[c].emitted /\ r.poisoned = run[c].poisoned /\ r.failed = g
  BY <1>6 DEF Run
<1> HIDE DEF r
<1>8. /\ s \in Run /\ s.stage = "tool" /\ s.todo = run[c].todo /\ s.done = run[c].done
      /\ s.emitted = run[c].emitted /\ s.poisoned = run[c].poisoned /\ s.failed = g /\ s.times = n
  BY <1>3, <1>7 DEF Run
<1> HIDE DEF s
<1>9. \/ complete \/ tripped \/ run[c].done
      \/ s.times < MaxRepeats /\ \A u \in Calls : s.failed[u] < MaxToolFailures
  <2> SUFFICES ASSUME ~tripped, ~run[c].done
               PROVE  s.times < MaxRepeats /\ \A u \in Calls : s.failed[u] < MaxToolFailures
    OBVIOUS
  <2>1. n < MaxRepeats
    BY <1>3, Parameters DEF Positive
  <2>2. \A u \in Calls : g[u] < MaxToolFailures
    BY <1>2, <1>3, Parameters DEF Positive
  <2> QED
    BY <1>8, <2>1, <2>2
<1>10. (complete \/ tripped) \in BOOLEAN
  OBVIOUS
<1> HIDE DEF tripped
<1> QED
  BY <1>1, <1>4, <1>8, <1>9, <1>10, ObservePreserves
-----------------------------------------------------------------------------
(* The end of main_execution                                                 *)

\* The row, the run and the faults of one completion change.
LEMMA Rewrites ==
  ASSUME IInv, NEW c \in Completions, NEW r \in Run, Go(c, r),
         UNCHANGED <<heard, slots, stream, stopping, decided>>,
         NEW w \in Final, row' = row \/ row' = [row EXCEPT ![c] = w],
         UNCHANGED errors \/ Fault(c),
         Holds(c), r.stage \notin {"idle", "saved", "abandoned", "waiting", "ended"},
         LoopSound(r, decided[c]), RowSound(r, row'[c], decided[c], stopper[c]),
         WordSound(r, row'[c], decided[c], faulty'[c], stopper[c]),
         StopSound(r, heard[c], decided[c])
  PROVE  IInv'
<1> USE DEF IInv
<1>1. /\ run' \in [Completions -> Run] /\ run'[c] = r
      /\ \A d \in Completions \ {c} : run'[d] = run[d]
  BY DEF Go, Types
<1>2. /\ row' \in [Completions -> {"none", "in_progress"} \cup Final]
      /\ \A d \in Completions \ {c} : row'[d] = row[d]
      /\ row[c] \in Final => row'[c] \in Final
  BY ZenonT(60) DEF Types
<1>3. /\ faulty' \in [Completions -> BOOLEAN] /\ faults' \in Nat
      /\ faulty[c] => faulty'[c]
      /\ \A d \in Completions \ {c} : faulty'[d] = faulty[d]
  BY FaultType DEF errors, Types
<1>4. Types'
  BY <1>1, <1>2, <1>3 DEF Types, slots, stream, pipe, client, stopping
<1>5. Frame(c)
  BY <1>1, <1>2, <1>3 DEF Frame, stream, pipe, client, stopping
<1>6. Fits(c, run[c])'
  BY <1>1 DEF Fits, stopping
<1>7. Written(c)'
  BY <1>2, <1>3 DEF Written, Sound, stream, pipe
<1>8. Closed(c)'
  BY <1>1 DEF Closed, At
<1>9. Holds(c)' = Holds(c) /\ free' = free
  BY <1>1 DEF Holds, slots
<1> QED
  BY <1>4, <1>5, <1>6, <1>7, <1>8, <1>9, Proceeds DEF Sound

LEMMA SettlePreserves ==
  ASSUME IInv, NEW c \in Completions, Settle(c)
  PROVE  IInv'
<1>1. /\ run[c].stage = "tail" /\ UNCHANGED pipe /\ Others
      /\ run[c] \in Run /\ Fits(c, run[c]) /\ Holds(c)
  BY InLoop DEF Settle, At, Holds
<1>2. CASE run[c].emitted
  <2> DEFINE r == To(c, "returned")
  <2>1. /\ r \in Run /\ r.stage = "returned" /\ r.emitted /\ r.poisoned = run[c].poisoned
    BY <1>1, <1>2 DEF To, Run, Stages
  <2>2. Go(c, r)
    BY <1>2 DEF Settle
  <2> HIDE DEF r
  <2>3. Fits(c, r)
    BY <1>1, <1>2, <2>1 DEF Fits, LoopSound, RowSound, WordSound, StopSound, Looping, Settling
  <2> QED
    BY <1>1, <2>1, <2>2, <2>3, Moves
<1>3. CASE ~run[c].emitted
  <2> DEFINE s == IF Heard(c) THEN "stopped" ELSE "success"
             r == Conclude(run[c], s, "returned")
  <2>1. Go(c, r)
    BY <1>3 DEF Settle
  <2>2. /\ s \in Final /\ "returned" \in Afters /\ s # "error"
        /\ heard[c] \in Looping => s # "success"
    BY DEF Final, Afters, Heard, Looping
  <2>3. /\ decided[c] = "none" /\ row[c] \in Unsettled /\ row[c] # "none"
        /\ run[c].poisoned => faulty[c]
    BY <1>1, <1>3 DEF Fits, RowSound, WordSound, Unsettled
  <2> HIDE DEF s
  <2>4. r \in Run /\ Fits(c, r) /\ r.stage = "writing"
    BY <1>1, <1>3, <2>2, <2>3, ConclusionFits
  <2> QED
    BY <1>1, <2>1, <2>4, Moves
<1> QED
  BY <1>2, <1>3

LEMMA AstrayFits ==
  ASSUME NEW r \in Run, NEW w \in Unsettled \cup Final, NEW d, NEW h, NEW k,
         r.stage = "writing", LoopSound(r, d), StopSound(r, h, d)
  PROVE  /\ Astray(r) \in Run /\ Astray(r).stage \in {"raised", "telling", "failing"}
         /\ LoopSound(Astray(r), d) /\ RowSound(Astray(r), w, d, k)
         /\ WordSound(Astray(r), w, d, TRUE, k) /\ StopSound(Astray(r), h, d)
<1> DEFINE a == Astray(r)
<1>1. w # "none"
  BY DEF Unsettled, Final
<1>2. \A s \in {"raised", "failing"} : Over(r, s) \in Run /\ Over(r, s).stage = s
  BY OverType DEF Stages, Agent
<1>3. CASE a \in {Over(r, "raised"), Over(r, "failing")}
  <2>1. a \in Run /\ a.stage \in {"raised", "failing"}
    BY <1>2, <1>3
  <2> HIDE DEF a
  <2>2. LoopSound(a, d)
    BY <2>1 DEF LoopSound, Looping, Settling
  <2>3. RowSound(a, w, d, k)
    BY <1>1, <2>1 DEF RowSound, Looping
  <2>4. WordSound(a, w, d, TRUE, k)
    BY DEF WordSound
  <2>5. StopSound(a, h, d)
    BY <2>1 DEF StopSound, Looping, Settling
  <2> QED
    BY <2>1, <2>2, <2>3, <2>4, <2>5 DEF a
<1>4. CASE a = [r EXCEPT !.stage = "telling"] /\ r.verdict = "error"
  <2>1. /\ a \in Run /\ a.stage = "telling" /\ a.verdict = "error" /\ a.after = r.after
        /\ a.done = r.done /\ a.todo = r.todo
    BY <1>4 DEF Run, Stages, Agent
  <2> HIDE DEF a
  <2>2. LoopSound(a, d)
    <3>1. r.stage = "writing" /\ r.verdict = "error" /\ LoopSound(r, d)
      BY <1>4
    <3> QED
      BY <2>1, <3>1 DEF LoopSound, Looping, Settling
  <2>3. RowSound(a, w, d, k)
    BY <1>1, <2>1 DEF RowSound, Looping
  <2>4. WordSound(a, w, d, TRUE, k)
    BY DEF WordSound
  <2>5. StopSound(a, h, d)
    BY <2>1 DEF StopSound, Looping, Settling
  <2> QED
    BY <2>1, <2>2, <2>3, <2>4, <2>5 DEF a
<1> QED
  BY <1>3, <1>4 DEF Astray

LEMMA WritePreserves ==
  ASSUME IInv, NEW c \in Completions, Write(c)
  PROVE  IInv'
<1> DEFINE v == run[c].verdict
<1>1. /\ run[c].stage = "writing" /\ UNCHANGED <<heard, slots, stream, stopping, decided>>
      /\ run[c] \in Run /\ Fits(c, run[c]) /\ Holds(c) /\ v \in Final
      /\ row[c] # "none" /\ row[c] \in Unsettled \cup Final
      /\ row \in [Completions -> {"none", "in_progress"} \cup Final]
      /\ faulty \in [Completions -> BOOLEAN]
  BY InLoop DEF Write, At, Holds, Fits, RowSound, Run, Unsettled, IInv, Types
<1>2. ASSUME row' = [row EXCEPT ![c] = v], Go(c, To(c, "telling")),
             UNCHANGED errors \/ (Fault(c) /\ v = "error")
      PROVE  IInv'
  <2> DEFINE r == To(c, "telling")
  <2>1. /\ r \in Run /\ r.stage = "telling" /\ r.verdict = v /\ r.after = run[c].after
        /\ r.done = run[c].done /\ r.todo = run[c].todo /\ r.emitted = run[c].emitted
        /\ r.poisoned = run[c].poisoned
    BY <1>1 DEF To, Run, Stages, Agent
  <2>2. row'[c] = v /\ v # "none" /\ (faulty[c] => faulty'[c])
    BY <1>1, <1>2, FaultType DEF Final, errors, IInv
  <2>3. Go(c, r)
    BY <1>2
  <2> HIDE DEF r
  <2>4. LoopSound(r, decided[c])
    BY <1>1, <2>1 DEF Fits, LoopSound, Looping, Settling
  <2>5. RowSound(r, row'[c], decided[c], stopper[c])
    BY <1>1, <2>1, <2>2 DEF Fits, RowSound, Looping
  <2>6. WordSound(r, row'[c], decided[c], faulty'[c], stopper[c])
    BY <1>1, <2>1, <2>2 DEF Fits, WordSound, RowSound, Settling
  <2>7. StopSound(r, heard[c], decided[c])
    BY <1>1, <2>1 DEF Fits, StopSound, Looping, Settling
  <2> QED
    BY <1>1, <1>2, <2>1, <2>3, <2>4, <2>5, <2>6, <2>7, Rewrites
<1>3. ASSUME decided[c] = v, UNCHANGED <<row, errors>>, Go(c, To(c, "telling"))
      PROVE  IInv'
  <2> DEFINE r == To(c, "telling")
  <2>1. /\ r \in Run /\ r.stage = "telling" /\ r.verdict = v /\ r.after = run[c].after
        /\ r.done = run[c].done /\ r.todo = run[c].todo /\ r.emitted = run[c].emitted
        /\ r.poisoned = run[c].poisoned
    BY <1>1 DEF To, Run, Stages, Agent
  <2>2. v = "error" /\ decided[c] # "none"
    BY <1>1, <1>3 DEF Fits, RowSound, Final
  <2>3. Go(c, r) /\ row'[c] = row[c] /\ faulty'[c] = faulty[c]
    BY <1>3 DEF errors
  <2> HIDE DEF r
  <2>4. LoopSound(r, decided[c])
    BY <1>1, <2>1 DEF Fits, LoopSound, Looping, Settling
  <2>5. RowSound(r, row'[c], decided[c], stopper[c])
    BY <1>1, <2>1, <2>2, <2>3 DEF Fits, RowSound, Looping
  <2>6. WordSound(r, row'[c], decided[c], faulty'[c], stopper[c])
    BY <1>1, <1>3, <2>1, <2>2, <2>3 DEF Fits, WordSound, Settling
  <2>7. StopSound(r, heard[c], decided[c])
    BY <1>1, <2>1 DEF Fits, StopSound, Looping, Settling
  <2> QED
    BY <1>1, <1>3, <2>1, <2>3, <2>4, <2>5, <2>6, <2>7, Rewrites
<1>4. ASSUME NEW r \in Run, r.stage = "writing", LoopSound(r, decided[c]),
             StopSound(r, heard[c], decided[c]), Go(c, Astray(r)),
             row' = row \/ row' = [row EXCEPT ![c] = v],
             (UNCHANGED errors /\ faulty[c]) \/ Fault(c)
      PROVE  IInv'
  <2> DEFINE a == Astray(r)
  <2>1. row'[c] \in Unsettled \cup Final
    BY <1>1, <1>4
  <2>2. faulty'[c] = TRUE
    BY <1>1, <1>4 DEF errors, Fault
  <2>3. /\ a \in Run /\ a.stage \in {"raised", "telling", "failing"}
        /\ LoopSound(a, decided[c]) /\ RowSound(a, row'[c], decided[c], stopper[c])
        /\ WordSound(a, row'[c], decided[c], TRUE, stopper[c])
        /\ StopSound(a, heard[c], decided[c])
    BY <1>4, <2>1, AstrayFits
  <2> HIDE DEF a
  <2>4. Go(c, a)
    BY <1>4 DEF a
  <2> QED
    BY <1>1, <1>4, <2>2, <2>3, <2>4, Rewrites
<1>5. LoopSound(run[c], decided[c]) /\ StopSound(run[c], heard[c], decided[c])
  BY <1>1 DEF Fits
<1>6. CASE run[c].poisoned /\ Go(c, Astray(run[c])) /\ UNCHANGED <<row, errors>>
  <2>1. faulty[c]
    BY <1>1, <1>6 DEF Fits, WordSound
  <2> QED
    BY <1>1, <1>4, <1>5, <1>6, <2>1
<1>7. ASSUME NEW p \in BOOLEAN, Fault(c), row' = row \/ row' = [row EXCEPT ![c] = v],
             Go(c, Astray([run[c] EXCEPT !.poisoned = p]))
      PROVE  IInv'
  <2> DEFINE r == [run[c] EXCEPT !.poisoned = p]
  <2>1. /\ r \in Run /\ r.stage = "writing" /\ r.verdict = v /\ r.after = run[c].after
        /\ r.done = run[c].done /\ r.todo = run[c].todo
    BY <1>1 DEF Run
  <2>2. Go(c, Astray(r))
    BY <1>7
  <2> HIDE DEF r
  <2>3. LoopSound(r, decided[c]) /\ StopSound(r, heard[c], decided[c])
    BY <1>1, <1>5, <2>1 DEF LoopSound, StopSound, Looping, Settling
  <2> QED
    BY <1>4, <1>7, <2>1, <2>2, <2>3
<1>8. ASSUME Fault(c), run[c].after = "raised", row' = [row EXCEPT ![c] = "error"],
             Go(c, To(c, "telling"))
      PROVE  IInv'
  <2>1. v = "error"
    BY <1>1, <1>5, <1>8 DEF LoopSound, Settling
  <2> QED
    BY <1>2, <1>8, <2>1
<1> QED
  BY <1>2, <1>3, <1>6, <1>7, <1>8 DEF Write
-----------------------------------------------------------------------------
LEMMA TellPreserves ==
  ASSUME IInv, NEW c \in Completions, Tell(c)
  PROVE  IInv'
<1> USE DEF IInv
<1> DEFINE v == run[c].verdict
           r == [run[c] EXCEPT !.emitted = TRUE]
           n == IF r.after = "tool" THEN [r EXCEPT !.stage = "tool"] ELSE Over(r, r.after)
<1>1. /\ run[c].stage = "telling" /\ run[c] \in Run /\ Fits(c, run[c]) /\ Holds(c) /\ v \in Final
      /\ v \in Events /\ run[c].after \in Afters /\ row[c] # "none"
      /\ decided' = [decided EXCEPT ![c] = v] /\ Put(c, v)
      /\ UNCHANGED <<row, heard, slots, client, stopping, errors>>
  BY InLoop DEF Tell, At, Holds, Fits, RowSound, Run, Events, Afters
<1>2. Go(c, n)
  BY DEF Tell
<1>3. /\ r \in Run /\ r.stage = "telling" /\ r.after = run[c].after /\ r.emitted
      /\ r.poisoned = run[c].poisoned /\ r.done = run[c].done /\ r.todo = run[c].todo
  BY <1>1 DEF Run
<1> HIDE DEF r
<1>4. /\ n \in Run /\ n.stage = run[c].after /\ n.emitted /\ n.poisoned = run[c].poisoned
      /\ n.stage = "tool" => n.done = run[c].done /\ n.todo = run[c].todo
  <2>1. CASE r.after = "tool"
    BY <1>3, <2>1 DEF Run, Stages, Agent
  <2>2. CASE r.after # "tool"
    <3>1. r.after \in Stages
      BY <1>1, <1>3 DEF Afters, Stages, Agent
    <3> QED
      BY <1>3, <2>2, <3>1, OverType
  <2> QED
    BY <2>1, <2>2
<1> HIDE DEF n
<1>5. /\ run' \in [Completions -> Run] /\ run'[c] = n
      /\ \A d \in Completions \ {c} : run'[d] = run[d]
      /\ decided' \in [Completions -> Final \cup {"none"}] /\ decided'[c] = v
      /\ \A d \in Completions \ {c} : decided'[d] = decided[d]
  BY <1>1, <1>2, <1>4 DEF Go, Types
<1>6. /\ queue' \in [Completions -> Seq(Events)] /\ lost' \in [Completions -> BOOLEAN]
      /\ \A d \in Completions : Len(queue'[d]) <= QueueSize
      /\ \A d \in Completions \ {c} : queue'[d] = queue[d]
      /\ queue'[c] = queue[c] \/ queue'[c] = Append(queue[c], v)
  BY <1>1, PutType
<1>7. Types'
  BY <1>1, <1>5, <1>6 DEF Types, slots, client, stopping, errors
<1>8. Frame(c)
  BY <1>1, <1>5, <1>6 DEF Frame, slots, client, stopping, errors
<1>9. LoopSound(n, v)
  BY <1>1, <1>4 DEF Fits, LoopSound, Looping, Settling, Afters
<1>10. RowSound(n, row[c], v, stopper[c])
  BY <1>1, <1>4 DEF RowSound, Looping, Afters
<1>11. WordSound(n, row[c], v, faulty[c], stopper[c])
  BY <1>1, <1>4 DEF Fits, WordSound, Settling, Afters, Final
<1>12. StopSound(n, heard[c], v)
  BY <1>1, <1>4 DEF Fits, StopSound, LoopSound, Looping, Settling, Afters
<1>13. Fits(c, run[c])'
  BY <1>1, <1>5, <1>9, <1>10, <1>11, <1>12 DEF Fits, stopping, errors
<1>14. Written(c)'
  <2>1. ~faulty[c] => row[c] \in Final
    BY <1>1 DEF Fits, WordSound
  <2> QED
    BY <1>1, <1>6, <2>1, StillWritten DEF Types, Sound, errors
<1>15. Closed(c)'
  BY <1>4, <1>5, <1>1 DEF Closed, At, Afters
<1>16. Holds(c)' = Holds(c) /\ free' = free
  BY <1>1, <1>4, <1>5 DEF Holds, slots, Afters
<1> QED
  BY <1>7, <1>8, <1>13, <1>14, <1>15, <1>16, Proceeds DEF Sound

LEMMA RaisePreserves ==
  ASSUME IInv, NEW c \in Completions, Raise(c)
  PROVE  IInv'
<1> DEFINE o == Over(run[c], "failing")
<1>1. /\ run[c].stage \in Looping \cup {"tool", "tail"} /\ run[c] \in Run /\ Holds(c)
      /\ UNCHANGED <<row, heard, slots, stream, stopping, decided>>
      /\ row[c] # "none" /\ (heard[c] \in Looping => run[c].stage # "tool")
      /\ faulty \in [Completions -> BOOLEAN]
  BY InLoop DEF Raise, Looping, Holds, Fits, RowSound, StopSound, Settling, IInv, Types
<1>2. o \in Run /\ Fits(c, o) /\ o.stage = "failing"
  BY <1>1, OverFits, OverType DEF Stages, Agent
<1>3. CASE Go(c, o) /\ UNCHANGED errors
  BY <1>1, <1>2, <1>3, Rewrites DEF errors, Fits, Final
<1>4. CASE Fault(c) /\ Go(c, [o EXCEPT !.poisoned = TRUE])
  <2> DEFINE q == [o EXCEPT !.poisoned = TRUE]
  <2> HIDE DEF o
  <2>1. q \in Run /\ q.stage = "failing" /\ q.emitted = o.emitted
    BY <1>2 DEF Run
  <2>2. Go(c, q)
    BY <1>4
  <2> HIDE DEF q
  <2>3. faulty'[c] = TRUE
    BY <1>1, <1>4 DEF Fault
  <2>4. LoopSound(q, decided[c])
    BY <2>1 DEF LoopSound, Looping, Settling
  <2>5. RowSound(q, row'[c], decided[c], stopper[c])
    BY <1>1, <2>1 DEF RowSound, Looping
  <2>6. WordSound(q, row'[c], decided[c], faulty'[c], stopper[c])
    BY <2>3 DEF WordSound
  <2>7. StopSound(q, heard[c], decided[c])
    BY <1>2, <2>1 DEF Fits, StopSound, Looping, Settling
  <2> QED
    BY <1>1, <1>4, <2>1, <2>2, <2>4, <2>5, <2>6, <2>7, Rewrites DEF Final
<1> QED
  BY <1>3, <1>4 DEF Raise

LEMMA FailPreserves ==
  ASSUME IInv, NEW c \in Completions, Fail(c)
  PROVE  IInv'
<1>1. /\ run[c].stage = "failing" /\ UNCHANGED pipe /\ Others
      /\ run[c] \in Run /\ Fits(c, run[c]) /\ Holds(c)
      /\ row[c] # "none" /\ (run[c].poisoned => faulty[c])
  BY InLoop DEF Fail, At, Holds, Fits, RowSound, WordSound
<1>2. CASE run[c].poisoned
  <2> DEFINE r == To(c, "raised")
  <2>1. r \in Run /\ r.stage = "raised" /\ r.emitted = run[c].emitted /\ r.poisoned = run[c].poisoned
    BY <1>1 DEF To, Run, Stages
  <2>2. Go(c, r)
    BY <1>2 DEF Fail
  <2> HIDE DEF r
  <2>3. Fits(c, r)
    BY <1>1, <2>1 DEF Fits, LoopSound, RowSound, WordSound, StopSound, Looping, Settling
  <2> QED
    BY <1>1, <2>1, <2>2, <2>3, Moves
<1>3. CASE ~run[c].poisoned
  <2> DEFINE r == Conclude(run[c], "error", "raised")
  <2>1. "error" \in Final /\ "raised" \in Afters /\ Go(c, r)
    BY <1>3 DEF Fail, Final, Afters
  <2>2. r \in Run /\ Fits(c, r) /\ r.stage = "writing"
    BY <1>1, <2>1, ConclusionFits
  <2> QED
    BY <1>1, <2>1, <2>2, Moves
<1> QED
  BY <1>2, <1>3
-----------------------------------------------------------------------------
(* The task around the agent                                                 *)

\* The task leaves its try block, and says so in the queue.
LEMMA Leaves ==
  ASSUME IInv, NEW c \in Completions, Holds(c), run[c].stage # "ending", Leave(c),
         NEW e \in Events, Put(c, e),
         row' = row \/ row' = [row EXCEPT ![c] = "error"],
         UNCHANGED errors \/ Fault(c),
         ~faulty'[c] => row'[c] \in Final /\ (stopper[c] = "idle" => row'[c] \in {decided[c], "error"}),
         UNCHANGED <<slots, client, stopping, decided>>
  PROVE  IInv'
<1> USE DEF IInv
<1> DEFINE r == [Idle EXCEPT !.stage = "ending"]
<1>1. /\ r \in Run /\ r.stage = "ending" /\ ~r.emitted /\ ~r.poisoned
  <2>1. Idle \in Run /\ ~Idle.emitted /\ ~Idle.poisoned
    BY IdleType DEF Idle
  <2> QED
    BY <2>1 DEF Run, Stages
<1>2. Go(c, r) /\ heard' = [heard EXCEPT ![c] = "never"]
  BY DEF Leave
<1> HIDE DEF r
<1>3. /\ run' \in [Completions -> Run] /\ run'[c] = r
      /\ \A d \in Completions \ {c} : run'[d] = run[d]
      /\ heard' \in [Completions -> Agent \cup {"never"}] /\ heard'[c] = "never"
      /\ \A d \in Completions \ {c} : heard'[d] = heard[d]
  BY <1>1, <1>2 DEF Go, Types
<1>4. /\ queue' \in [Completions -> Seq(Events)] /\ lost' \in [Completions -> BOOLEAN]
      /\ \A d \in Completions : Len(queue'[d]) <= QueueSize
      /\ \A d \in Completions \ {c} : queue'[d] = queue[d]
      /\ queue'[c] = queue[c] \/ queue'[c] = Append(queue[c], e)
  BY PutType
<1>5. /\ row' \in [Completions -> {"none", "in_progress"} \cup Final]
      /\ \A d \in Completions \ {c} : row'[d] = row[d]
      /\ row'[c] \in {row[c], "error"}
  BY ZenonT(60) DEF Types, Final
<1>6. /\ faulty' \in [Completions -> BOOLEAN] /\ faults' \in Nat
      /\ faulty[c] => faulty'[c]
      /\ \A d \in Completions \ {c} : faulty'[d] = faulty[d]
  BY FaultType DEF errors, Types
<1>7. Types'
  BY <1>3, <1>4, <1>5, <1>6 DEF Types, slots, client, stopping
<1>8. Frame(c)
  BY <1>3, <1>4, <1>5, <1>6 DEF Frame, client, stopping
<1>9. row[c] # "none"
  BY InLoop DEF Holds, Fits, RowSound
<1>10. LoopSound(r, decided[c])
  BY <1>1 DEF LoopSound, Looping, Settling
<1>11. RowSound(r, row'[c], decided[c], stopper[c])
  BY <1>1, <1>5, <1>9 DEF RowSound, Looping
<1>12. WordSound(r, row'[c], decided[c], faulty'[c], stopper[c])
  BY <1>1 DEF WordSound
<1>13. StopSound(r, heard'[c], decided[c])
  BY <1>3 DEF StopSound, Looping
<1>14. Fits(c, run[c])'
  BY <1>3, <1>10, <1>11, <1>12, <1>13 DEF Fits, stopping
<1>15. Written(c)'
  BY <1>4, <1>6, StillWritten DEF Types, Sound
<1>16. Closed(c)'
  BY <1>1, <1>3 DEF Closed, At
<1>17. Holds(c)' = Holds(c) /\ free' = free
  BY <1>1, <1>3 DEF Holds, slots
<1> QED
  BY <1>7, <1>8, <1>14, <1>15, <1>16, <1>17, Proceeds DEF Sound

LEMMA StartPreserves ==
  ASSUME IInv, NEW c \in Completions, Start(c)
  PROVE  IInv'
<1>1. /\ run[c].stage = "starting" /\ run[c] \in Run /\ Fits(c, run[c]) /\ Holds(c)
      /\ UNCHANGED <<row, slots, client, stopping, decided>>
      /\ run[c] = [Idle EXCEPT !.stage = "starting"]
  BY InLoop DEF Start, At, Holds, Fits, LoopSound
<1>2. /\ Idle \in Run /\ ~Idle.done /\ ~Idle.emitted /\ ~Idle.poisoned /\ Idle.times = 0
      /\ \A t \in Calls : Idle.failed[t] = 0
  BY IdleType DEF Idle
<1>3. /\ ~run[c].done /\ ~run[c].emitted /\ ~run[c].poisoned /\ run[c].times = 0
      /\ \A t \in Calls : run[c].failed[t] = 0
  BY <1>1, <1>2 DEF Run
<1>4. decided[c] = "none" /\ row[c] \in Unsettled /\ row[c] # "none" /\ faulty[c] \in BOOLEAN
  BY <1>1, <1>3, InLoop DEF Fits, RowSound, Unsettled
<1>5. heard[c] \notin Looping
  BY <1>1 DEF Fits, StopSound, Looping, Settling
<1>6. \A s \in {"planning", "raised"} :
        /\ To(c, s) \in Run /\ To(c, s).stage = s
        /\ ~To(c, s).done /\ ~To(c, s).emitted /\ ~To(c, s).poisoned
        /\ To(c, s).times = 0 /\ To(c, s).failed = run[c].failed
  BY <1>1, <1>3 DEF To, Run, Stages, Agent
<1>7. ASSUME NEW r \in Run, r.stage \in {"planning", "raised"},
             ~r.done, ~r.emitted, r.poisoned => faulty'[c],
             r.times = 0, r.failed = run[c].failed,
             Go(c, r), UNCHANGED <<heard, pipe>>, UNCHANGED errors \/ Fault(c)
      PROVE  IInv'
  <2>1. LoopSound(r, decided[c])
    BY <1>3, <1>4, <1>7, Parameters DEF LoopSound, Looping, Settling, Positive
  <2>2. RowSound(r, row'[c], decided[c], stopper[c])
    BY <1>1, <1>4, <1>7 DEF RowSound, Looping
  <2>3. WordSound(r, row'[c], decided[c], faulty'[c], stopper[c])
    BY <1>1, <1>4, <1>7 DEF WordSound, Settling
  <2>4. StopSound(r, heard[c], decided[c])
    BY <1>5 DEF StopSound
  <2>5. UNCHANGED <<heard, slots, stream, stopping, decided>> /\ row' = row /\ "error" \in Final
    BY <1>1, <1>7 DEF stream, Final
  <2> QED
    BY <1>1, <1>7, <2>1, <2>2, <2>3, <2>4, <2>5, Rewrites
<1>8. CASE Go(c, To(c, "planning")) /\ UNCHANGED <<heard, pipe, errors>>
  BY <1>6, <1>7, <1>8
<1>9. CASE Go(c, To(c, "raised")) /\ UNCHANGED <<heard, pipe, errors>>
  BY <1>6, <1>7, <1>9
<1>10. CASE /\ Fault(c) /\ Go(c, [To(c, "raised") EXCEPT !.poisoned = TRUE])
            /\ UNCHANGED <<heard, pipe>>
  <2> DEFINE p == To(c, "raised")
             q == [p EXCEPT !.poisoned = TRUE]
  <2>1. p \in Run /\ p.stage = "raised" /\ ~p.done /\ ~p.emitted /\ p.times = 0 /\ p.failed = run[c].failed
    BY <1>6
  <2> HIDE DEF p
  <2>2. q \in Run /\ q.stage = "raised" /\ ~q.done /\ ~q.emitted /\ q.times = 0 /\ q.failed = run[c].failed
    BY <2>1 DEF Run
  <2>3. Go(c, q)
    BY <1>10 DEF p
  <2>4. faulty'[c]
    BY <1>10, FaultType DEF IInv
  <2> HIDE DEF q
  <2> QED
    BY <1>7, <1>10, <2>2, <2>3, <2>4
<1>11. CASE Fault(c) /\ Leave(c) /\ Put(c, "failure")
  <2>1. faulty'[c] /\ "failure" \in Events
    BY <1>11, FaultType DEF IInv, Events
  <2> QED
    BY <1>1, <1>11, <2>1, Leaves
<1> QED
  BY <1>1, <1>8, <1>9, <1>10, <1>11 DEF Start

LEMMA ReturnPreserves ==
  ASSUME IInv, NEW c \in Completions, Return(c)
  PROVE  IInv'
<1>1. /\ run[c].stage = "returned" /\ Fits(c, run[c]) /\ Holds(c)
      /\ Leave(c) /\ Put(c, "success") /\ "success" \in Events
      /\ UNCHANGED <<row, slots, client, stopping, decided, errors>>
  BY InLoop DEF Return, At, Holds, Events, Final
<1>2. ~faulty[c] => row[c] \in Final /\ (stopper[c] = "idle" => row[c] \in {decided[c], "error"})
  BY <1>1 DEF Fits, RowSound, WordSound, Settling
<1> QED
  BY <1>1, <1>2, Leaves DEF errors

LEMMA RecoverPreserves ==
  ASSUME IInv, NEW c \in Completions, Recover(c)
  PROVE  IInv'
<1>1. /\ run[c].stage = "raised" /\ Fits(c, run[c]) /\ Holds(c)
      /\ Leave(c) /\ Put(c, "failure") /\ "failure" \in Events
      /\ UNCHANGED <<slots, client, stopping, decided>>
      /\ row \in [Completions -> {"none", "in_progress"} \cup Final]
  BY InLoop DEF Recover, At, Holds, Events, IInv, Types
<1>2. CASE ~run[c].poisoned /\ row' = [row EXCEPT ![c] = "error"] /\ UNCHANGED errors
  <2>1. row'[c] = "error" /\ "error" \in Final
    BY <1>1, <1>2 DEF Final
  <2> QED
    BY <1>1, <1>2, <2>1, Leaves
<1>3. CASE run[c].poisoned /\ UNCHANGED <<row, errors>>
  <2>1. faulty'[c]
    BY <1>1, <1>3 DEF Fits, WordSound, errors
  <2> QED
    BY <1>1, <1>3, <2>1, Leaves
<1>4. CASE Fault(c) /\ UNCHANGED row
  <2>1. faulty'[c]
    BY <1>4, FaultType DEF IInv
  <2> QED
    BY <1>1, <1>4, <2>1, Leaves
<1> QED
  BY <1>2, <1>3, <1>4 DEF Recover
-----------------------------------------------------------------------------
\* A slot is taken.
LEMMA AcquirePreserves ==
  ASSUME IInv, NEW c \in Completions, Acquire(c)
  PROVE  IInv'
<1> USE DEF IInv
<1> DEFINE r == To(c, "starting")
<1>1. /\ run[c].stage = "waiting" /\ run[c] \in Run /\ Fits(c, run[c]) /\ Idle \in Run
      /\ line # <<>> /\ free > 0 /\ line' = Tail(line) /\ free' = free - 1
      /\ UNCHANGED <<row, heard, stream, stopping, decided, errors>>
  BY InLoop, IdleType DEF Acquire, At
<1>2. run[c] = [Idle EXCEPT !.stage = "waiting"]
  BY <1>1 DEF Fits, LoopSound
<1>3. /\ r \in Run /\ r.stage = "starting" /\ r.emitted = run[c].emitted
      /\ r.poisoned = run[c].poisoned /\ r = [Idle EXCEPT !.stage = "starting"]
  <2>1. r = [run[c] EXCEPT !.stage = "starting"]
    BY DEF To
  <2> HIDE DEF r
  <2> QED
    BY <1>1, <1>2, <2>1 DEF Run, Stages
<1>4. Go(c, r)
  BY DEF Acquire
<1> HIDE DEF r
<1>5. /\ run' \in [Completions -> Run] /\ run'[c] = r
      /\ \A d \in Completions \ {c} : run'[d] = run[d]
  BY <1>3, <1>4 DEF Go, Types
<1>6. Types'
  <2>1. free' \in Nat
    BY <1>1 DEF Types
  <2>2. line' \in Seq(Completions)
    BY <1>1 DEF Types
  <2> QED
    BY <1>1, <1>5, <2>1, <2>2 DEF Types, stream, pipe, client, stopping, errors
<1>7. Frame(c)
  BY <1>1, <1>5 DEF Frame, stream, pipe, client, stopping, errors
<1>8. LoopSound(r, decided[c])
  BY <1>3 DEF LoopSound, Looping, Settling
<1>9. RowSound(r, row[c], decided[c], stopper[c])
  BY <1>1, <1>3 DEF Fits, RowSound, Looping
<1>10. WordSound(r, row[c], decided[c], faulty[c], stopper[c])
  BY <1>1, <1>3 DEF Fits, WordSound, Settling
<1>11. StopSound(r, heard[c], decided[c])
  BY <1>1 DEF Fits, StopSound, Looping, Settling
<1>12. Sound(c)'
  BY <1>1, <1>3, <1>5, <1>8, <1>9, <1>10, <1>11
     DEF Sound, Fits, Written, Closed, At, stream, pipe, client, stopping, errors
<1>13. SlotsConserved'
  <2>1. Holders' = Holders \cup {c} /\ c \notin Holders
    BY <1>1, <1>3, <1>5 DEF Holders
  <2>2. Cardinality(Holders') = Cardinality(Holders) + 1
    BY <2>1, HoldersFinite, FS_AddElement
  <2> QED
    BY <1>1, <2>2, HoldersFinite DEF SlotsConserved, Types
<1> QED
  BY <1>6, <1>7, <1>12, <1>13, Elsewhere

\* A slot is given back, and the queue gets its sentinel.
LEMMA EndPreserves ==
  ASSUME IInv, NEW c \in Completions, End(c)
  PROVE  IInv'
<1> USE DEF IInv
<1> DEFINE r == To(c, "ended")
<1>1. /\ run[c].stage = "ending" /\ run[c] \in Run /\ Fits(c, run[c])
      /\ free' = free + 1 /\ Finish(c)
      /\ UNCHANGED <<row, heard, line, client, stopping, decided, errors>>
  BY InLoop DEF End, At
<1>2. /\ r \in Run /\ r.stage = "ended" /\ r.emitted = run[c].emitted /\ r.poisoned = run[c].poisoned
  BY <1>1 DEF To, Run, Stages
<1>3. Go(c, r)
  BY DEF End
<1> HIDE DEF r
<1>4. /\ run' \in [Completions -> Run] /\ run'[c] = r
      /\ \A d \in Completions \ {c} : run'[d] = run[d]
  BY <1>2, <1>3 DEF Go, Types
<1>5. /\ queue' \in [Completions -> Seq(Events)] /\ lost' \in [Completions -> BOOLEAN]
      /\ \A d \in Completions : Len(queue'[d]) <= QueueSize
      /\ \A d \in Completions \ {c} : queue'[d] = queue[d]
      /\ \/ queue'[c] = Append(queue[c], "end")
         \/ queue[c] # <<>> /\ queue'[c] = Append(Tail(queue[c]), "end")
  BY <1>1, FinishType
<1>6. Types'
  <2>1. free' \in Nat
    BY <1>1 DEF Types
  <2> QED
    BY <1>1, <1>4, <1>5, <2>1 DEF Types, client, stopping, errors
<1>7. Frame(c)
  BY <1>1, <1>4, <1>5 DEF Frame, client, stopping, errors
<1>8. LoopSound(r, decided[c])
  BY <1>2 DEF LoopSound, Looping, Settling
<1>9. RowSound(r, row[c], decided[c], stopper[c])
  BY <1>1, <1>2 DEF Fits, RowSound, Looping
<1>10. WordSound(r, row[c], decided[c], faulty[c], stopper[c])
  BY <1>1, <1>2 DEF Fits, WordSound, Settling
<1>11. StopSound(r, heard[c], decided[c])
  BY <1>1 DEF Fits, StopSound, Looping, Settling
<1>12. Fits(c, run[c])'
  BY <1>1, <1>4, <1>8, <1>9, <1>10, <1>11 DEF Fits, stopping, errors
<1>13. "end" \in Events /\ "end" \notin Final /\ queue[c] \in Seq(Events)
  BY DEF Events, Final, Types
<1>14. Written(c)'
  BY <1>1, <1>5, <1>13, StillWritten DEF Sound, errors
<1>15. queue'[c] # <<>> /\ queue'[c][Len(queue'[c])] = "end"
  <2>1. CASE queue'[c] = Append(queue[c], "end")
    BY <1>13, <2>1, AppendEnds
  <2>2. CASE queue[c] # <<>> /\ queue'[c] = Append(Tail(queue[c]), "end")
    <3>1. Tail(queue[c]) \in Seq(Events)
      BY <1>13, <2>2
    <3> QED
      BY <1>13, <2>2, <3>1, AppendEnds
  <2> QED
    BY <1>5, <2>1, <2>2
<1>16. Sound(c)'
  BY <1>12, <1>14, <1>15 DEF Sound, Closed
<1>17. SlotsConserved'
  <2>1. Holders' = Holders \ {c} /\ c \in Holders
    BY <1>1, <1>2, <1>4 DEF Holders
  <2>2. Cardinality(Holders') = Cardinality(Holders) - 1
    BY <2>1, HoldersFinite, FS_RemoveElement
  <2> QED
    BY <1>1, <2>2, HoldersFinite DEF SlotsConserved, Types
<1> QED
  BY <1>6, <1>7, <1>16, <1>17, Elsewhere
-----------------------------------------------------------------------------
(* The client and the stop                                                   *)

LEMMA RequestPreserves ==
  ASSUME IInv, NEW c \in Completions, Request(c)
  PROVE  IInv'
<1> USE DEF IInv
<1> DEFINE r == To(c, "saved")
<1>1. /\ run[c].stage = "idle" /\ run[c] \in Run /\ Fits(c, run[c]) /\ Idle \in Run
      /\ row' = [row EXCEPT ![c] = "in_progress"]
      /\ UNCHANGED <<heard, slots, stream, stopping, decided, errors>>
  BY InLoop, IdleType DEF Request, At
<1>2. run[c] = [Idle EXCEPT !.stage = "idle"]
  BY <1>1 DEF Fits, LoopSound
<1>3. /\ r \in Run /\ r.stage = "saved" /\ r.emitted = run[c].emitted
      /\ r.poisoned = run[c].poisoned /\ r = [Idle EXCEPT !.stage = "saved"]
  <2>1. r = [run[c] EXCEPT !.stage = "saved"]
    BY DEF To
  <2> HIDE DEF r
  <2> QED
    BY <1>1, <1>2, <2>1 DEF Run, Stages
<1>4. Go(c, r)
  BY DEF Request
<1>5. ~run[c].emitted /\ ~run[c].poisoned
  <2>1. ~Idle.emitted /\ ~Idle.poisoned
    BY DEF Idle
  <2> QED
    BY <1>1, <1>2, <2>1 DEF Run
<1> HIDE DEF r
<1>6. /\ run' \in [Completions -> Run] /\ run'[c] = r
      /\ \A d \in Completions \ {c} : run'[d] = run[d]
  BY <1>3, <1>4 DEF Go, Types
<1>7. /\ row' \in [Completions -> {"none", "in_progress"} \cup Final] /\ row'[c] = "in_progress"
      /\ \A d \in Completions \ {c} : row'[d] = row[d]
  BY <1>1 DEF Types
<1>8. Types'
  BY <1>1, <1>6, <1>7 DEF Types, slots, stream, pipe, client, stopping, errors
<1>9. Frame(c)
  BY <1>1, <1>6, <1>7 DEF Frame, stream, pipe, client, stopping, errors
<1>10. LoopSound(r, decided[c])
  BY <1>3 DEF LoopSound, Looping, Settling
<1>11. RowSound(r, row'[c], decided[c], stopper[c])
  BY <1>1, <1>3, <1>5, <1>7 DEF Fits, RowSound, Looping, Unsettled
<1>12. WordSound(r, row'[c], decided[c], faulty[c], stopper[c])
  BY <1>1, <1>3, <1>5 DEF Fits, WordSound, RowSound, Settling
<1>13. StopSound(r, heard[c], decided[c])
  BY <1>1 DEF Fits, StopSound, Looping, Settling
<1>14. Fits(c, run[c])'
  BY <1>1, <1>6, <1>10, <1>11, <1>12, <1>13 DEF Fits, stopping, errors
<1>15. Written(c)'
  <2>1. row[c] \notin Final
    BY <1>1 DEF Fits, RowSound, Final
  <2> QED
    BY <1>1, <2>1 DEF Sound, Written, stream, pipe, errors
<1>16. Closed(c)'
  BY <1>3, <1>6 DEF Closed, At
<1>17. Holds(c)' = Holds(c) /\ free' = free
  BY <1>1, <1>3, <1>6 DEF Holds, slots
<1> QED
  BY <1>8, <1>9, <1>14, <1>15, <1>16, <1>17, Proceeds DEF Sound

\* The task is started, or never will be.
LEMMA SpawnPreserves ==
  ASSUME IInv, NEW c \in Completions, NEW s \in {"waiting", "abandoned"}, At(c, "saved"), Go(c, To(c, s)),
         line' \in Seq(Completions), reader' \in [Completions -> {"none", "reading", "closed"}],
         shown' \in [Completions -> {"none", "in_progress"} \cup Final],
         \A d \in Completions \ {c} : reader'[d] = reader[d],
         UNCHANGED <<row, heard, free, pipe, stopping, decided, errors>>
  PROVE  IInv'
<1> USE DEF IInv
<1> DEFINE r == To(c, s)
<1>1. run[c].stage = "saved" /\ run[c] \in Run /\ Fits(c, run[c]) /\ Idle \in Run
  BY InLoop, IdleType DEF At
<1>2. run[c] = [Idle EXCEPT !.stage = "saved"]
  BY <1>1 DEF Fits, LoopSound
<1>3. /\ r \in Run /\ r.stage = s /\ r.emitted = run[c].emitted
      /\ r.poisoned = run[c].poisoned /\ r = [Idle EXCEPT !.stage = s]
  <2>1. r = [run[c] EXCEPT !.stage = s] /\ s \in Stages
    BY DEF To, Stages
  <2> HIDE DEF r
  <2> QED
    BY <1>1, <1>2, <2>1 DEF Run
<1>4. Go(c, r)
  OBVIOUS
<1> HIDE DEF r
<1>5. /\ run' \in [Completions -> Run] /\ run'[c] = r
      /\ \A d \in Completions \ {c} : run'[d] = run[d]
  <2>1. run \in [Completions -> Run] /\ run' = [run EXCEPT ![c] = r] /\ r \in Run
    BY <1>3, <1>4 DEF Go, Types
  <2> QED
    BY <2>1
<1>6. Types'
  BY <1>5 DEF Types, pipe, stopping, errors
<1>7. Frame(c)
  BY <1>5 DEF Frame, pipe, stopping, errors
<1>8. LoopSound(r, decided[c])
  BY <1>3 DEF LoopSound, Looping, Settling
<1>9. RowSound(r, row[c], decided[c], stopper[c])
  BY <1>1, <1>3 DEF Fits, RowSound, Looping
<1>10. WordSound(r, row[c], decided[c], faulty[c], stopper[c])
  BY <1>1, <1>3 DEF Fits, WordSound, Settling
<1>11. StopSound(r, heard[c], decided[c])
  BY <1>1 DEF Fits, StopSound, Looping, Settling
<1>12. Sound(c)'
  BY <1>1, <1>3, <1>5, <1>8, <1>9, <1>10, <1>11
     DEF Sound, Fits, Written, Closed, At, pipe, stopping, errors
<1>13. Holds(c)' = Holds(c) /\ free' = free
  BY <1>1, <1>3, <1>5 DEF Holds
<1> QED
  BY <1>6, <1>7, <1>12, <1>13, Proceeds

LEMMA TaskPreserves ==
  ASSUME IInv, NEW c \in Completions, Spawn(c) \/ Abandon(c)
  PROVE  IInv'
<1>1. Types
  BY DEF IInv
<1>2. CASE Spawn(c)
  <2>1. /\ line' \in Seq(Completions)
        /\ reader' \in [Completions -> {"none", "reading", "closed"}]
        /\ shown' \in [Completions -> {"none", "in_progress"} \cup Final]
        /\ \A d \in Completions \ {c} : reader'[d] = reader[d]
    BY <1>1, <1>2 DEF Spawn, Types
  <2> QED
    BY <1>2, <2>1, SpawnPreserves DEF Spawn
<1>3. CASE Abandon(c)
  <2>1. /\ line' \in Seq(Completions)
        /\ reader' \in [Completions -> {"none", "reading", "closed"}]
        /\ shown' \in [Completions -> {"none", "in_progress"} \cup Final]
        /\ \A d \in Completions \ {c} : reader'[d] = reader[d]
    BY <1>1, <1>3 DEF Abandon, Types, slots, stream, client
  <2> QED
    BY <1>3, <2>1, SpawnPreserves DEF Abandon, slots, stream, client
<1> QED
  BY <1>2, <1>3

LEMMA ReadPreserves ==
  ASSUME IInv, NEW c \in Completions, Read(c)
  PROVE  IInv'
<1> USE DEF IInv
<1>1. /\ reader[c] = "reading" /\ queue[c] # <<>> /\ queue[c] \in Seq(Events)
      /\ queue' = [queue EXCEPT ![c] = Tail(@)]
      /\ reader' = [reader EXCEPT ![c] = IF Head(queue[c]) = "end" THEN "closed" ELSE "reading"]
      /\ shown' = [shown EXCEPT ![c] = Shows(@, Head(queue[c]))]
      /\ UNCHANGED <<row, run, heard, slots, lost, stopping, decided, errors>>
  BY DEF Read, Types
<1>2. Tail(queue[c]) \in Seq(Events) /\ Len(Tail(queue[c])) = Len(queue[c]) - 1 /\ Len(queue[c]) \in Nat
  BY <1>1
<1>3. /\ queue' \in [Completions -> Seq(Events)] /\ queue'[c] = Tail(queue[c])
      /\ \A d \in Completions \ {c} : queue'[d] = queue[d]
  BY <1>1, <1>2 DEF Types
<1>4. \A d \in Completions : Len(queue'[d]) <= QueueSize
  <2>1. Len(queue[c]) <= QueueSize
    BY DEF Types
  <2>2. Len(queue'[c]) <= QueueSize
    BY <1>2, <1>3, <2>1, Parameters DEF Positive
  <2> QED
    BY <1>3, <2>2 DEF Types
<1>5. /\ reader' \in [Completions -> {"none", "reading", "closed"}]
      /\ reader'[c] = IF Head(queue[c]) = "end" THEN "closed" ELSE "reading"
      /\ \A d \in Completions \ {c} : reader'[d] = reader[d]
  BY <1>1 DEF Types
<1>6. shown' \in [Completions -> {"none", "in_progress"} \cup Final]
  BY <1>1 DEF Types, Shows, Final
<1>7. Types'
  BY <1>1, <1>3, <1>4, <1>5, <1>6 DEF Types, slots, stopping, errors
<1>8. Frame(c)
  BY <1>1, <1>3, <1>5 DEF Frame, stopping, errors
<1>9. Fits(c, run[c])'
  BY <1>1 DEF Sound, Fits, stopping, errors
<1>10. Written(c)'
  BY <1>1, <1>3, TailAnnounces DEF Sound, Written, errors
<1>11. Closed(c)'
  <2> SUFFICES ASSUME run[c].stage = "ended", Head(queue[c]) # "end"
               PROVE  queue'[c] # <<>> /\ queue'[c][Len(queue'[c])] = "end"
    BY <1>1, <1>5 DEF Closed, At
  <2>1. queue[c][Len(queue[c])] = "end"
    BY <1>1 DEF Sound, Closed, At
  <2> QED
    BY <1>1, <1>3, <2>1, TailEnds
<1>12. Holds(c)' = Holds(c) /\ free' = free
  BY <1>1 DEF Holds, slots
<1> QED
  BY <1>7, <1>8, <1>9, <1>10, <1>11, <1>12, Proceeds DEF Sound

LEMMA StopReadPreserves ==
  ASSUME IInv, NEW c \in Completions, StopRead(c)
  PROVE  IInv'
<1> USE DEF IInv
<1>1. /\ row[c] # "none" /\ stops' = stops + 1 /\ stopper' = [stopper EXCEPT ![c] = row[c]]
      /\ UNCHANGED <<row, run, heard, slots, stream, decided, errors>>
      /\ row[c] \in {"in_progress"} \cup Final
  BY DEF StopRead, Types
<1>2. /\ stopper' \in [Completions -> {"idle", "over", "in_progress"} \cup Final]
      /\ stopper'[c] = row[c] /\ stopper'[c] # "idle"
      /\ \A d \in Completions \ {c} : stopper'[d] = stopper[d]
  BY <1>1 DEF Types, Final
<1>3. Types'
  BY <1>1, <1>2 DEF Types, slots, stream, pipe, client, errors
<1>4. Frame(c)
  BY <1>1, <1>2 DEF Frame, stream, pipe, client, errors
<1>5. Fits(c, run[c])'
  BY <1>1, <1>2 DEF Sound, Fits, RowSound, WordSound, errors
<1>6. Written(c)' /\ Closed(c)'
  BY <1>1 DEF Sound, Written, Closed, At, stream, pipe, client, errors
<1>7. Holds(c)' = Holds(c) /\ free' = free
  BY <1>1 DEF Holds, slots
<1> QED
  BY <1>3, <1>4, <1>5, <1>6, <1>7, Proceeds DEF Sound

LEMMA StopWritePreserves ==
  ASSUME IInv, NEW c \in Completions, StopWrite(c)
  PROVE  IInv'
<1> USE DEF IInv
<1>1. /\ stopper[c] # "idle" /\ stopper' = [stopper EXCEPT ![c] = "over"]
      /\ row' = row \/ row' = [row EXCEPT ![c] = "stopped"]
      /\ UNCHANGED <<stops, run, heard, slots, stream, decided, errors>>
  BY DEF StopWrite, Final
<1>2. row[c] # "none" /\ run[c] \in Run /\ Fits(c, run[c])
  BY <1>1, InLoop DEF Fits, RowSound
<1>3. /\ row' \in [Completions -> {"none", "in_progress"} \cup Final]
      /\ row'[c] \in {row[c], "stopped"} /\ "stopped" \in Final
      /\ \A d \in Completions \ {c} : row'[d] = row[d]
      /\ stopper' \in [Completions -> {"idle", "over", "in_progress"} \cup Final]
      /\ stopper'[c] = "over"
      /\ \A d \in Completions \ {c} : stopper'[d] = stopper[d]
  BY <1>1, ZenonT(60) DEF Types, Final
<1>4. Types'
  BY <1>1, <1>3 DEF Types, slots, stream, pipe, client, errors
<1>5. Frame(c)
  BY <1>1, <1>3 DEF Frame, stream, pipe, client, errors
<1>6. RowSound(run[c], row'[c], decided[c], "over")
  BY <1>2, <1>3 DEF Fits, RowSound, Unsettled
<1>7. WordSound(run[c], row'[c], decided[c], faulty[c], "over")
  BY <1>2, <1>3 DEF Fits, WordSound
<1>8. Fits(c, run[c])'
  BY <1>1, <1>2, <1>3, <1>6, <1>7 DEF Fits, errors
<1>9. Written(c)' /\ Closed(c)'
  BY <1>1, <1>3 DEF Sound, Written, Closed, At, stream, pipe, client, errors
<1>10. Holds(c)' = Holds(c) /\ free' = free
  BY <1>1 DEF Holds, slots
<1> QED
  BY <1>4, <1>5, <1>8, <1>9, <1>10, Proceeds DEF Sound

LEMMA HearPreserves ==
  ASSUME IInv, NEW c \in Completions, Hear(c)
  PROVE  IInv'
<1> USE DEF IInv
<1>1. /\ run[c].stage \in Agent /\ heard' = [heard EXCEPT ![c] = run[c].stage]
      /\ UNCHANGED <<row, run, slots, stream, stopping, decided, errors>>
  BY DEF Hear
<1>2. /\ heard' \in [Completions -> Agent \cup {"never"}] /\ heard'[c] = run[c].stage
      /\ \A d \in Completions \ {c} : heard'[d] = heard[d]
  BY <1>1 DEF Types
<1>3. Types'
  BY <1>1, <1>2 DEF Types, slots, stream, pipe, client, stopping, errors
<1>4. Frame(c)
  BY <1>1, <1>2 DEF Frame, stream, pipe, client, stopping, errors
<1>5. StopSound(run[c], run[c].stage, decided[c])
  BY LoopFacts DEF StopSound
<1>6. Fits(c, run[c])'
  BY <1>1, <1>2, <1>5 DEF Sound, Fits, stopping, errors
<1>7. Written(c)' /\ Closed(c)'
  BY <1>1 DEF Sound, Written, Closed, At, stream, pipe, client, errors
<1>8. Holds(c)' = Holds(c) /\ free' = free
  BY <1>1 DEF Holds, slots
<1> QED
  BY <1>3, <1>4, <1>6, <1>7, <1>8, Proceeds DEF Sound
-----------------------------------------------------------------------------
(* Every step preserves the invariant                                        *)

LEMMA InitIInv == Init => IInv
<1> SUFFICES ASSUME Init PROVE IInv
  OBVIOUS
<1> USE DEF Init
<1>1. /\ Idle \in Run /\ ~Idle.emitted /\ ~Idle.poisoned /\ Idle.stage = "idle"
      /\ Idle = [Idle EXCEPT !.stage = "idle"]
  <2>1. Idle \in Run /\ ~Idle.emitted /\ ~Idle.poisoned /\ Idle.stage = "idle"
    BY IdleType DEF Idle
  <2> QED
    BY <2>1 DEF Run
<1>2. Types
  BY <1>1, Parameters DEF Types, Positive
<1>3. SlotsConserved
  <2>1. Holders = {}
    BY <1>1 DEF Holders
  <2>2. Cardinality(Holders) = 0
    BY <2>1, FS_EmptySet
  <2> QED
    BY <2>2, Parameters DEF SlotsConserved, Positive
<1>4. ASSUME NEW c \in Completions PROVE Sound(c)
  <2>1. run[c] = Idle
    OBVIOUS
  <2>2. LoopSound(Idle, "none")
    BY <1>1 DEF LoopSound, Looping, Settling
  <2>3. RowSound(Idle, "none", "none", "idle")
    BY <1>1 DEF RowSound, Looping
  <2>4. WordSound(Idle, "none", "none", FALSE, "idle")
    BY <1>1 DEF WordSound
  <2>5. StopSound(Idle, "never", "none")
    BY DEF StopSound, Looping
  <2>6. Fits(c, run[c])
    BY <2>1, <2>2, <2>3, <2>4, <2>5 DEF Fits
  <2>7. Written(c) /\ Closed(c)
    BY <1>1, <2>1 DEF Written, Closed, At
  <2> QED
    BY <2>6, <2>7 DEF Sound
<1> QED
  BY <1>2, <1>3, <1>4 DEF IInv

LEMMA StutterPreserves ==
  ASSUME IInv, UNCHANGED vars
  PROVE  IInv'
<1> USE DEF vars, slots, stream, pipe, client, stopping, errors
<1>1. Types'
  BY DEF Types, IInv
<1>2. SlotsConserved'
  BY DEF SlotsConserved, Holders, IInv
<1>3. ASSUME NEW c \in Completions PROVE Sound(c)'
  BY <1>3 DEF Sound, Fits, Written, Closed, At, IInv
<1> QED
  BY <1>1, <1>2, <1>3 DEF IInv

LEMMA NextPreserves ==
  ASSUME IInv, [Next]_vars
  PROVE  IInv'
<1>1. ASSUME NEW c \in Completions, RunStep(c) PROVE IInv'
  <2>1. CASE Acquire(c) \/ Start(c) \/ Return(c) \/ Recover(c) \/ End(c)
    BY <2>1, AcquirePreserves, StartPreserves, ReturnPreserves, RecoverPreserves, EndPreserves
  <2>2. CASE Prepare(c) \/ Answer(c) \/ Malformed(c)
    BY <2>2, PreparePreserves, AnswerPreserves, MalformedPreserves
  <2>3. CASE Interrupt(c)
    BY <2>3, ReturnsToTop DEF Interrupt
  <2>4. CASE Actionless(c)
    BY <2>4, ReturnsToTop DEF Actionless
  <2>5. CASE Undecided(c)
    BY <2>5, ReturnsToTop DEF Undecided
  <2>6. CASE \E n \in 1..MaxActions : Act(c, n)
    BY <2>6, ActPreserves
  <2>7. CASE Unresolved(c)
    BY <2>7, UnresolvedPreserves
  <2>8. CASE \E t \in Calls : Fails(c, t) \/ Rejected(c, t) \/ Breaks(c, t)
    BY <2>8, FailsPreserves, RejectedPreserves, BreaksPreserves
  <2>9. CASE \E t \in Calls, complete \in BOOLEAN : Succeeds(c, t, complete)
    BY <2>9, SucceedsPreserves
  <2>10. CASE Settle(c) \/ Write(c) \/ Tell(c) \/ Raise(c) \/ Fail(c)
    BY <2>10, SettlePreserves, WritePreserves, TellPreserves, RaisePreserves, FailPreserves
  <2> QED
    BY <1>1, <2>1, <2>2, <2>3, <2>4, <2>5, <2>6, <2>7, <2>8, <2>9, <2>10 DEF RunStep
<1>2. ASSUME NEW c \in Completions, ClientStep(c) PROVE IInv'
  BY <1>2, RequestPreserves, TaskPreserves, ReadPreserves, StopReadPreserves, StopWritePreserves,
     HearPreserves
     DEF ClientStep
<1> QED
  BY <1>1, <1>2, StutterPreserves DEF Next

LEMMA Inductive == Spec => []IInv
<1>1. IInv /\ [Next]_vars => IInv'
  BY NextPreserves
<1> QED
  BY InitIInv, <1>1, PTL DEF Spec
-----------------------------------------------------------------------------
(* What the invariant gives                                                  *)

\* Every variable keeps its type, the semaphore's value its bounds (0 and
\* BOW_MAX_CONCURRENT_AGENTS) and every event queue its maximum size.
THEOREM TypeCorrect == Spec => []TypeOK
<1>1. IInv => TypeOK
  <2> SUFFICES ASSUME IInv PROVE TypeOK
    OBVIOUS
  <2>1. free \in 0..Slots
    BY HoldersFinite, Parameters DEF IInv, SlotsConserved, Types, Positive
  <2> QED
    BY <2>1 DEF IInv, Types, TypeOK
<1> QED
  BY Inductive, <1>1, PTL

\* The slots of _AGENT_RUN_SEMAPHORE are neither lost nor given back twice.
THEOREM SlotsAreConserved == Spec => []SlotsConserved
<1>1. IInv => SlotsConserved
  BY DEF IInv
<1> QED
  BY Inductive, <1>1, PTL

\* completion.finished in the queue of a run the database has not failed follows
\* the write of a final status.
THEOREM AnnouncementsAreWritten == Spec => []AnnouncedIsWritten
<1>1. IInv => AnnouncedIsWritten
  BY DEF IInv, Sound, Written, AnnouncedIsWritten
<1> QED
  BY Inductive, <1>1, PTL

\* A run that is over has settled its completion as it last decided, or as an error.
THEOREM RunsSettle == Spec => []EndsSettled
<1>1. IInv => EndsSettled
  BY DEF IInv, Sound, Fits, WordSound, EndsSettled, At, Final
<1> QED
  BY Inductive, <1>1, PTL

\* A stop heard at the top of the loop or in the planner's stream is obeyed.
THEOREM StopsAreHonoured == Spec => []StopIsHonoured
<1>1. IInv => StopIsHonoured
  BY DEF IInv, Sound, Fits, StopSound, StopIsHonoured, Looping
<1> QED
  BY Inductive, <1>1, PTL

\* The sentinel of a run that has ended waits in the queue until it is read.
THEOREM StreamsEnd == Spec => []StreamEnds
<1>1. IInv => StreamEnds
  BY DEF IInv, Sound, Closed, StreamEnds
<1> QED
  BY Inductive, <1>1, PTL

\* A step of another completion leaves a run alone, and from the top of the loop
\* only Prepare goes on to a round.
LEMMA OnlyPrepareStarts ==
  ASSUME IInv, Next, NEW c \in Completions, run[c].stage = "planning",
         run'[c].stage = "streaming"
  PROVE  Prepare(c) /\ ~Heard(c)
<1> USE DEF IInv
<1>1. run \in [Completions -> Run]
  BY DEF Types
<1>2. PICK d \in Completions : RunStep(d) \/ ClientStep(d)
  BY DEF Next
<1>3. d = c
  <2> SUFFICES ASSUME d # c PROVE run'[c] = run[c]
    OBVIOUS
  <2>1. \A r : Go(d, r) => run'[c] = run[c]
    BY <1>1 DEF Go
  <2>2. CASE ClientStep(d)
    BY <2>1, <2>2 DEF ClientStep, Request, Abandon, Spawn, Read, StopRead, StopWrite, Hear
  <2>3. CASE Acquire(d) \/ Start(d) \/ Return(d) \/ Recover(d) \/ End(d)
    BY <2>1, <2>3 DEF Acquire, Start, Return, Recover, End, Leave
  <2>4. CASE Prepare(d) \/ Interrupt(d) \/ Answer(d) \/ Malformed(d) \/ Actionless(d) \/ Undecided(d)
    BY <2>1, <2>4 DEF Prepare, Interrupt, Answer, Malformed, Actionless, Undecided
  <2>5. CASE (\E n \in 1..MaxActions : Act(d, n)) \/ Unresolved(d)
    BY <2>1, <2>5 DEF Act, Unresolved
  <2>6. \A r, complete : Observe(d, r, complete) => run'[c] = run[c]
    BY <2>1 DEF Observe
  <2>7. \A t, r, complete : Failure(d, t, r, complete) => run'[c] = run[c]
    BY <2>6 DEF Failure
  <2>8. CASE \E t \in Calls : Fails(d, t) \/ Rejected(d, t) \/ Breaks(d, t)
    BY <2>1, <2>7, <2>8 DEF Fails, Rejected, Breaks
  <2>9. CASE \E t \in Calls, complete \in BOOLEAN : Succeeds(d, t, complete)
    BY <2>6, <2>9 DEF Succeeds
  <2>10. CASE Settle(d) \/ Write(d) \/ Tell(d) \/ Raise(d) \/ Fail(d)
    BY <2>1, <2>10 DEF Settle, Write, Tell, Raise, Fail
  <2> QED
    BY <1>2, <2>2, <2>3, <2>4, <2>5, <2>8, <2>9, <2>10 DEF RunStep
<1>4. ~Raise(c)
  <2> SUFFICES ASSUME Raise(c) PROVE FALSE
    OBVIOUS
  <2> DEFINE o == Over(run[c], "failing")
  <2>1. o \in Run /\ o.stage = "failing"
    BY <1>1, OverType DEF Stages, Agent
  <2>2. Go(c, o) \/ Go(c, [o EXCEPT !.poisoned = TRUE])
    BY DEF Raise
  <2> HIDE DEF o
  <2>3. [o EXCEPT !.poisoned = TRUE].stage = "failing"
    BY <2>1 DEF Run
  <2> QED
    BY <1>1, <2>1, <2>2, <2>3 DEF Go
<1>5. ~ClientStep(c)
  BY DEF ClientStep, Request, Abandon, Spawn, Read, StopRead, StopWrite, Hear, At
<1>6. Prepare(c)
  BY <1>2, <1>3, <1>4, <1>5
     DEF RunStep, At, Acquire, Start, Return, Recover, End, Interrupt, Answer, Malformed,
         Actionless, Undecided, Act, Unresolved, Fails, Rejected, Breaks, Succeeds, Settle,
         Write, Tell, Fail
<1>7. ~Heard(c)
  <2> SUFFICES ASSUME Heard(c) PROVE FALSE
    OBVIOUS
  <2>1. Go(c, Over(run[c], "tail"))
    BY <1>6 DEF Prepare
  <2>2. Over(run[c], "tail").stage = "tail"
    BY <1>1, OverType DEF Stages, Agent
  <2> QED
    BY <1>1, <2>1, <2>2 DEF Go
<1> QED
  BY <1>6, <1>7

\* No planner round starts after the announced end, a heard stop or a tripped
\* breaker.
THEOREM RoundsEnd == Spec => NoRoundAfterEnd
<1>1. IInv /\ [Next]_vars =>
        [\A c \in Completions : At(c, "planning") /\ run'[c].stage = "streaming" =>
           /\ decided[c] = "none" /\ heard[c] = "never"
           /\ run[c].times < MaxRepeats
           /\ \A t \in Calls : run[c].failed[t] < MaxToolFailures]_vars
  <2> SUFFICES ASSUME IInv, Next, NEW c \in Completions, run[c].stage = "planning",
                      run'[c].stage = "streaming"
               PROVE  /\ decided[c] = "none" /\ heard[c] = "never"
                      /\ run[c].times < MaxRepeats
                      /\ \A t \in Calls : run[c].failed[t] < MaxToolFailures
    BY DEF At
  <2>1. heard[c] = "never"
    BY OnlyPrepareStarts DEF Heard
  <2> QED
    BY <2>1, InLoop DEF Fits, LoopSound, Looping
<1> QED
  BY Inductive, <1>1, PTL DEF Spec, NoRoundAfterEnd
-----------------------------------------------------------------------------
(* The statuses implement CompletionStatus                                   *)

Asked == {c \in Completions : stopper[c] = "in_progress"}

LEMMA StatusInit == Init => CS!Init
BY DEF Init, CS!Init

LEMMA StatusStep ==
  ASSUME IInv, [Next]_vars
  PROVE  [CS!Next]_(CS!status)
<1> USE DEF CS!status, CS!Final, Final
<1>1. CASE UNCHANGED vars
  BY <1>1 DEF vars, stopping
<1>2. ASSUME NEW c \in Completions, Request(c)
      PROVE  CS!Next
  <2>1. row[c] = "none"
    BY <1>2, InLoop DEF Request, At, Fits, RowSound
  <2>2. CS!Open(c)
    BY <1>2, <2>1 DEF Request, CS!Open, stopping
  <2> QED
    BY <2>2 DEF CS!Next
<1>3. ASSUME NEW c \in Completions, Recover(c)
      PROVE  [CS!Next]_(CS!status)
  <2>1. row[c] # "none"
    BY <1>3, InLoop DEF Recover, At, Fits, RowSound
  <2>2. CS!Spoil(c) \/ UNCHANGED CS!status
    BY <1>3, <2>1 DEF Recover, CS!Spoil, stopping
  <2> QED
    BY <2>2 DEF CS!Next
<1>4. ASSUME NEW c \in Completions, StopWrite(c)
      PROVE  [CS!Next]_(CS!status)
  <2>1. row[c] # "none"
    BY <1>4, InLoop DEF StopWrite, Fits, RowSound
  <2>2. row[c] \in {"in_progress"} \cup Final /\ stopper \in [Completions -> {"idle", "over", "in_progress"} \cup Final]
    BY <2>1 DEF IInv, Types
  <2>3. /\ stopper' = [stopper EXCEPT ![c] = "over"] /\ UNCHANGED decided
        /\ row' = IF stopper[c] = "in_progress" THEN [row EXCEPT ![c] = "stopped"] ELSE row
    BY <1>4 DEF StopWrite
  <2>4. CASE stopper[c] = "in_progress"
    <3>1. c \in Asked /\ Asked' = Asked \ {c}
      BY <2>2, <2>3, <2>4 DEF Asked
    <3>2. CS!Stop(c) \/ CS!Overtake(c)
      BY <2>2, <2>3, <2>4, <3>1 DEF CS!Stop, CS!Overtake, Asked
    <3> QED
      BY <3>2 DEF CS!Next
  <2>5. CASE stopper[c] # "in_progress"
    <3>1. Asked' = Asked
      BY <2>2, <2>3, <2>5 DEF Asked
    <3> QED
      BY <2>3, <2>5, <3>1 DEF Asked
  <2> QED
    BY <2>4, <2>5
<1>9. ASSUME NEW c \in Completions, StopRead(c)
      PROVE  [CS!Next]_(CS!status)
  <2>1. /\ stopper[c] = "idle" /\ stopper' = [stopper EXCEPT ![c] = row[c]] /\ UNCHANGED <<row, decided>>
        /\ stopper \in [Completions -> {"idle", "over", "in_progress"} \cup Final]
    BY <1>9 DEF StopRead, IInv, Types
  <2>2. CASE row[c] = "in_progress"
    <3>1. c \notin Asked /\ Asked' = Asked \cup {c}
      BY <2>1, <2>2 DEF Asked
    <3>2. CS!Ask(c)
      BY <2>1, <2>2, <3>1 DEF CS!Ask, Asked
    <3> QED
      BY <3>2 DEF CS!Next
  <2>3. CASE row[c] # "in_progress"
    <3>1. Asked' = Asked
      BY <2>1, <2>3 DEF Asked
    <3> QED
      BY <2>1, <3>1 DEF Asked
  <2> QED
    BY <2>2, <2>3
<1>5. ASSUME NEW c \in Completions, Write(c)
      PROVE  [CS!Next]_(CS!status)
  <2> DEFINE v == run[c].verdict
  <2>1. /\ row[c] # "none" /\ v \in Final
        /\ v = "error" \/ (decided[c] = "none" /\ row[c] \in Unsettled)
        /\ run[c].after = "raised" => v = "error"
    BY <1>5, InLoop DEF Write, At, Fits, RowSound, LoopSound, Settling, Run
  <2>2. \/ UNCHANGED CS!status
        \/ row' = [row EXCEPT ![c] = v] /\ UNCHANGED <<decided, stopper>>
    BY <1>5, <2>1 DEF Write, stopping
  <2>3. CASE row' = [row EXCEPT ![c] = v] /\ UNCHANGED <<decided, stopper>>
    <3>1. CS!Spoil(c) \/ CS!Settle(c, v)
      BY <2>1, <2>3 DEF CS!Spoil, CS!Settle, Unsettled
    <3> QED
      BY <2>1, <3>1 DEF CS!Next
  <2> QED
    BY <2>2, <2>3
<1>6. ASSUME NEW c \in Completions, Tell(c)
      PROVE  [CS!Next]_(CS!status)
  <2> DEFINE v == run[c].verdict
  <2>1. /\ row[c] # "none" /\ v \in Final /\ decided \in [Completions -> Final \cup {"none"}]
        /\ v = "error" \/ (decided[c] = "none" /\ row[c] \in {v, "stopped"})
        /\ decided' = [decided EXCEPT ![c] = v] /\ UNCHANGED <<row, stopper>>
    BY <1>6, InLoop DEF Tell, At, Fits, RowSound, Run, IInv, Types, stopping
  <2>2. CASE decided[c] = "error"
    <3>1. decided' = decided
      BY <2>1, <2>2
    <3> QED
      BY <2>1, <3>1
  <2>3. CASE decided[c] # "error"
    <3>1. CS!Decide(c, v)
      BY <2>1, <2>3 DEF CS!Decide
    <3> QED
      BY <2>1, <3>1 DEF CS!Next
  <2> QED
    BY <2>2, <2>3
<1>7. ASSUME NEW c \in Completions,
             Spawn(c) \/ Abandon(c) \/ Read(c) \/ Hear(c) \/ Acquire(c) \/ Start(c) \/ Return(c) \/ End(c)
             \/ Raise(c)
      PROVE  UNCHANGED CS!status
  BY <1>7 DEF Spawn, Abandon, Read, Hear, Acquire, Start, Return, End, Raise, stopping
<1>8. ASSUME NEW c \in Completions,
             \/ Prepare(c) \/ Interrupt(c) \/ Answer(c) \/ Malformed(c) \/ Actionless(c)
             \/ Undecided(c) \/ Unresolved(c) \/ Settle(c) \/ Fail(c)
             \/ \E n \in 1..MaxActions : Act(c, n)
             \/ \E t \in Calls : Fails(c, t) \/ Rejected(c, t) \/ Breaks(c, t)
             \/ \E t \in Calls, complete \in BOOLEAN : Succeeds(c, t, complete)
      PROVE  UNCHANGED CS!status
  BY <1>8 DEF Others, stopping, Prepare, Interrupt, Answer, Malformed, Actionless, Undecided, Unresolved,
              Settle, Fail, Act, Fails, Rejected, Breaks, Succeeds
<1> QED
  BY <1>1, <1>2, <1>3, <1>4, <1>5, <1>6, <1>7, <1>8, <1>9 DEF Next, RunStep, ClientStep

\* What a run and a stop write into a completion's row, and when, is what
\* CompletionStatus promises: nothing turns an error into a success, and only a
\* stop that found the completion in progress is ever written over it.
THEOREM StatusImplements == Spec => StatusKept
<1>1. IInv /\ [Next]_vars => [CS!Next]_(CS!status)
  BY StatusStep
<1> QED
  BY StatusInit, Inductive, <1>1, PTL DEF Spec, StatusKept, CS!Spec
-----------------------------------------------------------------------------
(* What the browser shows                                                    *)

Has(q, e) == \E i \in DOMAIN q : q[i] = e

\* Nothing has kept the stream of completion c from telling all there is to tell.
Clean(c) == ~lost[c] /\ ~faulty[c] /\ stopper[c] = "idle"

\* The browser shows an error or a success, or will when it has read on.
Failed(c) == shown[c] = "error" \/ Has(queue[c], "error") \/ Has(queue[c], "failure")
Won(c) == shown[c] = "success" \/ Has(queue[c], "success")
Telling(c, s) == At(c, "telling") /\ run[c].verdict = s

\* Nothing is stopped where nobody has asked for it.
Unstopped(c) ==
  /\ heard[c] = "never" /\ row[c] # "stopped" /\ shown[c] # "stopped" /\ ~Has(queue[c], "stopped")
  /\ run[c].stage \in Settling => run[c].verdict # "stopped"

\* The sentinel comes last, and nothing after it is left to be read.
ReadOut(c) ==
  /\ Has(queue[c], "end") =>
       At(c, "ended") /\ \A i \in DOMAIN queue[c] : queue[c][i] = "end" => i = Len(queue[c])
  /\ reader[c] = "closed" => At(c, "ended") /\ queue[c] = <<>>

\* An error is written as long as it is shown or on its way, and whatever has been
\* written is shown, on its way, or the next the run will tell.
Foreseen(c) ==
  /\ Failed(c) => row[c] = "error"
  /\ row[c] = "error" => Failed(c) \/ Telling(c, "error")
  /\ row[c] = "success" => Won(c) \/ Telling(c, "success")

Seen(c) == Clean(c) => Unstopped(c) /\ ReadOut(c) /\ Foreseen(c)

SeenInv == \A c \in Completions : Seen(c)

LEMMA HasAppend ==
  ASSUME NEW q \in Seq(Events), NEW e \in Events, NEW x
  PROVE  Has(Append(q, e), x) <=> Has(q, x) \/ x = e
<1>1. /\ DOMAIN q = 1..Len(q) /\ Len(q) \in Nat /\ DOMAIN Append(q, e) = 1..(Len(q) + 1)
      /\ \A i \in 1..Len(q) : Append(q, e)[i] = q[i]
      /\ Append(q, e)[Len(q) + 1] = e
  OBVIOUS
<1>2. ASSUME Has(q, x) \/ x = e PROVE Has(Append(q, e), x)
  <2>1. CASE Has(q, x)
    <3>1. PICK i \in 1..Len(q) : q[i] = x
      BY <1>1, <2>1 DEF Has
    <3> QED
      BY <1>1, <3>1 DEF Has
  <2>2. CASE x = e
    BY <1>1, <2>2 DEF Has
  <2> QED
    BY <1>2, <2>1, <2>2
<1>3. ASSUME Has(Append(q, e), x) PROVE Has(q, x) \/ x = e
  BY <1>1, <1>3 DEF Has
<1> QED
  BY <1>2, <1>3

LEMMA HasTail ==
  ASSUME NEW q \in Seq(Events), q # <<>>, NEW x
  PROVE  /\ Has(Tail(q), x) => Has(q, x)
         /\ Has(q, x) => x = Head(q) \/ Has(Tail(q), x)
<1>1. /\ DOMAIN q = 1..Len(q) /\ Len(q) \in Nat /\ Len(q) >= 1 /\ Head(q) = q[1]
      /\ DOMAIN Tail(q) = 1..(Len(q) - 1)
      /\ \A i \in 1..(Len(q) - 1) : Tail(q)[i] = q[i + 1]
  OBVIOUS
<1>2. ASSUME Has(Tail(q), x) PROVE Has(q, x)
  <2>1. PICK i \in 1..(Len(q) - 1) : Tail(q)[i] = x
    BY <1>1, <1>2 DEF Has
  <2>2. i + 1 \in DOMAIN q /\ q[i + 1] = x
    BY <1>1, <2>1
  <2> QED
    BY <2>2 DEF Has
<1>3. ASSUME Has(q, x), x # Head(q) PROVE Has(Tail(q), x)
  <2>1. PICK i \in 1..Len(q) : q[i] = x
    BY <1>1, <1>3 DEF Has
  <2>2. i - 1 \in 1..(Len(q) - 1) /\ Tail(q)[i - 1] = q[(i - 1) + 1]
    BY <1>1, <1>3, <2>1
  <2>3. (i - 1) + 1 = i
    BY <2>1, <1>1
  <2> QED
    BY <1>1, <2>1, <2>2, <2>3 DEF Has
<1> QED
  BY <1>2, <1>3

\* An event that is not dropped is put at the end.
LEMMA Appended ==
  ASSUME Types, NEW c \in Completions, NEW e \in Events, Put(c, e) \/ (e = "end" /\ Finish(c)),
         ~lost'[c]
  PROVE  ~lost[c] /\ queue[c] \in Seq(Events) /\ queue'[c] = Append(queue[c], e)
<1>1. queue[c] \in Seq(Events) /\ lost[c] \in BOOLEAN
  BY DEF Types
<1>2. lost' = [lost EXCEPT ![c] = @ \/ Full(c)]
  BY DEF Put, Finish
<1>3. ~lost[c] /\ ~Full(c)
  BY <1>2 DEF Types
<1>4. CASE Put(c, e)
  BY <1>1, <1>3, <1>4 DEF Put, Types
<1>5. CASE e = "end" /\ Finish(c)
  BY <1>1, <1>3, <1>5 DEF Finish, Types
<1> QED
  BY <1>1, <1>3, <1>4, <1>5

\* A step that writes and tells nothing.
LEMMA WalkSeen ==
  ASSUME IInv, NEW c \in Completions, Seen(c),
         row'[c] = row[c], heard'[c] = heard[c], reader'[c] = reader[c], shown'[c] = shown[c],
         stopper'[c] = stopper[c], faulty[c] => faulty'[c],
         UNCHANGED pipe \/ Put(c, "progress"),
         run[c].stage \notin {"telling", "ended"}, run'[c].stage \notin {"telling", "ended"},
         run'[c].stage = "writing" => run'[c].verdict # "stopped" \/ heard[c] # "never"
  PROVE  Seen(c)'
<1> SUFFICES ASSUME Clean(c)' PROVE (Unstopped(c) /\ ReadOut(c) /\ Foreseen(c))'
  BY DEF Seen
<1>1. /\ ~lost[c] /\ queue[c] \in Seq(Events) /\ Types
      /\ queue'[c] = queue[c] \/ queue'[c] = Append(queue[c], "progress")
  BY Appended DEF Clean, IInv, Types, pipe, Events
<1>2. Clean(c)
  BY <1>1 DEF Clean
<1>3. Unstopped(c) /\ ReadOut(c) /\ Foreseen(c)
  BY <1>2 DEF Seen
<1>4. ASSUME NEW x, x # "progress" PROVE Has(queue'[c], x) <=> Has(queue[c], x)
  <2>1. CASE queue'[c] = queue[c]
    BY <2>1
  <2>2. CASE queue'[c] = Append(queue[c], "progress")
    <3>1. "progress" \in Events
      BY DEF Events
    <3>2. Has(Append(queue[c], "progress"), x) <=> Has(queue[c], x) \/ x = "progress"
      BY <1>1, <3>1, HasAppend
    <3> QED
      BY <1>4, <2>2, <3>2
  <2> QED
    BY <1>1, <2>1, <2>2
<1>5. /\ ~Has(queue'[c], "end") /\ ~Has(queue'[c], "stopped")
      /\ Has(queue'[c], "success") <=> Has(queue[c], "success")
      /\ Has(queue'[c], "error") <=> Has(queue[c], "error")
      /\ Has(queue'[c], "failure") <=> Has(queue[c], "failure")
  BY <1>3, <1>4 DEF Unstopped, ReadOut, At
<1>6. (Unstopped(c))'
  BY <1>3, <1>5 DEF Unstopped, Settling
<1>7. (ReadOut(c))'
  BY <1>3, <1>5 DEF ReadOut, At
<1>8. (Failed(c))' = Failed(c) /\ (Won(c))' = Won(c)
  BY <1>5 DEF Failed, Won
<1>9. (Foreseen(c))'
  BY <1>3, <1>5 DEF Foreseen, Failed, Won, Telling, At
<1> QED
  BY <1>6, <1>7, <1>9

\* Where a step of the loop may leave a run for what it tells to be clear.
Ahead(r, h) ==
  /\ r.stage \notin {"telling", "ended"}
  /\ r.stage = "writing" => r.verdict # "stopped" \/ h # "never"

LEMMA OthersSeen ==
  ASSUME IInv, NEW c \in Completions, Seen(c), Others, UNCHANGED pipe \/ Put(c, "progress"),
         run[c].stage \notin {"telling", "ended"}, NEW r, Go(c, r), Ahead(r, heard[c])
  PROVE  Seen(c)'
<1>1. run'[c] = r
  BY DEF Go, IInv, Types
<1> QED
  BY <1>1, WalkSeen DEF Ahead, Others, client, stopping, errors

LEMMA NextAhead ==
  ASSUME NEW r \in Run, NEW h
  PROVE  Ahead(NextCall(r), h)
<1>1. CASE r.todo = 1 /\ r.done
  BY <1>1 DEF NextCall, Over, Idle, Run, Ahead
<1>2. CASE ~(r.todo = 1 /\ r.done)
  <2> DEFINE s == IF r.todo > 1 THEN "tool" ELSE "planning"
             p == [r EXCEPT !.todo = @ - 1]
             q == [p EXCEPT !.attempt = 1]
  <2>1. NextCall(r) = [q EXCEPT !.stage = s]
    BY <1>2 DEF NextCall
  <2>2. DOMAIN q = DOMAIN r /\ "stage" \in DOMAIN r
    BY DEF Run
  <2>3. NextCall(r).stage = s
    BY <2>1, <2>2
  <2> QED
    BY <2>3 DEF Ahead
<1> QED
  BY <1>1, <1>2

LEMMA ObserveSeen ==
  ASSUME IInv, NEW c \in Completions, Seen(c), At(c, "tool"), NEW r \in Run, NEW complete \in BOOLEAN,
         Observe(c, r, complete), Put(c, "progress"), Others
  PROVE  Seen(c)'
<1> DEFINE p == [r EXCEPT !.invalid = 0]
           o == [p EXCEPT !.done = @ \/ complete]
           n == NextCall(o)
<1>1. p \in Run
  BY DEF Run
<1>2. o = [r EXCEPT !.invalid = 0, !.done = @ \/ complete]
  BY DEF Run
<1>3. Go(c, IF complete /\ ~r.emitted THEN Conclude(n, "success", n.stage) ELSE n)
  BY <1>2 DEF Observe
<1> HIDE DEF p
<1>4. o \in Run
  BY <1>1 DEF Run
<1> HIDE DEF o
<1>5. Ahead(n, heard[c])
  BY <1>4, NextAhead
<1>6. n = Over(o, "tail") \/ \E s, t : n = [o EXCEPT !.todo = t, !.attempt = 1, !.stage = s]
  BY DEF NextCall
<1>7. {"stage", "verdict", "after"} \subseteq DOMAIN n
  BY <1>4, <1>6 DEF Over, Idle, Run
<1> HIDE DEF n
<1>8. Ahead(Conclude(n, "success", n.stage), heard[c])
  BY <1>7 DEF Conclude, Ahead
<1>9. run[c].stage \notin {"telling", "ended"}
  BY DEF At
<1>10. CASE complete /\ ~r.emitted
  BY <1>3, <1>8, <1>9, <1>10, OthersSeen
<1>11. CASE ~(complete /\ ~r.emitted)
  BY <1>3, <1>5, <1>9, <1>11, OthersSeen
<1> QED
  BY <1>10, <1>11

LEMMA FailureSeen ==
  ASSUME IInv, NEW c \in Completions, Seen(c), At(c, "tool"), NEW t \in Calls,
         NEW r \in Run, NEW complete \in BOOLEAN,
         Failure(c, t, r, complete), Put(c, "progress"), Others
  PROVE  Seen(c)'
<1> DEFINE f == [r EXCEPT !.failed[t] = @ + 1]
           all == complete \/ r.failed[t] + 1 >= MaxToolFailures
<1>1. f \in Run
  BY DEF Run
<1>2. all \in BOOLEAN /\ Observe(c, f, all)
  BY DEF Failure
<1> HIDE DEF f, all
<1> QED
  BY <1>1, <1>2, ObserveSeen

LEMMA ToolsSeen ==
  ASSUME IInv, NEW c \in Completions, Seen(c), NEW t \in Calls,
         \/ Fails(c, t) \/ Rejected(c, t) \/ Breaks(c, t)
         \/ \E complete \in BOOLEAN : Succeeds(c, t, complete)
  PROVE  Seen(c)'
<1>1. run[c] \in Run /\ At(c, "tool") /\ Put(c, "progress") /\ Others
  BY InLoop DEF Fails, Rejected, Breaks, Succeeds
<1>2. CASE Fails(c, t)
  <2>1. PICK n \in {0, run[c].rejected} : Failure(c, t, [run[c] EXCEPT !.rejected = n], FALSE)
    BY <1>2 DEF Fails
  <2>2. [run[c] EXCEPT !.rejected = n] \in Run
    BY <1>1 DEF Run
  <2> QED
    BY <1>1, <2>1, <2>2, FailureSeen
<1>3. CASE Rejected(c, t)
  <2> DEFINE n == run[c].rejected + 1
             q == [run[c] EXCEPT !.rejected = n]
             over == n >= MaxRejected
  <2>1. Failure(c, t, q, over)
    BY <1>3 DEF Rejected
  <2>2. q \in Run /\ over \in BOOLEAN
    BY <1>1 DEF Run
  <2> HIDE DEF q, over
  <2> QED
    BY <1>1, <2>1, <2>2, FailureSeen
<1>4. CASE Breaks(c, t)
  <2>1. CASE Go(c, [run[c] EXCEPT !.attempt = @ + 1])
    <3>1. Ahead([run[c] EXCEPT !.attempt = @ + 1], heard[c])
      BY <1>1 DEF Ahead, Run, At
    <3> QED
      BY <1>1, <2>1, <3>1, OthersSeen DEF At
  <2>2. CASE Failure(c, t, run[c], TRUE)
    BY <1>1, <2>2, FailureSeen
  <2> QED
    BY <1>4, <2>1, <2>2 DEF Breaks
<1>5. ASSUME NEW complete \in BOOLEAN, Succeeds(c, t, complete) PROVE Seen(c)'
  <2> DEFINE n == IF run[c].last = t THEN run[c].times + 1 ELSE 1
             r == [run[c] EXCEPT !.rejected = 0, !.failed[t] = 0, !.last = t, !.times = n]
             all == complete \/ n >= MaxRepeats
  <2>1. Observe(c, r, all)
    BY <1>5 DEF Succeeds
  <2>2. all \in BOOLEAN /\ n \in Nat
    BY <1>1 DEF Run
  <2> HIDE DEF n
  <2>3. r \in Run
    BY <1>1, <2>2 DEF Run
  <2> HIDE DEF r, all
  <2> QED
    BY <1>1, <2>1, <2>2, <2>3, ObserveSeen
<1> QED
  BY <1>2, <1>3, <1>4, <1>5

\* The steps of the planner's part of the loop, and what follows it.
LEMMA PlannerSeen ==
  ASSUME IInv, NEW c \in Completions, Seen(c),
         \/ Prepare(c) \/ Interrupt(c) \/ Answer(c) \/ Malformed(c) \/ Actionless(c) \/ Undecided(c)
         \/ \E n \in 1..MaxActions : Act(c, n)
         \/ Unresolved(c) \/ Settle(c) \/ Fail(c)
  PROVE  Seen(c)'
<1>1. /\ run[c] \in Run /\ run[c].stage \notin {"telling", "ended"} /\ Others
      /\ UNCHANGED pipe \/ Put(c, "progress")
  BY InLoop DEF Prepare, Interrupt, Answer, Malformed, Actionless, Undecided, Act, Unresolved,
                Settle, Fail, At
<1>2. \A s \in {"planning", "streaming", "tool", "returned", "raised"} : Ahead(To(c, s), heard[c])
  BY <1>1 DEF Ahead, To, Run
<1>3. Ahead(Over(run[c], "tail"), heard[c])
  BY DEF Ahead, Over, Idle
<1>4. Ahead(Conclude(Over(run[c], "tail"), "success", "tail"), heard[c])
  BY DEF Ahead, Conclude, Over, Idle
<1>5. Ahead(Conclude([Over(run[c], "tail") EXCEPT !.emitted = TRUE], "error", "tail"), heard[c])
  BY DEF Ahead, Conclude, Over, Idle
<1>6. Ahead(Again(c), heard[c]) /\ Ahead([Again(c) EXCEPT !.rounds = @ + 1], heard[c])
  BY <1>1 DEF Ahead, Again, To, Run
<1>7. Ahead([To(c, "streaming") EXCEPT !.rounds = @ + 1, !.done = FALSE], heard[c])
  BY <1>1 DEF Ahead, To, Run
<1>8. \A n : Ahead([To(c, "tool") EXCEPT !.todo = n, !.attempt = 1], heard[c])
  BY <1>1 DEF Ahead, To, Run
<1>9. Ahead(NextCall(run[c]), heard[c])
  BY <1>1, NextAhead
<1>10. /\ Ahead(Conclude(run[c], "success", "returned"), heard[c])
       /\ Ahead(Conclude(run[c], "error", "raised"), heard[c])
       /\ Heard(c) => Ahead(Conclude(run[c], "stopped", "returned"), heard[c])
  BY <1>1 DEF Ahead, Conclude, Run, Heard
<1>11. CASE Prepare(c)
  <2>1. \/ Go(c, Over(run[c], "tail")) \/ Go(c, [Again(c) EXCEPT !.rounds = @ + 1])
        \/ Go(c, [To(c, "streaming") EXCEPT !.rounds = @ + 1, !.done = FALSE])
    BY <1>11 DEF Prepare
  <2> QED
    BY <1>1, <1>3, <1>6, <1>7, <2>1, OthersSeen
<1>12. CASE Interrupt(c) \/ Actionless(c) \/ Undecided(c)
  <2>1. Go(c, To(c, "planning")) \/ Go(c, Again(c))
    BY <1>12 DEF Interrupt, Actionless, Undecided
  <2> QED
    BY <1>1, <1>2, <1>6, <2>1, OthersSeen
<1>13. CASE Answer(c)
  <2>1. \/ Go(c, Over(run[c], "tail"))
        \/ Go(c, Conclude(Over(run[c], "tail"), "success", "tail"))
    BY <1>13 DEF Answer
  <2> QED
    BY <1>1, <1>3, <1>4, <2>1, OthersSeen
<1>14. CASE Malformed(c)
  <2>1. \/ Go(c, Again(c))
        \/ Go(c, Conclude([Over(run[c], "tail") EXCEPT !.emitted = TRUE], "error", "tail"))
    BY <1>14 DEF Malformed
  <2> QED
    BY <1>1, <1>5, <1>6, <2>1, OthersSeen
<1>15. CASE \E n \in 1..MaxActions : Act(c, n)
  <2>1. \E n : Go(c, [To(c, "tool") EXCEPT !.todo = n, !.attempt = 1])
    BY <1>15 DEF Act
  <2> QED
    BY <1>1, <1>8, <2>1, OthersSeen
<1>16. CASE Unresolved(c)
  BY <1>1, <1>9, <1>16, OthersSeen DEF Unresolved
<1>17. CASE Settle(c)
  <2>1. \/ Go(c, To(c, "returned")) \/ Go(c, Conclude(run[c], "success", "returned"))
        \/ Heard(c) /\ Go(c, Conclude(run[c], "stopped", "returned"))
    BY <1>17 DEF Settle
  <2> QED
    BY <1>1, <1>2, <1>10, <2>1, OthersSeen
<1>18. CASE Fail(c)
  <2>1. Go(c, To(c, "raised")) \/ Go(c, Conclude(run[c], "error", "raised"))
    BY <1>18 DEF Fail
  <2> QED
    BY <1>1, <1>2, <1>10, <2>1, OthersSeen
<1> QED
  BY <1>11, <1>12, <1>13, <1>14, <1>15, <1>16, <1>17, <1>18

\* Steps between two stages of the run, a failure of the database among them.
LEMMA StagesSeen ==
  ASSUME IInv, NEW c \in Completions, Seen(c), Acquire(c) \/ Raise(c)
  PROVE  Seen(c)'
<1>1. run[c] \in Run /\ run \in [Completions -> Run]
  BY InLoop DEF IInv, Types
<1>2. CASE Acquire(c)
  <2>1. run'[c] = To(c, "starting") /\ At(c, "waiting")
    BY <1>1, <1>2 DEF Acquire, Go
  <2>2. run'[c].stage = "starting"
    BY <1>1, <2>1 DEF To, Run
  <2> QED
    BY <1>2, <2>1, <2>2, WalkSeen DEF Acquire, At, stream, client, stopping, errors
<1>3. CASE Raise(c)
  <2>1. \/ Go(c, Over(run[c], "failing"))
        \/ Go(c, [Over(run[c], "failing") EXCEPT !.poisoned = TRUE])
    BY <1>3 DEF Raise
  <2>2. run'[c] \in {Over(run[c], "failing"), [Over(run[c], "failing") EXCEPT !.poisoned = TRUE]}
    BY <1>1, <2>1 DEF Go
  <2>3. run'[c].stage = "failing"
    <3>1. Over(run[c], "failing") \in Run /\ Over(run[c], "failing").stage = "failing"
      BY <1>1, OverType DEF Stages, Agent
    <3>2. [Over(run[c], "failing") EXCEPT !.poisoned = TRUE].stage = "failing"
      BY <3>1 DEF Run
    <3> QED
      BY <2>2, <3>1, <3>2
  <2>4. faulty[c] => faulty'[c]
    BY <1>3, FaultType DEF Raise, IInv, errors
  <2> QED
    BY <1>3, <2>3, <2>4, WalkSeen DEF Raise, stream, client, stopping
<1> QED
  BY <1>2, <1>3

\* The database's failures are seen by nobody who asks.
LEMMA FaultSeen ==
  ASSUME IInv, NEW c \in Completions, Fault(c)
  PROVE  Seen(c)'
<1>1. faulty'[c]
  BY FaultType DEF IInv
<1> QED
  BY <1>1 DEF Seen, Clean

\* A status is written, and told next.
LEMMA WriteSeen ==
  ASSUME IInv, NEW c \in Completions, Seen(c), Write(c)
  PROVE  Seen(c)'
<1>1. SUFFICES ASSUME Clean(c)' PROVE (Unstopped(c) /\ ReadOut(c) /\ Foreseen(c))'
  BY DEF Seen
<1>2. /\ UNCHANGED <<heard, slots, stream, stopping, decided>> /\ At(c, "writing")
      /\ run[c] \in Run /\ run \in [Completions -> Run]
      /\ row \in [Completions -> {"none", "in_progress"} \cup Final]
  BY InLoop DEF Write, IInv, Types
<1>3. ~Fault(c)
  BY FaultType, <1>1 DEF Clean, IInv
<1>4. ~faulty[c] /\ ~run[c].poisoned /\ UNCHANGED errors
  <2>1. ~faulty[c]
    <3>1. UNCHANGED errors
      BY <1>3 DEF Write
    <3> QED
      BY <1>1, <3>1 DEF Clean, errors
  <2>2. run[c].poisoned => faulty[c]
    BY InLoop DEF Fits, WordSound
  <2> QED
    BY <1>3, <2>1, <2>2 DEF Write
<1>5. Clean(c)
  BY <1>1, <1>2, <1>4 DEF Clean, stream, pipe, stopping
<1>6. Unstopped(c) /\ ReadOut(c) /\ Foreseen(c)
  BY <1>5 DEF Seen
<1>7. PICK v \in {"success", "error"} : run[c].verdict = v
  BY <1>2, <1>6 DEF Unstopped, At, Settling, Run, Final
<1>8. row'[c] = v /\ Go(c, To(c, "telling"))
  <2>1. /\ \/ row' = [row EXCEPT ![c] = v]
           \/ decided[c] = v /\ UNCHANGED row
        /\ Go(c, To(c, "telling"))
    BY <1>3, <1>4, <1>7 DEF Write
  <2>2. CASE decided[c] = v /\ UNCHANGED row
    <3>1. decided[c] # "none" /\ row[c] \in {v, "error"}
      BY <1>4, <1>5, <1>7, <2>2, InLoop DEF Fits, WordSound, Clean
    <3>2. v # "error" => decided[c] = "none"
      BY <1>2, <1>7, InLoop DEF Fits, RowSound, At
    <3> QED
      BY <1>7, <2>1, <2>2, <3>1, <3>2
  <2> QED
    BY <1>2, <2>1, <2>2
<1>9. run'[c].stage = "telling" /\ run'[c].verdict = v
  <2>1. run'[c] = To(c, "telling")
    BY <1>2, <1>8 DEF Go
  <2> QED
    BY <1>2, <1>7, <2>1 DEF To, Run
<1>10. v # "error" => row[c] # "error"
  BY <1>2, <1>7, InLoop DEF Fits, RowSound, At, Unsettled
<1>11. (Unstopped(c))'
  BY <1>2, <1>6, <1>7, <1>8, <1>9 DEF Unstopped, Settling, stream, pipe, client
<1>12. (ReadOut(c))'
  BY <1>2, <1>6 DEF ReadOut, At, stream, pipe, client
<1>13. Failed(c)' = Failed(c)
  BY <1>2 DEF Failed, stream, pipe, client
<1>14. (Telling(c, v))' /\ row'[c] = v /\ (Failed(c) => v = "error")
  BY <1>6, <1>7, <1>8, <1>9, <1>10 DEF Telling, At, Foreseen
<1>15. (Foreseen(c))'
  <2>1. CASE v = "error"
    BY <1>14, <2>1 DEF Foreseen, Telling
  <2>2. CASE v = "success"
    BY <1>13, <1>14, <2>2 DEF Foreseen, Telling
  <2> QED
    BY <1>7, <2>1, <2>2
<1> QED
  BY <1>11, <1>12, <1>15

\* What every step does that tells something, for what it leaves to be proved.
LEMMA ToldSeen ==
  ASSUME IInv, NEW c \in Completions, Seen(c), NEW e \in {"success", "error", "failure"}, Put(c, e),
         reader'[c] = reader[c], shown'[c] = shown[c], stopper'[c] = stopper[c],
         ~faulty'[c] => ~faulty[c],
         heard'[c] \in {heard[c], "never"},
         run[c].stage # "ended", run'[c].stage \notin {"writing", "telling", "ended"},
         Clean(c) /\ ~faulty'[c] /\ Unstopped(c) /\ Foreseen(c) =>
            /\ e = "success" => row'[c] = row[c] /\ row[c] \in {"success", "error"}
                                /\ (row[c] = "error" => ~Telling(c, "error"))
            /\ e # "success" => row'[c] = "error"
  PROVE  Seen(c)'
<1>1. SUFFICES ASSUME Clean(c)' PROVE (Unstopped(c) /\ ReadOut(c) /\ Foreseen(c))'
  BY DEF Seen
<1>2. e \in Events
  BY DEF Events, Final
<1>3. ~lost[c] /\ queue[c] \in Seq(Events) /\ queue'[c] = Append(queue[c], e)
  BY <1>1, <1>2, Appended DEF Clean, IInv
<1>4. Clean(c) /\ ~faulty'[c]
  BY <1>1, <1>3 DEF Clean
<1>5. Unstopped(c) /\ ReadOut(c) /\ Foreseen(c)
  BY <1>4 DEF Seen
<1>6. /\ e = "success" => row'[c] = row[c] /\ row[c] \in {"success", "error"}
                          /\ (row[c] = "error" => ~Telling(c, "error"))
      /\ e # "success" => row'[c] = "error"
  BY <1>4, <1>5
<1>7. \A x : Has(queue'[c], x) <=> Has(queue[c], x) \/ x = e
  BY <1>2, <1>3, HasAppend
<1>8. (Unstopped(c))'
  <2>1. heard'[c] = "never" /\ shown'[c] # "stopped" /\ ~Has(queue'[c], "stopped")
    BY <1>5, <1>7 DEF Unstopped
  <2>2. row'[c] # "stopped"
    BY <1>6
  <2> QED
    BY <2>1, <2>2 DEF Unstopped, Settling
<1>9. (ReadOut(c))'
  BY <1>5, <1>7 DEF ReadOut, At
<1>10. CASE e = "success"
  <2>1. Has(queue'[c], "success") /\ (Failed(c)' <=> Failed(c))
    BY <1>7, <1>10 DEF Failed
  <2> QED
    BY <1>5, <1>6, <1>8, <1>9, <1>10, <2>1 DEF Foreseen, Won
<1>11. CASE e # "success"
  <2>1. Failed(c)' /\ row'[c] = "error"
    BY <1>6, <1>7, <1>11 DEF Failed
  <2> QED
    BY <1>8, <1>9, <2>1 DEF Foreseen
<1> QED
  BY <1>10, <1>11

LEMMA TellSeen ==
  ASSUME IInv, NEW c \in Completions, Seen(c), Tell(c)
  PROVE  Seen(c)'
<1> DEFINE r == [run[c] EXCEPT !.emitted = TRUE]
<1>1. /\ At(c, "telling") /\ run[c] \in Run /\ run \in [Completions -> Run]
      /\ UNCHANGED <<row, heard, slots, client, stopping, errors>>
      /\ Put(c, run[c].verdict)
      /\ Go(c, IF r.after = "tool" THEN [r EXCEPT !.stage = "tool"] ELSE Over(r, r.after))
  BY InLoop DEF Tell, IInv, Types
<1>2. r \in Run
  BY <1>1 DEF Run
<1>3. run'[c].stage \notin {"writing", "telling", "ended"}
  <2> HIDE DEF r
  <2>1. run'[c] = IF r.after = "tool" THEN [r EXCEPT !.stage = "tool"] ELSE Over(r, r.after)
    BY <1>1 DEF Go
  <2>2. CASE r.after = "tool"
    BY <1>2, <2>1, <2>2 DEF Run
  <2>3. CASE r.after # "tool"
    <3>1. r.after \in {"tail", "returned", "raised"}
      BY <1>2, <2>3 DEF Run
    <3>2. run'[c].stage = r.after
      BY <1>2, <2>1, <2>3, <3>1, OverType DEF Stages, Agent
    <3> QED
      BY <3>1, <3>2
  <2> QED
    BY <2>2, <2>3
<1> HIDE DEF r
<1>4. PICK v \in Final : run[c].verdict = v
  BY <1>1 DEF Run
<1>5. CASE v = "stopped"
  <2> SUFFICES ASSUME Clean(c)' PROVE FALSE
    BY DEF Seen
  <2>1. ~lost[c] /\ "stopped" \in Events
    BY <1>1, <1>4, <1>5, Appended DEF Clean, IInv, Events, Final
  <2>2. Clean(c)
    BY <1>1, <2>1 DEF Clean, errors, stopping
  <2>3. Unstopped(c)
    BY <2>2 DEF Seen
  <2> QED
    BY <1>1, <1>4, <1>5, <2>3 DEF Unstopped, At, Settling
<1>6. CASE v # "stopped"
  <2>1. v \in {"success", "error", "failure"} /\ Put(c, v)
    BY <1>1, <1>4, <1>6 DEF Final
  <2>2. Clean(c) => row'[c] = row[c] /\ row[c] = v
    BY <1>1, <1>4, InLoop DEF Clean, Fits, WordSound, At
  <2>3. v # "failure" /\ (v # "success" => v = "error")
    BY <2>1 DEF Final
  <2>4. Clean(c) => /\ v = "success" => row'[c] = row[c] /\ row[c] \in {"success", "error"}
                                        /\ (row[c] = "error" => ~Telling(c, "error"))
                    /\ v # "success" => row'[c] = "error"
    BY <2>2, <2>3
  <2> QED
    BY <1>1, <1>3, <2>1, <2>4, ToldSeen DEF At, client, stopping, errors
<1> QED
  BY <1>5, <1>6

\* The task around the agent: a start that fails, an end it announces, an error.
LEMMA LeaveStage ==
  ASSUME IInv, NEW c \in Completions, Leave(c)
  PROVE  run'[c].stage = "ending" /\ heard'[c] = "never"
<1>1. run'[c] = [Idle EXCEPT !.stage = "ending"] /\ heard'[c] = "never"
  BY DEF Leave, Go, IInv, Types
<1> QED
  BY <1>1 DEF Idle

LEMMA StartSeen ==
  ASSUME IInv, NEW c \in Completions, Seen(c), Start(c)
  PROVE  Seen(c)'
<1>1. CASE Fault(c)
  BY <1>1, FaultSeen
<1>2. CASE ~Fault(c)
  <2>1. /\ Go(c, To(c, "planning")) \/ Go(c, To(c, "raised"))
        /\ UNCHANGED <<heard, pipe, errors>> /\ UNCHANGED <<row, slots, client, stopping, decided>>
        /\ At(c, "starting") /\ run[c] \in Run
    BY <1>2, InLoop DEF Start
  <2>2. run'[c] = To(c, "planning") \/ run'[c] = To(c, "raised")
    BY <2>1 DEF Go, IInv, Types
  <2>3. run'[c].stage \in {"planning", "raised"}
    BY <2>1, <2>2 DEF To, Run
  <2> QED
    BY <2>1, <2>3, WalkSeen DEF At, client, stopping, errors
<1> QED
  BY <1>1, <1>2

LEMMA ReturnSeen ==
  ASSUME IInv, NEW c \in Completions, Seen(c), Return(c)
  PROVE  Seen(c)'
<1>1. /\ At(c, "returned") /\ Leave(c) /\ Put(c, "success")
      /\ UNCHANGED <<row, slots, client, stopping, decided, errors>>
  BY DEF Return
<1>2. Clean(c) /\ Unstopped(c) => row[c] \in {"success", "error"} /\ ~Telling(c, "error")
  BY <1>1, InLoop DEF Clean, Unstopped, Telling, At, Fits, RowSound, WordSound, Settling, Final
<1> QED
  BY <1>1, <1>2, LeaveStage, ToldSeen DEF At, client, stopping, errors

LEMMA RecoverSeen ==
  ASSUME IInv, NEW c \in Completions, Seen(c), Recover(c)
  PROVE  Seen(c)'
<1>1. CASE Fault(c)
  BY <1>1, FaultSeen
<1>2. CASE ~Fault(c)
  <2>1. /\ At(c, "raised") /\ Leave(c) /\ Put(c, "failure")
        /\ UNCHANGED <<slots, client, stopping, decided>> /\ UNCHANGED errors
        /\ ~run[c].poisoned => row' = [row EXCEPT ![c] = "error"]
    BY <1>2 DEF Recover
  <2>2. ~faulty[c] => row'[c] = "error"
    BY <2>1, InLoop DEF Fits, WordSound, IInv, Types
  <2> QED
    BY <2>1, <2>2, LeaveStage, ToldSeen DEF At, client, stopping, errors, Clean
<1> QED
  BY <1>1, <1>2

\* The sentinel is the last event.
LEMMA EndSeen ==
  ASSUME IInv, NEW c \in Completions, Seen(c), End(c)
  PROVE  Seen(c)'
<1>1. SUFFICES ASSUME Clean(c)' PROVE (Unstopped(c) /\ ReadOut(c) /\ Foreseen(c))'
  BY DEF Seen
<1>2. /\ At(c, "ending") /\ Go(c, To(c, "ended")) /\ Finish(c)
      /\ UNCHANGED <<row, heard, line, client, stopping, decided, errors>>
      /\ run[c] \in Run
  BY InLoop DEF End
<1>3. run'[c].stage = "ended"
  <2>1. run'[c] = To(c, "ended")
    BY <1>2 DEF Go, IInv, Types
  <2> QED
    BY <1>2, <2>1 DEF To, Run
<1>4. "end" \in Events
  BY DEF Events
<1>5. ~lost[c] /\ queue[c] \in Seq(Events) /\ queue'[c] = Append(queue[c], "end")
  BY <1>1, <1>2, <1>4, Appended DEF Clean, IInv
<1>6. Clean(c)
  BY <1>1, <1>2, <1>5 DEF Clean, errors, stopping
<1>7. Unstopped(c) /\ ReadOut(c) /\ Foreseen(c)
  BY <1>6 DEF Seen
<1>8. \A x : Has(queue'[c], x) <=> Has(queue[c], x) \/ x = "end"
  BY <1>4, <1>5, HasAppend
<1>9. (Unstopped(c))'
  <2>1. ~Has(queue'[c], "stopped")
    BY <1>7, <1>8 DEF Unstopped
  <2> QED
    BY <1>2, <1>3, <1>7, <2>1 DEF Unstopped, Settling, client
<1>10. (ReadOut(c))'
  <2>1. ASSUME NEW i \in DOMAIN queue'[c], queue'[c][i] = "end" PROVE i = Len(queue'[c])
    <3>1. ~Has(queue[c], "end")
      BY <1>2, <1>7 DEF ReadOut, At
    <3>2. /\ Len(queue'[c]) = Len(queue[c]) + 1 /\ DOMAIN queue'[c] = 1..(Len(queue[c]) + 1)
          /\ Len(queue[c]) \in Nat /\ DOMAIN queue[c] = 1..Len(queue[c])
          /\ \A j \in 1..Len(queue[c]) : queue'[c][j] = queue[c][j]
      BY <1>5
    <3> QED
      BY <2>1, <3>1, <3>2 DEF Has
  <2>2. reader[c] # "closed"
    BY <1>2, <1>7 DEF ReadOut, At
  <2> QED
    BY <1>2, <1>3, <2>1, <2>2 DEF ReadOut, At, client
<1>11. /\ Failed(c)' <=> Failed(c)
       /\ Won(c)' <=> Won(c)
  BY <1>2, <1>8 DEF Failed, Won, client
<1>12. (Foreseen(c))'
  <2>1. ~Telling(c, "error") /\ ~Telling(c, "success")
    BY <1>2 DEF Telling, At
  <2> QED
    BY <1>2, <1>7, <1>11, <2>1 DEF Foreseen
<1> QED
  BY <1>9, <1>10, <1>12

\* The browser takes the oldest event: what it told is shown now, and the sentinel
\* has left nothing behind it.
LEMMA ReadSeen ==
  ASSUME IInv, NEW c \in Completions, Seen(c), Read(c)
  PROVE  Seen(c)'
<1>1. SUFFICES ASSUME Clean(c)' PROVE (Unstopped(c) /\ ReadOut(c) /\ Foreseen(c))'
  BY DEF Seen
<1>2. /\ queue[c] # <<>> /\ queue[c] \in Seq(Events) /\ queue'[c] = Tail(queue[c])
      /\ reader'[c] = IF Head(queue[c]) = "end" THEN "closed" ELSE "reading"
      /\ shown'[c] = Shows(shown[c], Head(queue[c]))
      /\ UNCHANGED <<row, run, heard, slots, lost, stopping, decided, errors>>
  BY DEF Read, IInv, Types
<1>3. Clean(c)
  BY <1>1, <1>2 DEF Clean, errors, stopping
<1>4. Unstopped(c) /\ ReadOut(c) /\ Foreseen(c)
  BY <1>3 DEF Seen
<1>5. PICK h \in Events : h = Head(queue[c]) /\ Has(queue[c], h)
  <2>1. Head(queue[c]) \in Events /\ 1 \in DOMAIN queue[c] /\ queue[c][1] = Head(queue[c])
    BY <1>2
  <2> QED
    BY <2>1 DEF Has
<1>6. /\ \A x : Has(queue'[c], x) => Has(queue[c], x)
      /\ \A x : Has(queue[c], x) => x = h \/ Has(queue'[c], x)
  BY <1>2, <1>5, HasTail
<1>7. h # "stopped"
  BY <1>4, <1>5 DEF Unstopped
<1>8. /\ h \in {"failure", "error"} => shown'[c] = "error"
      /\ h = "success" => shown'[c] = IF shown[c] = "error" THEN "error" ELSE "success"
      /\ h \notin {"failure", "error", "success"} => shown'[c] = shown[c]
  BY <1>2, <1>4, <1>5, <1>7 DEF Shows, Final, Unstopped
<1>9. (Unstopped(c))'
  <2>1. shown'[c] # "stopped" /\ ~Has(queue'[c], "stopped")
    BY <1>4, <1>6, <1>8 DEF Unstopped
  <2> QED
    BY <1>2, <1>4, <2>1 DEF Unstopped
<1>10. (ReadOut(c))'
  <2>1. /\ DOMAIN queue[c] = 1..Len(queue[c]) /\ Len(queue[c]) \in Nat /\ Len(queue[c]) >= 1
        /\ DOMAIN queue'[c] = 1..(Len(queue[c]) - 1) /\ Len(queue'[c]) = Len(queue[c]) - 1
        /\ \A i \in 1..(Len(queue[c]) - 1) : queue'[c][i] = queue[c][i + 1]
        /\ queue[c][1] = h
    BY <1>2, <1>5
  <2>2. ASSUME NEW i \in DOMAIN queue'[c], queue'[c][i] = "end"
        PROVE  At(c, "ended") /\ i = Len(queue'[c])
    <3>1. i + 1 \in DOMAIN queue[c] /\ queue[c][i + 1] = "end"
      BY <2>1, <2>2
    <3>2. Has(queue[c], "end")
      BY <3>1 DEF Has
    <3>3. At(c, "ended") /\ i + 1 = Len(queue[c])
      BY <1>4, <3>1, <3>2 DEF ReadOut
    <3> QED
      BY <2>1, <2>2, <3>3
  <2>3. ASSUME h = "end" PROVE At(c, "ended") /\ queue'[c] = <<>>
    <3>1. At(c, "ended") /\ 1 = Len(queue[c])
      <4>1. Has(queue[c], "end") /\ 1 \in DOMAIN queue[c] /\ queue[c][1] = "end"
        BY <1>5, <2>1, <2>3
      <4> QED
        BY <1>4, <4>1 DEF ReadOut
    <3>2. Len(queue'[c]) = 0 /\ queue'[c] \in Seq(Events)
      BY <1>2, <2>1, <3>1
    <3> QED
      BY <3>1, <3>2
  <2>4. At(c, "ended")' = At(c, "ended") /\ (reader'[c] = "closed" => h = "end")
    BY <1>2, <1>5 DEF At
  <2> QED
    BY <2>2, <2>3, <2>4 DEF ReadOut, Has
<1>11. ASSUME Failed(c)' PROVE row[c] = "error"
  <2>1. Failed(c)
    BY <1>5, <1>6, <1>8, <1>11 DEF Failed
  <2> QED
    BY <1>4, <2>1 DEF Foreseen
<1>12. Failed(c) => Failed(c)'
  BY <1>6, <1>8 DEF Failed
<1>13. ASSUME row[c] = "success", Won(c) PROVE Won(c)'
  <2>1. shown[c] # "error" /\ h \notin {"failure", "error"}
    BY <1>4, <1>5, <1>13 DEF Foreseen, Failed
  <2> QED
    BY <1>6, <1>8, <1>13, <2>1 DEF Won
<1>14. (Foreseen(c))'
  <2>1. /\ Telling(c, "error")' = Telling(c, "error")
        /\ Telling(c, "success")' = Telling(c, "success") /\ row'[c] = row[c]
    BY <1>2 DEF Telling, At
  <2> QED
    BY <1>4, <1>11, <1>12, <1>13, <2>1 DEF Foreseen
<1> QED
  BY <1>9, <1>10, <1>14

LEMMA RequestSeen ==
  ASSUME IInv, NEW c \in Completions, Seen(c), Request(c)
  PROVE  Seen(c)'
<1>1. SUFFICES ASSUME Clean(c)' PROVE (Unstopped(c) /\ ReadOut(c) /\ Foreseen(c))'
  BY DEF Seen
<1>2. /\ At(c, "idle") /\ run[c] \in Run /\ Go(c, To(c, "saved")) /\ row'[c] = "in_progress"
      /\ UNCHANGED <<heard, slots, stream, stopping, decided, errors>>
  BY InLoop DEF Request, IInv, Types
<1>3. Clean(c)
  BY <1>1, <1>2 DEF Clean, stream, pipe, errors, stopping
<1>4. Unstopped(c) /\ ReadOut(c) /\ Foreseen(c) /\ row[c] = "none"
  BY <1>2, <1>3, InLoop DEF Seen, Fits, RowSound, At
<1>5. run'[c].stage = "saved"
  <2>1. run'[c] = To(c, "saved")
    BY <1>2 DEF Go, IInv, Types
  <2> QED
    BY <1>2, <2>1 DEF To, Run
<1>6. /\ ~Has(queue[c], "end") /\ ~Has(queue[c], "error") /\ ~Has(queue[c], "failure")
      /\ shown[c] # "error" /\ reader[c] # "closed"
  BY <1>2, <1>4 DEF ReadOut, Foreseen, Failed, At
<1> QED
  BY <1>2, <1>4, <1>5, <1>6
     DEF Unstopped, ReadOut, Foreseen, Failed, Telling, At, Settling, stream, pipe, client

LEMMA SpawnSeen ==
  ASSUME IInv, NEW c \in Completions, Seen(c), Spawn(c)
  PROVE  Seen(c)'
<1>1. SUFFICES ASSUME Clean(c)' PROVE (Unstopped(c) /\ ReadOut(c) /\ Foreseen(c))'
  BY DEF Seen
<1>2. /\ At(c, "saved") /\ run[c] \in Run /\ Go(c, To(c, "waiting"))
      /\ reader'[c] = "reading" /\ shown'[c] = "in_progress"
      /\ UNCHANGED <<row, heard, free, pipe, stopping, decided, errors>>
  BY InLoop DEF Spawn, IInv, Types
<1>3. Clean(c) /\ run[c].stage = "saved"
  BY <1>1, <1>2 DEF Clean, pipe, errors, stopping, At
<1>4. Unstopped(c) /\ ReadOut(c) /\ Foreseen(c)
  BY <1>3 DEF Seen
<1>5. row[c] = "in_progress"
  <2>1. ~run[c].emitted
    <3>1. run[c] = [Idle EXCEPT !.stage = "saved"]
      BY <1>3, InLoop DEF Fits, LoopSound
    <3> QED
      BY <3>1 DEF Idle
  <2> QED
    BY <1>2, <1>3, <1>4, <2>1, InLoop DEF Fits, RowSound, Unsettled, Unstopped, At
<1>6. run'[c].stage = "waiting"
  <2>1. run'[c] = To(c, "waiting")
    BY <1>2 DEF Go, IInv, Types
  <2> QED
    BY <1>2, <2>1 DEF To, Run
<1>7. ~Has(queue[c], "end") /\ ~Has(queue[c], "error") /\ ~Has(queue[c], "failure")
  BY <1>2, <1>4, <1>5 DEF ReadOut, Foreseen, Failed, At
<1> QED
  BY <1>2, <1>4, <1>5, <1>6, <1>7
     DEF Unstopped, ReadOut, Foreseen, Failed, Telling, At, Settling, pipe

LEMMA AbandonSeen ==
  ASSUME IInv, NEW c \in Completions, Seen(c), Abandon(c)
  PROVE  Seen(c)'
<1>1. run[c] \in Run /\ run[c].stage = "saved" /\ run'[c] = To(c, "abandoned")
  BY InLoop DEF Abandon, At, Go, IInv, Types
<1>2. run'[c].stage = "abandoned"
  BY <1>1 DEF To, Run
<1> QED
  BY <1>1, <1>2, WalkSeen DEF Abandon, stream, client, stopping, errors

\* What is asked of a run that somebody wants stopped is not asked of this one.
LEMMA StopsSeen ==
  ASSUME IInv, NEW c \in Completions, StopRead(c) \/ StopWrite(c) \/ Hear(c)
  PROVE  Seen(c)'
<1>1. row[c] # "idle" /\ stopper \in [Completions -> {"idle", "over", "in_progress"} \cup Final]
  BY InLoop DEF IInv, Types, Final
<1>2. stopper'[c] # "idle"
  BY <1>1 DEF StopRead, StopWrite, Hear, stopping, Final
<1> QED
  BY <1>2 DEF Seen, Clean

\* A step of one completion leaves all that concerns another as it is.
LEMMA Unmoved ==
  ASSUME IInv, NEW c \in Completions, NEW d \in Completions \ {c}, RunStep(c) \/ ClientStep(c)
  PROVE  /\ run'[d] = run[d] /\ row'[d] = row[d] /\ heard'[d] = heard[d]
         /\ queue'[d] = queue[d] /\ lost'[d] = lost[d]
         /\ reader'[d] = reader[d] /\ shown'[d] = shown[d]
         /\ stopper'[d] = stopper[d] /\ faulty'[d] = faulty[d]
<1> DEFINE P == /\ run'[d] = run[d] /\ row'[d] = row[d] /\ heard'[d] = heard[d]
                /\ queue'[d] = queue[d] /\ lost'[d] = lost[d]
                /\ reader'[d] = reader[d] /\ shown'[d] = shown[d]
                /\ stopper'[d] = stopper[d] /\ faulty'[d] = faulty[d]
<1>1. Types
  BY DEF IInv
<1>2. \A r : Go(c, r) => run'[d] = run[d]
  BY <1>1 DEF Go, Types
<1>3. \A e : Put(c, e) => queue'[d] = queue[d] /\ lost'[d] = lost[d]
  BY <1>1 DEF Put, Types
<1>4. Finish(c) => queue'[d] = queue[d] /\ lost'[d] = lost[d]
  BY <1>1 DEF Finish, Types
<1>5. UNCHANGED pipe => queue'[d] = queue[d] /\ lost'[d] = lost[d]
  BY DEF pipe
<1>6. Fault(c) => faulty'[d] = faulty[d]
  BY <1>1, FaultType
<1>7. Leave(c) => run'[d] = run[d] /\ heard'[d] = heard[d]
  BY <1>1, <1>2 DEF Leave, Types
<1>8. ASSUME Others, UNCHANGED pipe \/ \E e : Put(c, e), \E r : Go(c, r) PROVE P
  BY <1>2, <1>3, <1>5, <1>8 DEF Others, client, stopping, errors
<1>9. \A r, complete : Observe(c, r, complete) => \E s : Go(c, s)
  BY DEF Observe
<1>10. \A t, r, complete : Failure(c, t, r, complete) => \E s : Go(c, s)
  BY <1>9 DEF Failure
<1>11. CASE Prepare(c) \/ Interrupt(c) \/ Answer(c) \/ Malformed(c) \/ Actionless(c) \/ Undecided(c)
  BY <1>8, <1>11 DEF Prepare, Interrupt, Answer, Malformed, Actionless, Undecided
<1>12. CASE (\E n \in 1..MaxActions : Act(c, n)) \/ Unresolved(c) \/ Settle(c) \/ Fail(c)
  BY <1>8, <1>12 DEF Act, Unresolved, Settle, Fail
<1>13. CASE \E t \in Calls : Fails(c, t) \/ Rejected(c, t) \/ Breaks(c, t)
  BY <1>8, <1>10, <1>13 DEF Fails, Rejected, Breaks
<1>14. CASE \E t \in Calls, complete \in BOOLEAN : Succeeds(c, t, complete)
  BY <1>8, <1>9, <1>14 DEF Succeeds
<1>15. CASE Acquire(c)
  BY <1>2, <1>15 DEF Acquire, stream, pipe, client, stopping, errors
<1>16. CASE Start(c)
  <2>1. run'[d] = run[d] /\ heard'[d] = heard[d]
    BY <1>2, <1>7, <1>16 DEF Start
  <2>2. queue'[d] = queue[d] /\ lost'[d] = lost[d]
    BY <1>3, <1>5, <1>16 DEF Start
  <2>3. faulty'[d] = faulty[d]
    BY <1>6, <1>16 DEF Start, errors
  <2> QED
    BY <1>16, <2>1, <2>2, <2>3 DEF Start, client, stopping
<1>17. CASE Return(c)
  BY <1>3, <1>7, <1>17 DEF Return, client, stopping, errors
<1>18. CASE Recover(c)
  <2>1. row'[d] = row[d]
    BY <1>1, <1>18 DEF Recover, Types
  <2>2. faulty'[d] = faulty[d]
    BY <1>6, <1>18 DEF Recover, errors
  <2> QED
    BY <1>3, <1>7, <1>18, <2>1, <2>2 DEF Recover, client, stopping
<1>19. CASE End(c)
  BY <1>2, <1>4, <1>19 DEF End, client, stopping, errors
<1>20. CASE Write(c)
  <2>1. row'[d] = row[d]
    BY <1>1, <1>20 DEF Write, Types
  <2>2. run'[d] = run[d]
    BY <1>2, <1>20 DEF Write
  <2>3. faulty'[d] = faulty[d]
    BY <1>6, <1>20 DEF Write, errors
  <2> QED
    BY <1>20, <2>1, <2>2, <2>3 DEF Write, stream, pipe, client, stopping
<1>21. CASE Tell(c)
  <2>1. run'[d] = run[d]
    <3>1. \E r : Go(c, r)
      BY <1>21 DEF Tell
    <3> QED
      BY <1>2, <3>1
  <2> QED
    BY <1>3, <1>21, <2>1 DEF Tell, client, stopping, errors
<1>22. CASE Raise(c)
  <2>1. faulty'[d] = faulty[d]
    BY <1>6, <1>22 DEF Raise, errors
  <2> QED
    BY <1>2, <1>22, <2>1 DEF Raise, stream, pipe, client, stopping
<1>23. CASE ClientStep(c)
  <2>1. CASE Request(c)
    BY <1>1, <1>2, <2>1 DEF Request, Types, stream, pipe, client, stopping, errors
  <2>4. CASE Spawn(c)
    BY <1>1, <1>2, <2>4 DEF Spawn, Types, pipe, stopping, errors
  <2>5. CASE Abandon(c)
    BY <1>1, <1>2, <2>5 DEF Abandon, Types, stream, pipe, client, stopping, errors
  <2>2. CASE Read(c)
    BY <1>1, <2>2 DEF Read, Types, stopping, errors
  <2>3. CASE StopRead(c) \/ StopWrite(c) \/ Hear(c)
    BY <1>1, <2>3 DEF StopRead, StopWrite, Hear, Types, stream, pipe, client, stopping, errors
  <2> QED
    BY <1>23, <2>1, <2>2, <2>3, <2>4, <2>5 DEF ClientStep
<1> QED
  BY <1>11, <1>12, <1>13, <1>14, <1>15, <1>16, <1>17, <1>18, <1>19, <1>20, <1>21, <1>22, <1>23
     DEF RunStep

LEMMA SeenStep ==
  ASSUME IInv, SeenInv, [Next]_vars
  PROVE  SeenInv'
<1> SUFFICES ASSUME NEW d \in Completions PROVE Seen(d)'
  BY DEF SeenInv
<1>1. Seen(d)
  BY DEF SeenInv
<1>2. CASE UNCHANGED vars
  BY <1>1, <1>2 DEF vars, slots, stream, pipe, client, stopping, errors, Seen, Clean, Unstopped,
                    ReadOut, Foreseen, Failed, Won, Telling, At
<1>3. ASSUME NEW c \in Completions, RunStep(c) \/ ClientStep(c), c # d PROVE Seen(d)'
  <2>1. /\ run'[d] = run[d] /\ row'[d] = row[d] /\ heard'[d] = heard[d]
        /\ queue'[d] = queue[d] /\ lost'[d] = lost[d]
        /\ reader'[d] = reader[d] /\ shown'[d] = shown[d]
        /\ stopper'[d] = stopper[d] /\ faulty'[d] = faulty[d]
    BY <1>3, Unmoved
  <2> QED
    BY <1>1, <2>1 DEF Seen, Clean, Unstopped, ReadOut, Foreseen, Failed, Won, Telling, At
<1>4. ASSUME RunStep(d) PROVE Seen(d)'
  BY <1>1, <1>4, StagesSeen, StartSeen, ReturnSeen, RecoverSeen, EndSeen, PlannerSeen, ToolsSeen,
     WriteSeen, TellSeen DEF RunStep
<1>5. ASSUME ClientStep(d) PROVE Seen(d)'
  BY <1>1, <1>5, RequestSeen, SpawnSeen, AbandonSeen, ReadSeen, StopsSeen DEF ClientStep
<1> QED
  BY <1>2, <1>3, <1>4, <1>5 DEF Next

LEMMA SeenInit == Init => SeenInv
<1> SUFFICES ASSUME Init, NEW c \in Completions PROVE Seen(c)
  BY DEF SeenInv
<1>1. /\ run[c] = Idle /\ heard[c] = "never" /\ row[c] = "none" /\ shown[c] = "none"
      /\ queue[c] = <<>> /\ reader[c] = "none"
  BY DEF Init
<1>2. \A x : ~Has(queue[c], x)
  BY <1>1 DEF Has
<1>3. run[c].stage = "idle"
  BY <1>1 DEF Idle
<1> QED
  BY <1>1, <1>2, <1>3 DEF Seen, Unstopped, ReadOut, Foreseen, Failed, Won, Telling, At, Settling

\* handleStreamingEvent against the row: a browser that has followed the stream to
\* its end shows what a reload would show, although the task around the agent
\* announces a success even after an error (completion_service), unless an event
\* was dropped, a stop was asked for, or the database has failed the run.
THEOREM BrowsersShowTheRow == Spec => []ShownIsWritten
<1>1. IInv /\ SeenInv /\ [Next]_vars => SeenInv'
  BY SeenStep
<1>2. IInv /\ SeenInv => ShownIsWritten
  <2> SUFFICES ASSUME IInv, SeenInv, NEW c \in Completions, reader[c] = "closed", Clean(c)
               PROVE  shown[c] = row[c]
    BY DEF ShownIsWritten, Clean
  <2>1. Unstopped(c) /\ ReadOut(c) /\ Foreseen(c)
    BY DEF SeenInv, Seen
  <2>2. At(c, "ended") /\ queue[c] = <<>>
    BY <2>1 DEF ReadOut
  <2>3. row[c] \in {"success", "error"}
    BY <2>1, <2>2, InLoop DEF Clean, Fits, WordSound, At, Final, Unstopped
  <2>4. \A x : ~Has(queue[c], x)
    BY <2>2 DEF Has
  <2> QED
    BY <2>1, <2>2, <2>3, <2>4 DEF Foreseen, Failed, Won, Telling, At
<1> QED
  BY Inductive, SeenInit, <1>1, <1>2, PTL DEF Spec
=============================================================================
