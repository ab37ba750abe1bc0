--------------------------- MODULE SupervisorProofs ---------------------------
(***************************************************************************)
(* Proofs about Supervisor, for any pool, tasks and restarts, as long as    *)
(* no two workers get the same id.  spawn_worker makes the id of the first  *)
(* part of the task's and the number of workers in the pool; ids differ if  *)
(* those parts do and no task is handed to the node a second time.          *)
(***************************************************************************)
EXTENDS Supervisor, TLAPS, FiniteSetTheorems, WellFoundedInduction

-----------------------------------------------------------------------------
\* The inductive invariant

Used(c)     == run[c].phase # "unused"
Original(c) == Used(c) /\ run[c].by # "restart"
Live(c)     == run[c].phase \in {"created"} \cup Awaiting

\* No two workers were spawned with the same id.
IdsUnique == \A c, d \in Run : Original(c) /\ Original(d) /\ run[c].wid = run[d].wid => c = d

RunRecord == [phase : {"created", "done"} \cup Awaiting, by : Creator, wid : Wid,
              info : 0..MaxRuns, steps : 0..MaxSteps]
InfoRecord == [status : {"none", "pending", "running", "completed", "failed", "crashed",
                         "cancelled"},
               ended : {"no", "fresh", "old"}]

Shape ==
  /\ sup \in {"running", "stopping", "stopped"} /\ polled \in 0..MaxWorkers
  /\ answer \in SUBSET Task /\ delivered \in [Task -> 0..MaxDeliveries]
  /\ pool \in [Wid -> 0..MaxRuns] /\ handle \in [Wid -> 0..MaxRuns]
  /\ info \in [Run -> InfoRecord] /\ run \in [Run -> {NoRun} \cup RunRecord]

\* A worker has a step left as long as it is at work.
Busy == {"created", "received", "executing"}
StepsLeft == \A c \in Run : run[c].phase \in Busy => run[c].steps < MaxSteps

\* The tasks of an answer may be handed over, and there are coroutines left for them.
AnswerFits ==
  /\ answer # {} => sup # "stopped"
  /\ \A t \in answer : delivered[t] < MaxDeliveries
  /\ Cardinality(answer) <= Cardinality(Unused)

\* Both tables lead to the coroutine that was spawned for the id, one and no other was
\* spawned for it, and of those restarted for it the last is alive at most.
IdsLead ==
  /\ \A w \in Wid : pool[w] # 0 => Original(pool[w]) /\ run[pool[w]].wid = w
  /\ \A w \in Wid : handle[w] # 0 => handle[w] = pool[w]
  /\ \A c \in Run : Used(c) => \E d \in Run : Original(d) /\ run[d].wid = run[c].wid
  /\ \A c, d \in Run : Original(c) /\ Original(d) /\ run[c].wid = run[d].wid => c = d
  /\ \A c, d \in Run : Live(c) /\ Live(d) /\ run[c].wid = run[d].wid => c = d

\* A coroutine writes the WorkerInfo of the one that was spawned for its id.
WritersMatch ==
  \A c \in Run : run[c].phase \in Awaiting =>
    /\ run[c].info \in Run /\ Original(run[c].info)
    /\ run[run[c].info].wid = run[c].wid

\* The coroutine that was spawned stays in the tables as long as it lives.
SpawnedTracked ==
  \A c \in Run : Original(c) /\ Live(c) =>
    /\ pool[run[c].wid] = c /\ (handle[run[c].wid] = c \/ sup = "stopped")
    /\ info[c].ended = "no"
    /\ Working(c) => info[c].status = "running"

\* A WorkerInfo that says CANCELLED has no coroutine left, but for a restarted one.
CancelledIsDone ==
  \A i \in Run :
    /\ ~Original(i) => info[i].status = "none"
    /\ info[i].status = "cancelled" /\ ~Restarted(i) => run[i].phase = "done"

\* The slots that are taken, promised by an answer, or asked for
Taken == {c \in Run : Used(c) /\ run[c].by = "listener"
                      /\ run[c].phase \in Busy}
SlotsSuffice == Cardinality(Taken) + Cardinality(answer) + polled <= MaxWorkers

SupInv == /\ Shape /\ StepsLeft /\ AnswerFits /\ IdsLead /\ WritersMatch /\ SpawnedTracked
          /\ CancelledIsDone /\ SlotsSuffice

USE SupervisorAssumption

-----------------------------------------------------------------------------
\* Coroutines and ids that are left

LEMMA LeastRun ==
  ASSUME NEW T \in SUBSET Nat, T # {}
  PROVE  \E x \in T : \A y \in T : x <= y
<1>1. PICK x \in T : \A y \in T : <<y, x>> \notin OpToRel(<, Nat)
  BY WFMin, NatLessThanWellFounded
<1>2. \A y \in T : <<y, x>> \in OpToRel(<, Nat) <=> y < x
  BY DEF OpToRel
<1>3. ASSUME NEW y \in T PROVE x <= y
  <2>1. x \in Nat /\ y \in Nat /\ ~(y < x)
    BY <1>1, <1>2
  <2> QED  BY <2>1
<1> QED  BY <1>3

LEMMA FreshIsUnused == Unused # {} => Fresh \in Unused
<1>1. Unused \in SUBSET Nat
  BY DEF Unused, Run
<1> QED  BY <1>1, LeastRun DEF Fresh

LEMMA RunsFinite == \A T \in SUBSET Run : IsFiniteSet(T) /\ Cardinality(T) \in Nat
<1>1. IsFiniteSet(Run)
  BY FS_Interval DEF Run
<1> QED  BY <1>1, FS_Subset, FS_CardinalityType

LEMMA OneMore ==
  ASSUME NEW S, NEW x, IsFiniteSet(S), x \notin S
  PROVE  Cardinality(S \cup {x}) = Cardinality(S) + 1
BY FS_AddElement

\* The workers in the pool are fewer than the coroutines, if one is left.
LEMMA PoolCounted ==
  ASSUME Shape, IdsLead
  PROVE  /\ IsFiniteSet(Pooled)
         /\ Unused # {} => Cardinality(Pooled) \in 0..(MaxRuns - 1)
<1> DEFINE U == Run \ Unused
           f == [w \in Pooled |-> pool[w]]
<1>1. \A w \in Pooled : pool[w] \in U /\ run[pool[w]].wid = w
  BY DEF Pooled, Shape, IdsLead, Original, Used, Unused, Run
<1>2. f \in Injection(Pooled, U)
  BY <1>1 DEF Injection, IsInjective
<1>3. IsFiniteSet(U) /\ Cardinality(U) \in Nat
  BY RunsFinite
<1>4. IsFiniteSet(Pooled) /\ Cardinality(Pooled) <= Cardinality(U)
  BY <1>2, <1>3, FS_Injection
<1>5. ASSUME Unused # {} PROVE Cardinality(U) <= MaxRuns - 1
  <2>1. PICK c \in Run : c \notin U
    BY <1>5 DEF Unused
  <2>2. IsFiniteSet(Run) /\ Cardinality(Run) = MaxRuns
    BY <2>1, FS_Interval DEF Run
  <2>3. Cardinality(U) <= MaxRuns /\ (MaxRuns = Cardinality(U) => U = Run)
    BY <2>2, FS_Subset
  <2> QED  BY <1>3, <2>1, <2>3
<1>6. Cardinality(Pooled) \in Nat
  BY <1>4, FS_CardinalityType
<1> QED  BY <1>3, <1>4, <1>5, <1>6

LEMMA NewIdTyped ==
  ASSUME Shape, IdsLead, Unused # {}, NEW t \in Task
  PROVE  NewId(t) \in Wid /\ NewId(t)[1] = Prefix[t]
BY PoolCounted DEF NewId, Wid

-----------------------------------------------------------------------------
\* A coroutine that lives goes on, or ends

Moves(c, r) ==
  /\ Live(c) /\ r \in RunRecord /\ run' = [run EXCEPT ![c] = r]
  /\ r.by = run[c].by /\ r.wid = run[c].wid /\ r.phase # "created"
  /\ r.phase \in Awaiting => r.info \in Run /\ Original(r.info) /\ run[r.info].wid = r.wid
  /\ r.phase \in {"received", "executing"} =>
       run[c].phase # "reporting" /\ run[c].phase # "delay" /\ r.steps < MaxSteps
  /\ info' \in [Run -> InfoRecord]
  /\ \A i \in Run : info'[i] # info[i] =>
       /\ Original(i) /\ run[i].wid = run[c].wid
       /\ info'[i].status = info[i].status \/ info'[i].status # "cancelled"
  /\ Original(c) =>
       /\ r.phase \in Awaiting => info'[c].ended = info[c].ended
       /\ r.phase \in {"received", "executing"} => info'[c].status = "running"
  /\ UNCHANGED <<sup, polled, answer, pool, handle, delivered>>

\* Runs keep who made them and for which id; none comes to life.
SameRuns ==
  \A c \in Run :
    /\ Used(c)' <=> Used(c)
    /\ Used(c) => run'[c].by = run[c].by /\ run'[c].wid = run[c].wid
    /\ Live(c)' => Live(c)

LEMMA SameRunsKeep ==
  ASSUME Shape, SameRuns
  PROVE  /\ \A c \in Run : Original(c)' <=> Original(c)
         /\ \A c \in Run : Original(c) /\ Restarted(c) => Restarted(c)'
         /\ Unused' = Unused
         /\ IdsLead /\ UNCHANGED <<pool, handle, delivered>> => IdsLead'
<1>1. \A c \in Run : Original(c)' <=> Original(c)
  BY DEF SameRuns, Original
<1>2. ASSUME NEW i \in Run, Restarted(i), Used(i) PROVE Restarted(i)'
  <2>1. PICK c \in Run : CreatedBy(c, "restart") /\ run[c].wid = run[i].wid
    BY <1>2 DEF Restarted
  <2>2. CreatedBy(c, "restart")' /\ run'[c].wid = run'[i].wid
    BY <1>2, <2>1 DEF SameRuns, CreatedBy, Used
  <2> QED  BY <2>2 DEF Restarted
<1>3. Unused' = Unused
  BY DEF SameRuns, Unused, Used
<1>4. ASSUME IdsLead, UNCHANGED <<pool, handle, delivered>> PROVE IdsLead'
  <2>1. \A w \in Wid : pool[w] # 0 => pool[w] \in Run
    BY DEF Shape, Run
  <2>2. ASSUME NEW w \in Wid, pool[w] # 0
        PROVE  Original(pool[w])' /\ run'[pool[w]].wid = w
    <3>1. pool[w] \in Run /\ Original(pool[w]) /\ run[pool[w]].wid = w
      BY <1>4, <2>1, <2>2 DEF IdsLead
    <3>2. Original(pool[w])' /\ run'[pool[w]].wid = run[pool[w]].wid
      BY <1>4, <3>1 DEF SameRuns, Original
    <3> QED  BY <3>1, <3>2
  <2>3. ASSUME NEW c \in Run, Used(c)'
        PROVE  \E d \in Run : Original(d)' /\ run'[d].wid = run'[c].wid
    <3>1. Used(c) /\ run'[c].wid = run[c].wid
      BY <2>3 DEF SameRuns
    <3>2. PICK d \in Run : Original(d) /\ run[d].wid = run[c].wid
      BY <1>4, <3>1 DEF IdsLead
    <3>3. Original(d)' /\ run'[d].wid = run[d].wid
      BY <1>1, <3>2 DEF SameRuns, Original
    <3> QED  BY <3>1, <3>2, <3>3
  <2>4. \A c, d \in Run : Original(c)' /\ Original(d)' /\ run'[c].wid = run'[d].wid => c = d
    BY <1>1, <1>4 DEF IdsLead, SameRuns, Original
  <2>5. \A c \in Run : Live(c)' => Live(c) /\ Used(c)
    BY DEF SameRuns, Live, Used, Awaiting
  <2>6. \A c, d \in Run : Live(c)' /\ Live(d)' /\ run'[c].wid = run'[d].wid => c = d
    BY <1>4, <2>5 DEF IdsLead, SameRuns
  <2> QED  BY <1>4, <2>2, <2>3, <2>4, <2>6 DEF IdsLead
<1> QED  BY <1>1, <1>2, <1>3, <1>4 DEF Original

\* The slots that are taken only get fewer while no answer comes.
LEMMA SlotsKept ==
  ASSUME SlotsSuffice, Shape, Taken' \subseteq Taken,
         answer' = answer, polled' = polled \/ polled' = 0
  PROVE  SlotsSuffice'
<1>1. Taken \in SUBSET Run /\ Taken' \in SUBSET Taken
  BY DEF Taken
<1>2. IsFiniteSet(Taken) /\ Cardinality(Taken) \in Nat
  BY <1>1, RunsFinite
<1>3. Cardinality(Taken') <= Cardinality(Taken) /\ Cardinality(Taken') \in Nat
  BY <1>1, <1>2, FS_Subset, FS_CardinalityType
<1>4. Cardinality(answer) \in Nat /\ polled \in Nat
  BY FS_Subset, FS_CardinalityType DEF Shape
<1>5. Cardinality(Taken)' = Cardinality(Taken') /\ Cardinality(answer)' = Cardinality(answer)
  OBVIOUS
<1> QED  BY <1>2, <1>3, <1>4, <1>5 DEF SlotsSuffice

LEMMA MovesInv ==
  ASSUME SupInv, NEW c \in Run, NEW r, Moves(c, r)
  PROVE  SupInv'
<1> USE DEF SupInv
<1>1. /\ run \in [Run -> {NoRun} \cup RunRecord]
      /\ run'[c] = r /\ \A d \in Run : d # c => run'[d] = run[d]
      /\ UNCHANGED <<sup, polled, answer, pool, handle, delivered>>
  BY DEF Moves, Shape
<1>2. Used(c) /\ r.phase \in {"done"} \cup Awaiting /\ r.phase # "unused"
  BY DEF Moves, Live, Used, Awaiting, RunRecord
<1>3. SameRuns
  BY <1>1, <1>2 DEF SameRuns, Moves, Used, Live
<1>4. /\ \A d \in Run : Original(d)' <=> Original(d)
      /\ \A d \in Run : Original(d) /\ Restarted(d) => Restarted(d)'
      /\ Unused' = Unused /\ IdsLead'
  BY <1>1, <1>3, SameRunsKeep
<1>5. Shape'
  BY <1>1 DEF Shape, Moves
<1>6. AnswerFits'
  BY <1>1, <1>4 DEF AnswerFits
<1>7. WritersMatch'
  <2> SUFFICES ASSUME NEW d \in Run, run'[d].phase \in Awaiting
               PROVE  /\ run'[d].info \in Run /\ Original(run[d].info)'
                      /\ run'[run'[d].info].wid = run'[d].wid
    BY DEF WritersMatch
  <2>1. /\ run'[d].info \in Run /\ Original(run'[d].info)
        /\ run[run'[d].info].wid = run'[d].wid
    BY <1>1 DEF WritersMatch, Moves
  <2> DEFINE i == run'[d].info
  <2>2. i \in Run /\ Original(i) /\ run[i].wid = run'[d].wid
    BY <2>1
  <2> HIDE DEF i
  <2>3. run'[i].phase # "unused" /\ run'[i].by # "restart" /\ run'[i].wid = run'[d].wid
    BY <1>3, <2>2 DEF SameRuns, Original, Used
  <2> QED  BY <2>2, <2>3 DEF Original, Used, i
<1>8. SpawnedTracked'
  <2> SUFFICES ASSUME NEW d \in Run, Original(d)', Live(d)'
               PROVE  /\ pool[run'[d].wid] = d /\ (handle[run'[d].wid] = d \/ sup = "stopped")
                      /\ info'[d].ended = "no"
                      /\ Working(d)' => info'[d].status = "running"
    BY <1>1 DEF SpawnedTracked
  <2>1. Original(d) /\ Live(d) /\ run'[d].wid = run[d].wid
    BY <1>3, <1>4 DEF SameRuns, Original
  <2>2. /\ pool[run[d].wid] = d /\ (handle[run[d].wid] = d \/ sup = "stopped")
        /\ info[d].ended = "no" /\ (Working(d) => info[d].status = "running")
    BY <2>1 DEF SpawnedTracked
  <2>3. CASE d = c
    <3>1. r.phase \in Awaiting
      BY <1>1, <1>2, <2>3 DEF Live
    <3> QED  BY <1>1, <2>1, <2>2, <2>3, <3>1 DEF Moves, Working
  <2>4. CASE d # c
    <3>1. info'[d] = info[d]
      BY <2>1, <2>4 DEF Moves, IdsLead
    <3> QED  BY <1>1, <2>1, <2>2, <2>4, <3>1 DEF Working
  <2> QED  BY <2>3, <2>4
<1>9. CancelledIsDone'
  <2> SUFFICES ASSUME NEW i \in Run
               PROVE  /\ ~Original(i)' => info'[i].status = "none"
                      /\ info'[i].status = "cancelled" /\ ~Restarted(i)' => run'[i].phase = "done"
    BY DEF CancelledIsDone
  <2>1. ~Original(i)' => info'[i].status = "none"
    BY <1>4 DEF CancelledIsDone, Moves
  <2>2. ASSUME info'[i].status = "cancelled", ~Restarted(i)' PROVE run'[i].phase = "done"
    <3>1. info[i].status = "cancelled" /\ Original(i)
      BY <2>2 DEF Moves, CancelledIsDone
    <3>2. run[i].phase = "done"
      BY <1>4, <2>2, <3>1 DEF CancelledIsDone
    <3>3. i # c
      BY <3>2 DEF Moves, Live, Awaiting
    <3> QED  BY <1>1, <3>2, <3>3
  <2> QED  BY <2>1, <2>2
<1>10. SlotsSuffice'
  <2>1. \A d \in Run : d \in Taken' => d \in Taken
    <3> SUFFICES ASSUME NEW d \in Run, d \in Taken' PROVE d \in Taken
      OBVIOUS
    <3>1. Used(d)' /\ run'[d].by = "listener" /\ run'[d].phase \in Busy
      BY DEF Taken
    <3>2. Used(d) /\ run[d].by = "listener"
      BY <1>3, <3>1 DEF SameRuns
    <3>3. run[d].phase \in Busy
      BY <1>1, <3>1 DEF Moves, Live, Awaiting, Busy
    <3> QED  BY <3>2, <3>3 DEF Taken
  <2>2. Taken' \subseteq Taken
    BY <2>1 DEF Taken
  <2> QED  BY <1>1, <2>2, SlotsKept
<1>11. StepsLeft'
  <2> SUFFICES ASSUME NEW d \in Run, run'[d].phase \in Busy PROVE run'[d].steps < MaxSteps
    BY DEF StepsLeft
  <2>1. CASE d = c
    BY <1>1, <1>2, <2>1 DEF Moves, Busy, Awaiting
  <2>2. CASE d # c
    BY <1>1, <2>2 DEF StepsLeft
  <2> QED  BY <2>1, <2>2
<1> QED  BY <1>4, <1>5, <1>6, <1>7, <1>8, <1>9, <1>10, <1>11

\* The WorkerInfo of a coroutine that is awaiting is that of the one spawned.
LEMMA OwnInfo ==
  ASSUME SupInv, NEW c \in Run, run[c].phase \in Awaiting
  PROVE  /\ run[c] \in RunRecord /\ Used(c) /\ Live(c)
         /\ run[c].info \in Run /\ Original(run[c].info)
         /\ run[run[c].info].wid = run[c].wid
         /\ Original(c) => run[c].info = c
<1>1. /\ run[c].info \in Run /\ Original(run[c].info) /\ run[run[c].info].wid = run[c].wid
  BY DEF SupInv, WritersMatch
<1>2. run[c] \in RunRecord /\ Used(c) /\ Live(c)
  BY DEF SupInv, Shape, NoRun, Awaiting, Used, Live
<1> QED  BY <1>1, <1>2 DEF SupInv, IdsLead

\* A step that sets a status other than CANCELLED, or has the minute begin
LEMMA WriterMoves ==
  ASSUME SupInv, NEW c \in Run, run[c].phase \in Awaiting, NEW r \in RunRecord, NEW v \in InfoRecord,
         run' = [run EXCEPT ![c] = r], info' = [info EXCEPT ![run[c].info] = v],
         r.by = run[c].by, r.wid = run[c].wid, r.phase # "created",
         r.phase \in Awaiting => r.info = run[c].info /\ v.ended = info[run[c].info].ended,
         r.phase \in {"received", "executing"} =>
           /\ run[c].phase # "reporting" /\ run[c].phase # "delay" /\ r.steps < MaxSteps
           /\ v.status = info[run[c].info].status,
         v.status = info[run[c].info].status \/ v.status # "cancelled",
         UNCHANGED <<sup, polled, answer, pool, handle, delivered>>
  PROVE  Moves(c, r)
<1> DEFINE i == run[c].info
<1>1. /\ Live(c) /\ Used(c) /\ i \in Run /\ Original(i) /\ run[i].wid = run[c].wid
      /\ Original(c) => i = c
  BY OwnInfo
<1>2. info \in [Run -> InfoRecord] /\ info' = [info EXCEPT ![i] = v]
  BY DEF SupInv, Shape
<1> HIDE DEF i
<1>3. /\ info' \in [Run -> InfoRecord] /\ info'[i] = v
      /\ \A j \in Run : info'[j] # info[j] => j = i
  BY <1>1, <1>2
<1>4. r.phase \in Awaiting => r.info = i /\ v.ended = info[i].ended
  BY DEF i
<1>5. \A j \in Run : info'[j] # info[j] =>
        /\ Original(j) /\ run[j].wid = run[c].wid
        /\ info'[j].status = info[j].status \/ info'[j].status # "cancelled"
  BY <1>1, <1>3 DEF i
<1>6. ASSUME Original(c)
      PROVE  /\ r.phase \in Awaiting => info'[c].ended = info[c].ended
             /\ r.phase \in {"received", "executing"} => info'[c].status = "running"
  <2>1. i = c
    BY <1>1, <1>6
  <2>2. r.phase \in {"received", "executing"} => Working(c) /\ v.status = info[c].status
    BY <2>1 DEF i, Working, Awaiting
  <2>3. Working(c) => info[c].status = "running"
    BY <1>1, <1>6 DEF SupInv, SpawnedTracked
  <2> QED  BY <1>3, <1>4, <2>1, <2>2, <2>3
<1> QED  BY <1>1, <1>3, <1>4, <1>5, <1>6 DEF Moves

LEMMA OverTyped ==
  ASSUME NEW r \in RunRecord
  PROVE  /\ Over(r) \in RunRecord /\ Over(r).by = r.by /\ Over(r).wid = r.wid
         /\ Over(r).phase = "done" /\ "done" \notin Awaiting
<1>1. 0 \in 0..MaxRuns /\ 0 \in 0..MaxSteps
  OBVIOUS
<1> QED  BY <1>1 DEF Over, RunRecord, Awaiting

LEMMA StartMoves ==
  ASSUME SupInv, NEW c \in Run, StartRun(c)
  PROVE  \E r : Moves(c, r)
<1> DEFINE i == pool[run[c].wid]
           r == IF i = 0 THEN Over(run[c]) ELSE [run[c] EXCEPT !.info = i, !.phase = "received"]
<1>1. /\ run[c].phase = "created" /\ run' = [run EXCEPT ![c] = r]
      /\ info' = IF i = 0 THEN info ELSE [info EXCEPT ![i].status = "running"]
      /\ UNCHANGED <<sup, polled, answer, pool, handle, delivered>>
  BY DEF StartRun
<1>2. run[c] \in RunRecord /\ Live(c) /\ Used(c) /\ run[c].steps < MaxSteps
  BY <1>1 DEF SupInv, Shape, NoRun, Live, Used, StepsLeft, Busy
<1>3. i \in 0..MaxRuns /\ (i # 0 => i \in Run /\ Original(i) /\ run[i].wid = run[c].wid)
  BY <1>2 DEF SupInv, Shape, IdsLead, RunRecord, Run
<1>4. Original(c) => i = c
  BY <1>2 DEF SupInv, SpawnedTracked
<1>5. info \in [Run -> InfoRecord]
  BY DEF SupInv, Shape
<1> HIDE DEF i
<1>6. /\ r \in RunRecord /\ r.by = run[c].by /\ r.wid = run[c].wid
      /\ r.phase # "created" /\ (r.phase \in Awaiting => r.info = i /\ i # 0)
      /\ (r.phase = "received" => r.steps = run[c].steps)
      /\ (r.phase # "received" => r.phase = "done")
  <2>1. CASE i = 0
    <3>1. r = Over(run[c])
      BY <2>1
    <3>2. r \in RunRecord /\ r.by = run[c].by /\ r.wid = run[c].wid /\ r.phase = "done"
          /\ r.phase \notin Awaiting
      BY <1>2, <3>1, OverTyped
    <3> HIDE DEF r
    <3> QED  BY <3>2
  <2>2. CASE i # 0
    <3>1. r = [run[c] EXCEPT !.info = i, !.phase = "received"]
      BY <2>2
    <3> HIDE DEF r
    <3> QED  BY <1>2, <1>3, <2>2, <3>1 DEF RunRecord, Awaiting
  <2> QED  BY <2>1, <2>2
<1>7. info' \in [Run -> InfoRecord]
  BY <1>1, <1>3, <1>5 DEF InfoRecord
<1>8. \A j \in Run : info'[j] # info[j] => j = i /\ i # 0 /\ info'[j].status = "running"
  BY <1>1, <1>3, <1>5 DEF InfoRecord
<1>9. i # 0 => info'[i].ended = info[i].ended /\ info'[i].status = "running"
  BY <1>1, <1>3, <1>5 DEF InfoRecord
<1>10. c # 0
  BY DEF Run
<1> HIDE DEF r
<1>11. r.phase \in Awaiting => r.info \in Run /\ Original(r.info) /\ run[r.info].wid = r.wid
  BY <1>3, <1>6
<1>12. \A j \in Run : info'[j] # info[j] =>
         /\ Original(j) /\ run[j].wid = run[c].wid
         /\ info'[j].status = info[j].status \/ info'[j].status # "cancelled"
  BY <1>3, <1>8
<1>13. Original(c) => info'[c].ended = info[c].ended /\ info'[c].status = "running"
  BY <1>4, <1>9, <1>10
<1>14. Moves(c, r)
  <2>1. r.phase \in {"received", "executing"} =>
          run[c].phase # "reporting" /\ run[c].phase # "delay" /\ r.steps < MaxSteps
    BY <1>1, <1>2, <1>6
  <2> QED  BY <1>1, <1>2, <1>6, <1>7, <1>11, <1>12, <1>13, <2>1 DEF Moves
<1> QED  BY <1>14

\* Steps between two awaits of a worker, its end and its crash
LEMMA WorkMoves ==
  ASSUME SupInv, NEW c \in Run, Received(c) \/ Think(c) \/ Timeout(c) \/ Report(c) \/ Crash(c)
  PROVE  \E r : Moves(c, r)
<1> DEFINE i == run[c].info
<1>1. run[c].phase \in Awaiting
  BY DEF Received, Think, Timeout, Report, Crash, Awaiting
<1>2. run[c] \in RunRecord /\ i \in Run /\ run[c].steps \in 0..MaxSteps
  <2>1. run[c] \in RunRecord /\ i \in Run
    BY <1>1, OwnInfo
  <2> QED  BY <2>1 DEF RunRecord
<1>3. info[i] \in InfoRecord /\ info \in [Run -> InfoRecord]
  BY <1>2 DEF SupInv, Shape
<1>4. run \in [Run -> {NoRun} \cup RunRecord]
  BY DEF SupInv, Shape
<1>5. ASSUME NEW goal \in BOOLEAN, NEW n \in 0..MaxSteps, run[c].phase = "executing",
             Return(c, goal, n)
      PROVE  \E r : Moves(c, r)
  <2> DEFINE r == [run[c] EXCEPT !.phase = "reporting", !.steps = n]
             v == [info[i] EXCEPT !.status = IF Succeeds(goal, n) THEN "completed" ELSE "failed"]
  <2>1. /\ r \in RunRecord /\ r.phase = "reporting" /\ r.by = run[c].by /\ r.wid = run[c].wid
        /\ r.info = run[c].info
    BY <1>2 DEF RunRecord, Awaiting
  <2>2. v \in InfoRecord /\ v.ended = info[i].ended /\ v.status # "cancelled"
    BY <1>3 DEF InfoRecord
  <2>3. run' = [run EXCEPT ![c] = r] /\ info' = [info EXCEPT ![i] = v]
    BY <1>2, <1>3, <1>4, <1>5 DEF Return, SetStatus
  <2>4. UNCHANGED <<sup, polled, answer, pool, handle, delivered>>
    BY <1>5 DEF Return
  <2> HIDE DEF r, v
  <2>5. Moves(c, r)
    BY <1>1, <2>1, <2>2, <2>3, <2>4, WriterMoves
  <2> QED  BY <2>5
<1>6. CASE Received(c)
  <2> DEFINE r == [run[c] EXCEPT !.phase = "executing"]
  <2>1. /\ r \in RunRecord /\ r.phase = "executing" /\ r.by = run[c].by /\ r.wid = run[c].wid
        /\ r.info = run[c].info /\ r.steps = run[c].steps
    BY <1>2 DEF RunRecord, Awaiting
  <2>5. run[c].steps < MaxSteps
    BY <1>6 DEF Received, SupInv, StepsLeft, Busy
  <2>2. info' = [info EXCEPT ![i] = info[i]]
    BY <1>2, <1>3, <1>6 DEF Received
  <2>3. /\ run' = [run EXCEPT ![c] = r] /\ run[c].phase = "received"
        /\ UNCHANGED <<sup, polled, answer, pool, handle, delivered>>
    BY <1>6 DEF Received, Goes
  <2> HIDE DEF r
  <2>4. Moves(c, r)
    BY <1>1, <1>3, <2>1, <2>2, <2>3, <2>5, WriterMoves
  <2> QED  BY <2>4
<1>7. CASE Think(c)
  <2> DEFINE n == run[c].steps + 1
  <2>1. run[c].phase = "executing"
    BY <1>7 DEF Think
  <2>4. run[c].steps < MaxSteps
    BY <2>1 DEF SupInv, StepsLeft, Busy
  <2>5. n \in 1..MaxSteps
    BY <1>2, <2>4
  <2>2. CASE /\ n < MaxSteps /\ run' = [run EXCEPT ![c].steps = n]
             /\ UNCHANGED <<sup, polled, answer, pool, handle, info, delivered>>
    <3> DEFINE r == [run[c] EXCEPT !.steps = n]
    <3>1. /\ r \in RunRecord /\ r.phase = "executing" /\ r.by = run[c].by /\ r.wid = run[c].wid
          /\ r.info = run[c].info /\ r.steps < MaxSteps
      BY <1>2, <2>1, <2>2, <2>5 DEF RunRecord, Awaiting
    <3>2. info' = [info EXCEPT ![i] = info[i]] /\ run' = [run EXCEPT ![c] = r]
      BY <1>2, <1>3, <2>2
    <3> HIDE DEF r
    <3>3. Moves(c, r)
      BY <1>1, <1>3, <2>1, <2>2, <3>1, <3>2, WriterMoves
    <3> QED  BY <3>3
  <2>3. CASE \E a \in Thoughts : (a = "go on" => n = MaxSteps) /\ Return(c, a = "complete", n)
    <3>1. PICK a \in Thoughts : Return(c, a = "complete", n)
      BY <2>3
    <3>2. n \in 0..MaxSteps
      BY <2>5
    <3> QED  BY <1>5, <2>1, <3>1, <3>2
  <2> QED  BY <1>7, <2>2, <2>3 DEF Think
<1>8. CASE Timeout(c)
  <2> QED  BY <1>2, <1>5, <1>8 DEF Timeout
<1>9. CASE Report(c)
  <2> DEFINE r == Over(run[c])
             v == Ended(info[i])
  <2>1. v \in InfoRecord /\ v.status = info[i].status
    BY <1>3 DEF Ended, InfoRecord
  <2>2. r \in RunRecord /\ r.by = run[c].by /\ r.wid = run[c].wid /\ r.phase = "done"
    BY <1>2, OverTyped
  <2>3. run' = [run EXCEPT ![c] = r] /\ info' = [info EXCEPT ![i] = v]
    BY <1>9 DEF Report
  <2>4. UNCHANGED <<sup, polled, answer, pool, handle, delivered>>
    BY <1>9 DEF Report
  <2> HIDE DEF r, v
  <2>5. r.phase \notin Awaiting /\ r.phase # "created"
    BY <2>2 DEF Awaiting
  <2>6. Moves(c, r)
    BY <1>1, <2>1, <2>2, <2>3, <2>4, <2>5, WriterMoves
  <2> QED  BY <2>6
<1>10. CASE Crash(c)
  <2> DEFINE r == [run[c] EXCEPT !.phase = "delay"]
             v == [info[i] EXCEPT !.status = "crashed"]
  <2>1. r \in RunRecord /\ r.phase = "delay" /\ r.by = run[c].by /\ r.wid = run[c].wid
        /\ r.info = run[c].info
    BY <1>2 DEF RunRecord, Awaiting
  <2>2. v \in InfoRecord /\ v.ended = info[i].ended /\ v.status # "cancelled"
    BY <1>3 DEF InfoRecord
  <2>3. run' = [run EXCEPT ![c] = r] /\ info' = [info EXCEPT ![i] = v]
    BY <1>2, <1>3, <1>4, <1>10 DEF Crash, Goes, SetStatus
  <2>4. UNCHANGED <<sup, polled, answer, pool, handle, delivered>>
    BY <1>10 DEF Crash
  <2> HIDE DEF r, v
  <2>5. Moves(c, r)
    BY <1>1, <2>1, <2>2, <2>3, <2>4, WriterMoves
  <2> QED  BY <2>5
<1> QED  BY <1>6, <1>7, <1>8, <1>9, <1>10

\* What is CANCELLED, with no restarted coroutine, stays so in a step.
CancelsKept == \A i \in Run : info[i].status = "cancelled" /\ ~Restarted(i) =>
                                info'[i].status = "cancelled"

LEMMA MovesKeepCancels ==
  ASSUME SupInv, NEW c \in Run, NEW r, Moves(c, r)
  PROVE  CancelsKept
<1> SUFFICES ASSUME NEW i \in Run, info[i].status = "cancelled", ~Restarted(i),
                    info'[i] # info[i]
             PROVE  FALSE
  BY DEF CancelsKept
<1>1. Original(i) /\ run[i].wid = run[c].wid /\ Live(c) /\ Used(c)
  BY DEF Moves, Live, Used, Awaiting
<1>2. run[i].phase = "done"
  BY DEF SupInv, CancelledIsDone
<1>3. c # i
  BY <1>1, <1>2 DEF Live, Awaiting
<1>4. ~Original(c)
  BY <1>1, <1>3 DEF SupInv, IdsLead
<1>5. CreatedBy(c, "restart")
  BY <1>1, <1>4 DEF Original, Used, CreatedBy
<1> QED  BY <1>1, <1>5 DEF Restarted

-----------------------------------------------------------------------------
\* cancel_worker and stop()

LEMMA CancelInv ==
  ASSUME SupInv, NEW W \in SUBSET Handled,
         run' = RunsCancelled({handle[w] : w \in W}), info' = InfosCancelled(W),
         sup' = sup \/ (sup' \in {"stopping", "stopped"} /\ sup # "stopped" /\ answer = {}),
         polled' = polled \/ polled' = 0,
         UNCHANGED <<answer, pool, handle, delivered>>
  PROVE  SupInv' /\ CancelsKept
<1> DEFINE C == {handle[w] : w \in W}
<1>1. \A w \in W : /\ handle[w] \in Run /\ pool[w] = handle[w]
                   /\ Original(handle[w]) /\ run[handle[w]].wid = w
  BY DEF Handled, SupInv, Shape, IdsLead, Run
<1>2. C \subseteq Run /\ \A c \in C : Original(c)
  BY <1>1
<1>3. \A c \in Run : run'[c] = IF c \in C /\ Live(c) THEN Over(run[c]) ELSE run[c]
  BY DEF RunsCancelled, Live
<1>4. \A c \in Run : Live(c) => run[c] \in RunRecord
  BY DEF SupInv, Shape, NoRun, Live, Awaiting
<1>5. \A c \in Run : c \in C /\ Live(c) => /\ run'[c] \in RunRecord /\ run'[c].by = run[c].by
                                          /\ run'[c].wid = run[c].wid /\ run'[c].phase = "done"
  BY <1>3, <1>4, OverTyped
<1>6. run' \in [Run -> {NoRun} \cup RunRecord]
  <2>1. \A c \in Run : run'[c] \in {NoRun} \cup RunRecord
    BY <1>3, <1>5 DEF SupInv, Shape
  <2>2. run' = [c \in Run |-> run'[c]]
    BY DEF RunsCancelled
  <2> QED  BY <2>1, <2>2
<1> HIDE DEF C
<1>7. SameRuns
  <2> SUFFICES ASSUME NEW c \in Run
               PROVE  /\ Used(c)' <=> Used(c)
                      /\ Used(c) => run'[c].by = run[c].by /\ run'[c].wid = run[c].wid
                      /\ Live(c)' => Live(c)
    BY DEF SameRuns
  <2>1. CASE c \in C /\ Live(c)
    BY <1>5, <2>1 DEF Used, Live, Awaiting
  <2>2. CASE ~(c \in C /\ Live(c))
    BY <1>3, <2>2 DEF Used, Live
  <2> QED  BY <2>1, <2>2
<1>8. /\ \A d \in Run : Original(d)' <=> Original(d)
      /\ \A d \in Run : Original(d) /\ Restarted(d) => Restarted(d)'
      /\ Unused' = Unused /\ IdsLead'
  BY <1>7, SameRunsKeep DEF SupInv
<1>9. \A i \in Run : /\ i \in C => info'[i].status = "cancelled"
                     /\ i \notin C => info'[i] = info[i]
                     /\ info'[i] \in InfoRecord
  <2> SUFFICES ASSUME NEW i \in Run
               PROVE  /\ i \in C => info'[i].status = "cancelled"
                      /\ i \notin C => info'[i] = info[i]
                      /\ info'[i] \in InfoRecord
    OBVIOUS
  <2>1. info[i] \in InfoRecord
    BY DEF SupInv, Shape
  <2>2. \A w \in W : run[handle[w]].phase \in Awaiting => run[handle[w]].info = handle[w]
    BY <1>1, OwnInfo
  <2>3. \A w \in W : handle[w] \in C
    BY DEF C
  <2>4. i \in C <=> \E w \in W : pool[w] = i
    BY <1>1 DEF C
  <2>5. StatusCancelled(i, W) = IF i \in C THEN "cancelled" ELSE info[i].status
    BY <2>2, <2>3, <2>4 DEF StatusCancelled
  <2>6. (\E w \in W : /\ handle[w] # 0 /\ run[handle[w]].phase \in Awaiting
                      /\ run[handle[w]].info = i) => i \in C
    BY <2>2, <2>3
  <2>7. /\ info'[i].status = StatusCancelled(i, W)
        /\ info'[i].ended \in {"fresh", info[i].ended}
        /\ i \notin C => info'[i].ended = info[i].ended
        /\ info'[i] = [status |-> info'[i].status, ended |-> info'[i].ended]
    BY <2>6 DEF InfosCancelled
  <2>8. info[i] = [status |-> info[i].status, ended |-> info[i].ended]
    BY <2>1 DEF InfoRecord
  <2>9. i \notin C => info'[i] = info[i]
    BY <2>5, <2>7, <2>8
  <2>10. info'[i].status \in {"cancelled", info[i].status}
    BY <2>5, <2>7
  <2>11. info'[i] \in InfoRecord
    BY <2>1, <2>7, <2>10 DEF InfoRecord
  <2> QED  BY <2>5, <2>7, <2>9, <2>11
<1>10. Shape'
  <2>1. info' = [i \in Run |-> info'[i]]
    BY DEF InfosCancelled
  <2>2. info' \in [Run -> InfoRecord]
    BY <1>9, <2>1
  <2>3. sup' \in {"running", "stopping", "stopped"} /\ polled' \in 0..MaxWorkers
    BY DEF SupInv, Shape
  <2> QED  BY <1>6, <2>2, <2>3 DEF SupInv, Shape
<1>11. StepsLeft'
  <2> SUFFICES ASSUME NEW d \in Run, run'[d].phase \in Busy PROVE run'[d].steps < MaxSteps
    BY DEF StepsLeft
  <2>1. run'[d] = run[d]
    BY <1>3, <1>5 DEF Busy
  <2> QED  BY <2>1 DEF SupInv, StepsLeft
<1>12. AnswerFits'
  BY <1>8 DEF SupInv, AnswerFits
<1>13. WritersMatch'
  <2> SUFFICES ASSUME NEW d \in Run, run'[d].phase \in Awaiting
               PROVE  /\ run'[d].info \in Run /\ Original(run[d].info)'
                      /\ run'[run'[d].info].wid = run'[d].wid
    BY DEF WritersMatch
  <2>1. run'[d] = run[d]
    BY <1>3, <1>5 DEF Awaiting
  <2> DEFINE i == run[d].info
  <2>2. i \in Run /\ Original(i) /\ run[i].wid = run[d].wid
    BY <2>1 DEF SupInv, WritersMatch
  <2> HIDE DEF i
  <2>3. run'[i].phase # "unused" /\ run'[i].by # "restart" /\ run'[i].wid = run[d].wid
    BY <1>7, <2>2 DEF SameRuns, Original, Used
  <2>4. run'[d].info = i
    BY <2>1 DEF i
  <2> QED  BY <2>1, <2>2, <2>3, <2>4 DEF Original, Used
<1>14. SpawnedTracked'
  <2> SUFFICES ASSUME NEW d \in Run, Original(d)', Live(d)'
               PROVE  /\ pool[run'[d].wid] = d /\ (handle[run'[d].wid] = d \/ sup' = "stopped")
                      /\ info'[d].ended = "no"
                      /\ Working(d)' => info'[d].status = "running"
    BY DEF SpawnedTracked
  <2>1. Original(d) /\ Live(d)
    BY <1>7, <1>8 DEF SameRuns
  <2>2. d \notin C
    BY <1>5, <2>1 DEF Live, Awaiting
  <2>3. run'[d] = run[d] /\ info'[d] = info[d]
    BY <1>3, <1>9, <2>2
  <2> QED  BY <2>1, <2>3 DEF SupInv, SpawnedTracked, Working
<1>15. CancelledIsDone'
  <2> SUFFICES ASSUME NEW i \in Run
               PROVE  /\ ~Original(i)' => info'[i].status = "none"
                      /\ info'[i].status = "cancelled" /\ ~Restarted(i)' => run'[i].phase = "done"
    BY DEF CancelledIsDone
  <2>1. CASE i \in C
    <3>1. Original(i)'
      BY <1>2, <1>8, <2>1
    <3>2. run'[i].phase = "done"
      <4>1. CASE Live(i)
        BY <1>5, <2>1, <4>1
      <4>2. CASE ~Live(i)
        <5>1. Used(i) /\ run'[i] = run[i] /\ run[i] \in {NoRun} \cup RunRecord
          BY <1>2, <1>3, <2>1, <4>2 DEF Original, SupInv, Shape
        <5> QED  BY <4>2, <5>1 DEF Live, Used, NoRun, RunRecord
      <4> QED  BY <4>1, <4>2
    <3> QED  BY <3>1, <3>2
  <2>2. CASE i \notin C
    <3>1. info'[i] = info[i] /\ run'[i] = run[i]
      BY <1>3, <1>9, <2>2
    <3>2. info[i].status = "cancelled" => Original(i)
      BY DEF SupInv, CancelledIsDone
    <3> QED  BY <1>8, <3>1, <3>2 DEF SupInv, CancelledIsDone
  <2> QED  BY <2>1, <2>2
<1>16. SlotsSuffice'
  <2>1. ASSUME NEW d \in Run, d \in Taken' PROVE d \in Taken
    <3>1. Used(d)' /\ run'[d].by = "listener" /\ run'[d].phase \in Busy
      BY <2>1 DEF Taken
    <3>2. run'[d] = run[d]
      BY <1>3, <1>5, <3>1 DEF Busy
    <3> QED  BY <3>1, <3>2 DEF Taken, Used
  <2>2. Taken' \subseteq Taken
    BY <2>1 DEF Taken
  <2> QED  BY <2>2, SlotsKept DEF SupInv
<1>17. CancelsKept
  BY <1>9 DEF CancelsKept
<1> QED  BY <1>8, <1>10, <1>11, <1>12, <1>13, <1>14, <1>15, <1>16, <1>17 DEF SupInv

-----------------------------------------------------------------------------
\* A worker is restarted after a crash

LEMMA RestartInv ==
  ASSUME SupInv, answer = {}, NEW c \in Run, Restart(c)
  PROVE  SupInv' /\ CancelsKept
<1> DEFINE f == Fresh
           i == run[c].info
           r == Over(run[c])
           q == NewRun(run[c].wid, "restart")
<1>1. /\ run[c].phase = "delay" /\ Unused # {}
      /\ run' = [run EXCEPT ![c] = r, ![f] = q]
      /\ info' = [info EXCEPT ![i] = Ended(info[i])]
      /\ UNCHANGED <<sup, polled, answer, pool, handle, delivered>>
  BY DEF Restart
<1>2. f \in Run /\ ~Used(f) /\ f \in Unused
  BY <1>1, FreshIsUnused DEF Unused, Used
<1>3. /\ run[c] \in RunRecord /\ Used(c) /\ Live(c) /\ i \in Run /\ Original(i)
      /\ run[i].wid = run[c].wid
  BY <1>1, OwnInfo DEF Awaiting
<1>4. f # c /\ f # i
  BY <1>2, <1>3 DEF Original
<1>5. r \in RunRecord /\ r.by = run[c].by /\ r.wid = run[c].wid /\ r.phase = "done"
  BY <1>3, OverTyped
<1>6. /\ q \in RunRecord /\ q.by = "restart" /\ q.wid = run[c].wid /\ q.phase = "created"
      /\ q.steps = 0
  <2>1. 0 \in 0..MaxRuns /\ 0 \in 0..MaxSteps /\ run[c].wid \in Wid
    BY <1>3 DEF RunRecord
  <2> QED  BY <2>1 DEF NewRun, RunRecord, Creator
<1> HIDE DEF f, i, r, q
<1>7. /\ run \in [Run -> {NoRun} \cup RunRecord] /\ info \in [Run -> InfoRecord]
      /\ IdsLead /\ SpawnedTracked /\ CancelledIsDone /\ WritersMatch
  BY DEF SupInv, Shape
<1>8. /\ run'[c] = r /\ run'[f] = q
      /\ \A d \in Run : d # c /\ d # f => run'[d] = run[d]
  BY <1>1, <1>2, <1>4, <1>7
<1>9. /\ info' \in [Run -> InfoRecord]
      /\ \A d \in Run : info'[d].status = info[d].status /\ (d # i => info'[d] = info[d])
  <2>1. Ended(info[i]) \in InfoRecord /\ Ended(info[i]).status = info[i].status
    BY <1>3, <1>7 DEF Ended, InfoRecord
  <2> QED  BY <1>1, <1>3, <1>7, <2>1
<1>10. \A d \in Run : d # f => /\ Used(d)' <=> Used(d)
                               /\ Used(d) => run'[d].by = run[d].by /\ run'[d].wid = run[d].wid
                               /\ Live(d)' => Live(d) /\ d # c
  <2> SUFFICES ASSUME NEW d \in Run, d # f
               PROVE  /\ Used(d)' <=> Used(d)
                      /\ Used(d) => run'[d].by = run[d].by /\ run'[d].wid = run[d].wid
                      /\ Live(d)' => Live(d) /\ d # c
    OBVIOUS
  <2>1. CASE d = c
    BY <1>3, <1>5, <1>8, <2>1 DEF Used, Live, Awaiting
  <2>2. CASE d # c
    BY <1>8, <2>2 DEF Used, Live
  <2> QED  BY <2>1, <2>2
<1>11. \A d \in Run : Original(d)' <=> Original(d)
  <2> SUFFICES ASSUME NEW d \in Run PROVE Original(d)' <=> Original(d)
    OBVIOUS
  <2>1. CASE d = f
    BY <1>2, <1>6, <1>8, <2>1 DEF Original
  <2>2. CASE d # f
    BY <1>10, <2>2 DEF Original
  <2> QED  BY <2>1, <2>2
<1>12. Shape'
  <2>1. run' \in [Run -> {NoRun} \cup RunRecord]
    BY <1>1, <1>5, <1>6, <1>7
  <2> QED  BY <1>1, <1>9, <2>1 DEF SupInv, Shape
<1>13. StepsLeft'
  <2> SUFFICES ASSUME NEW d \in Run, run'[d].phase \in Busy PROVE run'[d].steps < MaxSteps
    BY DEF StepsLeft
  <2>1. CASE d = f
    BY <1>6, <1>8, <2>1
  <2>2. CASE d = c
    BY <1>5, <1>8, <2>2 DEF Busy
  <2>3. CASE d # f /\ d # c
    BY <1>8, <2>3 DEF SupInv, StepsLeft
  <2> QED  BY <2>1, <2>2, <2>3
<1>14. AnswerFits'
  <2>1. Cardinality(answer') = 0 /\ answer' = {}
    BY <1>1, FS_EmptySet
  <2>2. Unused' \in SUBSET Run
    BY DEF Unused
  <2>3. Cardinality(Unused') \in Nat
    BY <2>2, RunsFinite
  <2> QED  BY <2>1, <2>3 DEF AnswerFits
<1>15. IdsLead'
  <2>1. ASSUME NEW w \in Wid, pool[w] # 0
        PROVE  Original(pool[w])' /\ run'[pool[w]].wid = w
    <3>1. pool[w] \in Run /\ Original(pool[w]) /\ run[pool[w]].wid = w
      BY <1>7, <2>1 DEF SupInv, Shape, IdsLead, Run
    <3>2. pool[w] # f /\ Used(pool[w])
      BY <1>2, <3>1 DEF Original
    <3>3. /\ run'[pool[w]].by = run[pool[w]].by /\ run'[pool[w]].wid = run[pool[w]].wid
          /\ run'[pool[w]].phase # "unused"
      BY <1>10, <3>1, <3>2 DEF Used
    <3> QED  BY <1>1, <3>1, <3>3 DEF Original, Used
  <2>2. ASSUME NEW d \in Run, Used(d)'
        PROVE  \E o \in Run : Original(o)' /\ run'[o].wid = run'[d].wid
    <3>1. PICK e \in Run : Used(e) /\ run[e].wid = run'[d].wid
      BY <1>3, <1>6, <1>8, <1>10, <2>2
    <3>2. PICK o \in Run : Original(o) /\ run[o].wid = run[e].wid
      BY <1>7, <3>1 DEF IdsLead
    <3>3. Original(o)' /\ run'[o].wid = run[o].wid
      BY <1>2, <1>10, <1>11, <3>2 DEF Original
    <3> QED  BY <3>1, <3>2, <3>3
  <2>3. \A d, e \in Run : Original(d)' /\ Original(e)' /\ run'[d].wid = run'[e].wid => d = e
    <3>1. \A d \in Run : Original(d)' => Original(d) /\ run'[d].wid = run[d].wid
      BY <1>2, <1>10, <1>11 DEF Original
    <3> QED  BY <1>7, <3>1 DEF IdsLead
  <2>4. ASSUME NEW d \in Run, NEW e \in Run, Live(d)', Live(e)', run'[d].wid = run'[e].wid
        PROVE  d = e
    <3>1. ASSUME NEW x \in Run, Live(x)', x # f
          PROVE  Live(x) /\ run'[x].wid = run[x].wid /\ run[x].wid # run[c].wid
      <4>1. Live(x) /\ x # c /\ Used(x)
        BY <1>10, <3>1 DEF Live, Used, Awaiting
      <4> QED  BY <1>3, <1>7, <1>10, <3>1, <4>1 DEF IdsLead
    <3>2. CASE d = f \/ e = f
      BY <1>6, <1>8, <2>4, <3>1, <3>2
    <3>3. CASE d # f /\ e # f
      BY <1>7, <2>4, <3>1, <3>3 DEF IdsLead
    <3> QED  BY <3>2, <3>3
  <2>5. \A w \in Wid : handle'[w] # 0 => handle'[w] = pool'[w]
    BY <1>1, <1>7 DEF IdsLead
  <2>6. \A w \in Wid : pool'[w] # 0 => Original(pool[w])' /\ run'[pool'[w]].wid = w
    BY <1>1, <2>1
  <2> QED  BY <1>1, <2>2, <2>3, <2>4, <2>5, <2>6 DEF IdsLead
<1>16. WritersMatch'
  <2> SUFFICES ASSUME NEW d \in Run, run'[d].phase \in Awaiting
               PROVE  /\ run'[d].info \in Run /\ Original(run[d].info)'
                      /\ run'[run'[d].info].wid = run'[d].wid
    BY DEF WritersMatch
  <2>1. d # c /\ d # f
    BY <1>5, <1>6, <1>8 DEF Awaiting
  <2>2. run'[d] = run[d]
    BY <1>8, <2>1
  <2> DEFINE j == run[d].info
  <2>3. j \in Run /\ Original(j) /\ run[j].wid = run[d].wid
    BY <1>7, <2>2 DEF WritersMatch
  <2> HIDE DEF j
  <2>4. j # f
    BY <1>2, <2>3 DEF Original
  <2>5. run'[j].phase # "unused" /\ run'[j].by # "restart" /\ run'[j].wid = run[d].wid
    BY <1>10, <2>3, <2>4 DEF Original, Used
  <2>6. run'[d].info = j
    BY <2>2 DEF j
  <2> QED  BY <2>2, <2>3, <2>5, <2>6 DEF Original, Used
<1>17. SpawnedTracked'
  <2> SUFFICES ASSUME NEW d \in Run, Original(d)', Live(d)'
               PROVE  /\ pool[run'[d].wid] = d /\ (handle[run'[d].wid] = d \/ sup = "stopped")
                      /\ info'[d].ended = "no"
                      /\ Working(d)' => info'[d].status = "running"
    BY <1>1 DEF SpawnedTracked
  <2>1. Original(d) /\ d # f
    BY <1>2, <1>11 DEF Original
  <2>2. Live(d) /\ d # c
    BY <1>10, <2>1
  <2>3. d # i
    BY <1>3, <1>7, <2>2 DEF IdsLead
  <2>4. run'[d] = run[d] /\ info'[d] = info[d]
    BY <1>8, <1>9, <2>1, <2>2, <2>3
  <2> QED  BY <1>7, <2>1, <2>2, <2>4 DEF SpawnedTracked, Working
<1>18. \A d \in Run : Original(d) /\ Restarted(d) => Restarted(d)'
  <2> SUFFICES ASSUME NEW d \in Run, Original(d), NEW e \in Run, CreatedBy(e, "restart"),
                      run[e].wid = run[d].wid
               PROVE  CreatedBy(e, "restart")' /\ run'[e].wid = run'[d].wid
    BY DEF Restarted
  <2>1. Used(e) /\ Used(d) /\ e # f /\ d # f
    BY <1>2 DEF CreatedBy, Used, Original
  <2> QED  BY <1>10, <2>1 DEF CreatedBy, Used
<1>19. CancelledIsDone'
  <2> SUFFICES ASSUME NEW d \in Run
               PROVE  /\ ~Original(d)' => info'[d].status = "none"
                      /\ info'[d].status = "cancelled" /\ ~Restarted(d)' => run'[d].phase = "done"
    BY DEF CancelledIsDone
  <2>1. ~Original(d)' => info'[d].status = "none"
    BY <1>7, <1>9, <1>11 DEF CancelledIsDone
  <2>2. ASSUME info'[d].status = "cancelled", ~Restarted(d)' PROVE run'[d].phase = "done"
    <3>1. info[d].status = "cancelled" /\ Original(d)
      BY <1>7, <1>9, <2>2 DEF CancelledIsDone
    <3>2. run[d].phase = "done" /\ d # f
      BY <1>2, <1>7, <1>18, <2>2, <3>1 DEF CancelledIsDone, Original
    <3> QED  BY <1>5, <1>8, <3>2
  <2> QED  BY <2>1, <2>2
<1>20. SlotsSuffice'
  <2>1. ASSUME NEW d \in Run, d \in Taken' PROVE d \in Taken
    <3>1. Used(d)' /\ run'[d].by = "listener" /\ run'[d].phase \in Busy
      BY <2>1 DEF Taken
    <3>2. d # f /\ d # c
      BY <1>5, <1>6, <1>8, <3>1 DEF Busy
    <3>3. run'[d] = run[d]
      BY <1>8, <3>2
    <3> QED  BY <3>1, <3>3 DEF Taken, Used
  <2>2. Taken' \subseteq Taken
    BY <2>1 DEF Taken
  <2> QED  BY <1>1, <2>2, SlotsKept DEF SupInv
<1>21. CancelsKept
  BY <1>9 DEF CancelsKept
<1> QED  BY <1>12, <1>13, <1>14, <1>15, <1>16, <1>17, <1>19, <1>20, <1>21 DEF SupInv

-----------------------------------------------------------------------------
\* A worker is spawned, with an id that no other was spawned with

LEMMA SpawnInv ==
  ASSUME IdsUnique', SupInv, NEW t \in Task, NEW by \in {"listener", "direct"}, Spawned(t, by),
         Unused # {}, delivered[t] < MaxDeliveries, sup # "stopped",
         \/ by = "listener" /\ t \in answer /\ answer' = answer \ {t}
         \/ by = "direct" /\ answer = {} /\ answer' = {},
         UNCHANGED <<sup, polled>>
  PROVE  SupInv' /\ CancelsKept
<1> DEFINE f == Fresh
           w == NewId(t)
           q == NewRun(w, by)
           v == [status |-> "pending", ended |-> "no"]
<1>1. /\ delivered' = [delivered EXCEPT ![t] = delivered[t] + 1]
      /\ pool' = [pool EXCEPT ![w] = f] /\ handle' = [handle EXCEPT ![w] = f]
      /\ info' = [info EXCEPT ![f] = v] /\ run' = [run EXCEPT ![f] = q]
  BY DEF Spawned
<1>2. f \in Run /\ ~Used(f) /\ f \in Unused /\ f # 0
  BY FreshIsUnused DEF Unused, Used, Run
<1>3. w \in Wid /\ w[1] = Prefix[t]
  BY NewIdTyped DEF SupInv
<1>4. /\ q \in RunRecord /\ q.by = by /\ by # "restart" /\ q.wid = w
      /\ q.phase = "created" /\ q.steps = 0
  <2>1. 0 \in 0..MaxRuns /\ 0 \in 0..MaxSteps
    OBVIOUS
  <2> QED  BY <1>3, <2>1 DEF NewRun, RunRecord, Creator
<1>5. v \in InfoRecord /\ v.status = "pending" /\ v.ended = "no"
  BY DEF InfoRecord
<1> HIDE DEF f, w, q, v
<1>6. /\ run \in [Run -> {NoRun} \cup RunRecord] /\ info \in [Run -> InfoRecord]
      /\ pool \in [Wid -> 0..MaxRuns] /\ handle \in [Wid -> 0..MaxRuns]
      /\ delivered \in [Task -> 0..MaxDeliveries] /\ IdsLead /\ SpawnedTracked
      /\ CancelledIsDone /\ WritersMatch
  BY DEF SupInv, Shape
<1>7. /\ run'[f] = q /\ info'[f] = v /\ pool'[w] = f /\ handle'[w] = f
      /\ \A d \in Run : d # f => run'[d] = run[d] /\ info'[d] = info[d]
      /\ \A x \in Wid : x # w => pool'[x] = pool[x] /\ handle'[x] = handle[x]
      /\ \A u \in Task : u # t => delivered'[u] = delivered[u]
  BY <1>1, <1>2, <1>3, <1>6
<1>8. \A d \in Run : Used(d) => run[d].wid # w
  <2> SUFFICES ASSUME NEW d \in Run, Used(d), run[d].wid = w PROVE FALSE
    OBVIOUS
  <2>1. PICK o \in Run : Original(o) /\ run[o].wid = w
    BY <1>6 DEF IdsLead
  <2>2. o # f /\ run'[o] = run[o]
    BY <1>2, <1>7, <2>1 DEF Original
  <2>3. Original(o)' /\ run'[o].wid = w
    BY <2>1, <2>2 DEF Original, Used
  <2>4. \A e \in Run : /\ run'[e].phase # "unused" /\ run'[e].by # "restart"
                       /\ run'[e].wid = run'[o].wid
                       => e = o
    BY <2>3 DEF IdsUnique, Original, Used
  <2>5. run'[f].phase # "unused" /\ run'[f].by # "restart" /\ run'[f].wid = w
    BY <1>4, <1>7
  <2> QED  BY <1>2, <2>2, <2>3, <2>4, <2>5
<1>9. \A d \in Run : d # f => /\ Used(d)' <=> Used(d)
                              /\ Original(d)' <=> Original(d)
                              /\ Live(d)' <=> Live(d)
  BY <1>7 DEF Used, Original, Live
<1>10. run'[f].phase = "created" /\ run'[f].by = by /\ by # "restart"
  BY <1>4, <1>7
<1>11. Shape'
  <2>1. run' \in [Run -> {NoRun} \cup RunRecord] /\ info' \in [Run -> InfoRecord]
    BY <1>1, <1>2, <1>4, <1>5, <1>6
  <2>2. f \in 0..MaxRuns
    BY <1>2 DEF Run
  <2>3. pool' \in [Wid -> 0..MaxRuns] /\ handle' \in [Wid -> 0..MaxRuns]
    BY <1>1, <2>2, <1>6
  <2>4. delivered' \in [Task -> 0..MaxDeliveries]
    BY <1>1, <1>6
  <2> QED  BY <2>1, <2>3, <2>4 DEF SupInv, Shape
<1>12. StepsLeft'
  <2> SUFFICES ASSUME NEW d \in Run, run'[d].phase \in Busy PROVE run'[d].steps < MaxSteps
    BY DEF StepsLeft
  <2>1. CASE d = f
    BY <1>4, <1>7, <2>1
  <2>2. CASE d # f
    BY <1>7, <2>2 DEF SupInv, StepsLeft
  <2> QED  BY <2>1, <2>2
<1>13. Unused' = Unused \ {f}
  <2>1. f \notin Unused'
    BY <1>10 DEF Unused
  <2>2. \A d \in Run : d # f => (d \in Unused' <=> d \in Unused)
    BY <1>7 DEF Unused
  <2>3. Unused \subseteq Run /\ Unused' \subseteq Run
    BY DEF Unused
  <2> QED  BY <2>1, <2>2, <2>3
<1>14. /\ IsFiniteSet(Unused) /\ Cardinality(Unused') = Cardinality(Unused) - 1
       /\ Cardinality(Unused) \in Nat /\ Cardinality(Unused') \in Nat
  <2>1. Unused \in SUBSET Run /\ Unused' \in SUBSET Run
    BY DEF Unused
  <2> QED  BY <1>2, <1>13, <2>1, RunsFinite, FS_RemoveElement
<1>15. /\ IsFiniteSet(answer) /\ Cardinality(answer) \in Nat
       /\ by = "listener" => Cardinality(answer') = Cardinality(answer) - 1
       /\ by = "direct" => Cardinality(answer) = 0 /\ Cardinality(answer') = 0
  <2>1. IsFiniteSet(answer) /\ Cardinality(answer) \in Nat
    BY FS_Subset, FS_CardinalityType DEF SupInv, Shape
  <2>2. by = "listener" => Cardinality(answer') = Cardinality(answer) - 1
    BY <2>1, FS_RemoveElement
  <2>3. by = "direct" => Cardinality(answer) = 0 /\ Cardinality(answer') = 0
    BY FS_EmptySet
  <2> QED  BY <2>1, <2>2, <2>3
<1>16. AnswerFits'
  <2>1. Cardinality(answer') <= Cardinality(Unused')
    BY <1>14, <1>15 DEF SupInv, AnswerFits
  <2>2. \A u \in answer' : delivered'[u] < MaxDeliveries
    BY <1>7 DEF SupInv, AnswerFits, Shape
  <2> QED  BY <2>1, <2>2 DEF AnswerFits
<1>17. \A x \in Wid : pool[x] # 0 =>
         pool[x] \in Run /\ pool[x] # f /\ Original(pool[x]) /\ run[pool[x]].wid = x /\ x # w
  <2> SUFFICES ASSUME NEW x \in Wid, pool[x] # 0
               PROVE  pool[x] \in Run /\ pool[x] # f /\ Original(pool[x])
                      /\ run[pool[x]].wid = x /\ x # w
    OBVIOUS
  <2>1. pool[x] \in Run
    BY <1>6 DEF Run
  <2>2. Original(pool[x]) /\ run[pool[x]].wid = x
    BY <1>6 DEF IdsLead
  <2> QED  BY <1>2, <1>8, <2>1, <2>2 DEF Original
<1>18. IdsLead'
  <2>1. ASSUME NEW x \in Wid, pool'[x] # 0
        PROVE  Original(pool[x])' /\ run'[pool'[x]].wid = x
    <3>1. CASE x = w
      BY <1>4, <1>7, <3>1 DEF Original, Used
    <3>2. CASE x # w
      <4> DEFINE d == pool[x]
      <4>1. pool'[x] = d
        BY <1>7, <3>2
      <4>2. d \in Run /\ d # f /\ Original(d) /\ run[d].wid = x
        BY <1>17, <2>1, <4>1
      <4> HIDE DEF d
      <4> QED  BY <1>7, <4>1, <4>2 DEF Original, Used
    <3> QED  BY <3>1, <3>2
  <2>2. \A x \in Wid : handle'[x] # 0 => handle'[x] = pool'[x]
    BY <1>6, <1>7 DEF IdsLead
  <2>3. ASSUME NEW d \in Run, Used(d)'
        PROVE  \E o \in Run : Original(o)' /\ run'[o].wid = run'[d].wid
    <3>1. CASE d = f
      <4>1. Original(d)'
        BY <1>10, <3>1 DEF Original, Used
      <4> QED  BY <4>1
    <3>2. CASE d # f
      <4>1. PICK o \in Run : Original(o) /\ run[o].wid = run[d].wid
        BY <1>6, <1>9, <2>3, <3>2 DEF IdsLead
      <4>2. o # f
        BY <1>2, <4>1 DEF Original
      <4> QED  BY <1>7, <1>9, <3>2, <4>1, <4>2
    <3> QED  BY <3>1, <3>2
  <2>4. \A d \in Run : d # f /\ Used(d)' => run'[d].wid # w
    BY <1>8, <1>7, <1>9
  <2>5. \A d, e \in Run : Original(d)' /\ Original(e)' /\ run'[d].wid = run'[e].wid => d = e
    <3> SUFFICES ASSUME NEW d \in Run, NEW e \in Run, Original(d)', Original(e)',
                        run'[d].wid = run'[e].wid
                 PROVE  d = e
      OBVIOUS
    <3>1. CASE d = f \/ e = f
      BY <1>4, <1>7, <2>4, <3>1 DEF Original
    <3>2. CASE d # f /\ e # f
      BY <1>6, <1>7, <1>9, <3>2 DEF IdsLead
    <3> QED  BY <3>1, <3>2
  <2>6. \A d, e \in Run : Live(d)' /\ Live(e)' /\ run'[d].wid = run'[e].wid => d = e
    <3> SUFFICES ASSUME NEW d \in Run, NEW e \in Run, Live(d)', Live(e)',
                        run'[d].wid = run'[e].wid
                 PROVE  d = e
      OBVIOUS
    <3>1. CASE d = f \/ e = f
      <4>1. Used(d)' /\ Used(e)'
        BY DEF Live, Used, Awaiting
      <4> QED  BY <1>4, <1>7, <2>4, <3>1, <4>1
    <3>2. CASE d # f /\ e # f
      BY <1>6, <1>7, <1>9, <3>2 DEF IdsLead
    <3> QED  BY <3>1, <3>2
  <2> QED  BY <2>1, <2>2, <2>3, <2>5, <2>6 DEF IdsLead
<1>19. WritersMatch'
  <2> SUFFICES ASSUME NEW d \in Run, run'[d].phase \in Awaiting
               PROVE  /\ run'[d].info \in Run /\ Original(run[d].info)'
                      /\ run'[run'[d].info].wid = run'[d].wid
    BY DEF WritersMatch
  <2>1. d # f
    BY <1>4, <1>7 DEF Awaiting
  <2>2. run'[d] = run[d]
    BY <1>7, <2>1
  <2> DEFINE j == run[d].info
  <2>3. j \in Run /\ Original(j) /\ run[j].wid = run[d].wid
    BY <1>6, <2>2 DEF WritersMatch
  <2> HIDE DEF j
  <2>4. j # f
    BY <1>2, <2>3 DEF Original
  <2>5. run'[j] = run[j] /\ run'[d].info = j
    BY <1>7, <2>2, <2>3, <2>4 DEF j
  <2> QED  BY <2>2, <2>3, <2>5 DEF Original, Used
<1>20. SpawnedTracked'
  <2> SUFFICES ASSUME NEW d \in Run, Original(d)', Live(d)'
               PROVE  /\ pool'[run'[d].wid] = d /\ (handle'[run'[d].wid] = d \/ sup = "stopped")
                      /\ info'[d].ended = "no"
                      /\ Working(d)' => info'[d].status = "running"
    BY DEF SpawnedTracked
  <2>1. CASE d = f
    BY <1>4, <1>5, <1>7, <2>1 DEF Working
  <2>2. CASE d # f
    <3>1. Original(d) /\ Live(d) /\ Used(d)
      BY <1>9, <2>2 DEF Original
    <3>2. run[d].wid # w /\ run[d].wid \in Wid
      BY <1>6, <1>8, <3>1 DEF Used, NoRun, RunRecord
    <3> QED  BY <1>6, <1>7, <2>2, <3>1, <3>2 DEF SpawnedTracked, Working
  <2> QED  BY <2>1, <2>2
<1>21. \A d \in Run : Original(d) /\ Restarted(d) => Restarted(d)'
  <2> SUFFICES ASSUME NEW d \in Run, Original(d), NEW e \in Run, CreatedBy(e, "restart"),
                      run[e].wid = run[d].wid
               PROVE  CreatedBy(e, "restart")' /\ run'[e].wid = run'[d].wid
    BY DEF Restarted
  <2>1. e # f /\ d # f
    BY <1>2 DEF CreatedBy, Used, Original
  <2> QED  BY <1>7, <2>1 DEF CreatedBy
<1>22. CancelledIsDone'
  <2> SUFFICES ASSUME NEW d \in Run
               PROVE  /\ ~Original(d)' => info'[d].status = "none"
                      /\ info'[d].status = "cancelled" /\ ~Restarted(d)' => run'[d].phase = "done"
    BY DEF CancelledIsDone
  <2>1. CASE d = f
    <3>1. Original(d)'
      BY <1>10, <2>1 DEF Original, Used
    <3> QED  BY <1>5, <1>7, <2>1, <3>1
  <2>2. CASE d # f
    <3>1. info[d].status = "cancelled" => Original(d)
      BY <1>6 DEF CancelledIsDone
    <3> QED  BY <1>6, <1>7, <1>9, <1>21, <2>2, <3>1 DEF CancelledIsDone
  <2> QED  BY <2>1, <2>2
<1>23. SlotsSuffice'
  <2>1. Taken \in SUBSET Run /\ f \notin Taken
    BY <1>2 DEF Taken
  <2>2. IsFiniteSet(Taken) /\ Cardinality(Taken) \in Nat
    BY <2>1, RunsFinite
  <2>3. \A d \in Run : d # f => (d \in Taken' <=> d \in Taken)
    BY <1>7, <1>9 DEF Taken
  <2>4. by = "listener" => Taken' = Taken \cup {f}
    <3>1. by = "listener" => f \in Taken'
      BY <1>2, <1>10 DEF Taken, Used, Busy
    <3>2. Taken' \subseteq Run
      BY DEF Taken
    <3> QED  BY <2>1, <2>3, <3>1, <3>2
  <2>5. by = "direct" => Taken' = Taken
    <3>1. by = "direct" => f \notin Taken'
      BY <1>10 DEF Taken
    <3>2. Taken' \subseteq Run
      BY DEF Taken
    <3> QED  BY <2>1, <2>3, <3>1, <3>2
  <2>6. Cardinality(Taken \cup {f}) = Cardinality(Taken) + 1
    <3>1. IsFiniteSet(Taken) /\ f \notin Taken
      BY <2>1, <2>2
    <3> QED  BY <3>1, OneMore, Zenon
  <2>7. Cardinality(Taken) + Cardinality(answer) + polled <= MaxWorkers /\ polled \in Nat
    BY DEF SupInv, SlotsSuffice, Shape
  <2>8. Cardinality(Taken') + Cardinality(answer') = Cardinality(Taken) + Cardinality(answer)
    <3>1. CASE by = "listener"
      <4>1. Cardinality(Taken') = Cardinality(Taken) + 1
        BY <2>4, <2>6, <3>1, Zenon
      <4>2. /\ Cardinality(answer') = Cardinality(answer) - 1
            /\ Cardinality(answer) \in Nat /\ Cardinality(Taken) \in Nat
        BY <1>15, <2>2, <3>1
      <4> QED  BY <4>1, <4>2
    <3>2. CASE by = "direct"
      BY <1>15, <2>2, <2>5, <3>2
    <3> QED  BY <3>1, <3>2
  <2>9. Cardinality(Taken') + Cardinality(answer') + polled <= MaxWorkers
    BY <2>7, <2>8
  <2> QED  BY <2>9 DEF SlotsSuffice
<1>24. CancelsKept
  <2> SUFFICES ASSUME NEW d \in Run, info[d].status = "cancelled"
               PROVE  info'[d].status = "cancelled"
    BY DEF CancelsKept
  <2>1. d # f
    BY <1>2, <1>6 DEF CancelledIsDone, Original
  <2> QED  BY <1>7, <2>1
<1> QED  BY <1>11, <1>12, <1>16, <1>18, <1>19, <1>20, <1>22, <1>23, <1>24 DEF SupInv

-----------------------------------------------------------------------------
\* The listener's poll, and the loops

\* A taken slot shows in the pool as a running worker, once the listener's coroutines
\* of an earlier round have started.
LEMMA TakenAreActive ==
  ASSUME SupInv, ~\E c \in Run : Created(c, "listener")
  PROVE  Cardinality(Taken) <= ActiveWorkers /\ ActiveWorkers \in Nat
<1> DEFINE P == {w \in Pooled : info[pool[w]].status = "running"}
           g == [c \in Taken |-> run[c].wid]
<1>1. ASSUME NEW c \in Taken
      PROVE  Original(c) /\ run[c].wid \in P
  <2>1. c \in Run /\ Used(c) /\ run[c].by = "listener" /\ run[c].phase \in Busy
    BY DEF Taken
  <2>2. Working(c)
    BY <2>1 DEF Created, Busy, Working
  <2>3. Original(c) /\ Live(c)
    BY <2>1, <2>2 DEF Original, Live, Working, Awaiting
  <2>4. pool[run[c].wid] = c /\ info[c].status = "running"
    BY <2>1, <2>2, <2>3 DEF SupInv, SpawnedTracked
  <2>5. run[c].wid \in Wid
    BY <2>1 DEF SupInv, Shape, Used, NoRun, RunRecord
  <2>6. c # 0
    BY <2>1 DEF Run
  <2> QED  BY <2>3, <2>4, <2>5, <2>6 DEF Pooled
<1>2. \A c, d \in Taken : run[c].wid = run[d].wid => c = d
  BY <1>1 DEF SupInv, IdsLead, Taken
<1> HIDE DEF P
<1>3. g \in Injection(Taken, P)
  BY <1>1, <1>2 DEF Injection, IsInjective
<1>4. IsFiniteSet(P) /\ Cardinality(P) \in Nat
  <2>1. IsFiniteSet(Pooled) /\ P \subseteq Pooled
    BY PoolCounted DEF SupInv, P
  <2> QED  BY <2>1, FS_Subset, FS_CardinalityType
<1>5. Cardinality(Taken) <= Cardinality(P)
  BY <1>3, <1>4, FS_Injection
<1> QED  BY <1>4, <1>5 DEF ActiveWorkers, P

LEMMA PollInv ==
  ASSUME SupInv, answer = {}, Poll
  PROVE  SupInv' /\ CancelsKept
<1>1. Cardinality(Taken) <= ActiveWorkers /\ ActiveWorkers \in Nat
  BY TakenAreActive DEF Poll
<1>2. /\ polled' = MaxWorkers - ActiveWorkers /\ MaxWorkers > ActiveWorkers
      /\ UNCHANGED <<sup, answer, pool, handle, info, run, delivered>>
  BY DEF Poll
<1>3. polled' \in 0..MaxWorkers
  BY <1>1, <1>2
<1>4. Taken \in SUBSET Run
  BY DEF Taken
<1>5. Cardinality(Taken) \in Nat
  BY <1>4, RunsFinite
<1>6. Taken' = Taken
  BY <1>2 DEF Taken, Used
<1>7. SlotsSuffice'
  <2>1. Cardinality(answer') = 0
    BY <1>2, FS_EmptySet
  <2> QED  BY <1>1, <1>2, <1>5, <1>6, <2>1 DEF SlotsSuffice
<1>8. Shape'
  BY <1>2, <1>3 DEF SupInv, Shape
<1>9. StepsLeft' /\ AnswerFits' /\ IdsLead' /\ WritersMatch' /\ SpawnedTracked' /\ CancelledIsDone'
  BY <1>2 DEF SupInv, StepsLeft, AnswerFits, IdsLead, WritersMatch, SpawnedTracked,
              CancelledIsDone, Unused, Used, Original, Live, Working, Restarted, CreatedBy
<1> QED  BY <1>2, <1>7, <1>8, <1>9 DEF SupInv, CancelsKept

LEMMA AnswerInv ==
  ASSUME SupInv, answer = {}, NEW S \in SUBSET Task, Answer(S)
  PROVE  SupInv' /\ CancelsKept
<1>1. /\ polled # 0 /\ sup # "stopped" /\ polled' = 0 /\ answer' = S
      /\ Cardinality(S) <= polled /\ Cardinality(S) <= Cardinality(Unused)
      /\ UNCHANGED <<sup, pool, handle, info, run, delivered>>
  BY DEF Answer
<1>2. \A t \in S : delivered[t] < MaxDeliveries
  BY DEF Answer
<1>3. Cardinality(S) \in Nat
  BY FS_Subset, FS_CardinalityType
<1>4. Taken \in SUBSET Run
  BY DEF Taken
<1>5. Cardinality(Taken) \in Nat
  BY <1>4, RunsFinite
<1>6. Taken' = Taken /\ Unused' = Unused
  BY <1>1 DEF Taken, Used, Unused
<1>7. SlotsSuffice'
  <2>1. Cardinality(answer) = 0
    BY FS_EmptySet
  <2> QED  BY <1>1, <1>3, <1>5, <1>6, <2>1 DEF SupInv, SlotsSuffice, Shape
<1>8. Shape'
  BY <1>1 DEF SupInv, Shape
<1>9. AnswerFits'
  BY <1>1, <1>2, <1>6 DEF AnswerFits
<1>10. StepsLeft' /\ IdsLead' /\ WritersMatch' /\ SpawnedTracked' /\ CancelledIsDone'
  BY <1>1 DEF SupInv, StepsLeft, IdsLead, WritersMatch, SpawnedTracked,
              CancelledIsDone, Used, Original, Live, Working, Restarted, CreatedBy
<1> QED  BY <1>1, <1>7, <1>8, <1>9, <1>10 DEF SupInv, CancelsKept

LEMMA StoppedInv ==
  ASSUME SupInv, answer = {}, Stopped
  PROVE  SupInv' /\ CancelsKept
<1>1. /\ sup' = "stopped" /\ polled' = 0 /\ handle' = [w \in Wid |-> 0]
      /\ UNCHANGED <<answer, pool, info, run, delivered>>
  BY DEF Stopped
<1>2. Shape'
  BY <1>1 DEF SupInv, Shape
<1>3. Taken' = Taken /\ Unused' = Unused
  BY <1>1 DEF Taken, Used, Unused
<1>4. SlotsSuffice'
  BY <1>1, <1>3, SlotsKept DEF SupInv
<1>5. AnswerFits'
  BY <1>1, <1>3 DEF SupInv, AnswerFits
<1>6. StepsLeft' /\ WritersMatch' /\ CancelledIsDone'
  BY <1>1 DEF SupInv, StepsLeft, WritersMatch, CancelledIsDone, Used, Original, Live,
              Restarted, CreatedBy
<1>7. IdsLead'
  BY <1>1 DEF SupInv, IdsLead, Used, Original, Live
<1>8. SpawnedTracked'
  BY <1>1 DEF SupInv, SpawnedTracked, Used, Original, Live, Working
<1> QED  BY <1>1, <1>2, <1>4, <1>5, <1>6, <1>7, <1>8 DEF SupInv, CancelsKept

LEMMA CleanupInv ==
  ASSUME SupInv, answer = {}, Cleanup
  PROVE  SupInv' /\ CancelsKept
<1>1. /\ pool' = [w \in Wid |-> IF Expired(w) THEN 0 ELSE pool[w]]
      /\ handle' = [w \in Wid |-> IF Expired(w) THEN 0 ELSE handle[w]]
      /\ UNCHANGED <<sup, polled, answer, info, run, delivered>>
  BY DEF Cleanup
<1>2. Shape'
  BY <1>1 DEF SupInv, Shape
<1>3. Taken' = Taken /\ Unused' = Unused
  BY <1>1 DEF Taken, Used, Unused
<1>4. SlotsSuffice'
  BY <1>1, <1>3, SlotsKept DEF SupInv
<1>5. AnswerFits'
  BY <1>1, <1>3 DEF SupInv, AnswerFits
<1>6. StepsLeft' /\ WritersMatch' /\ CancelledIsDone'
  BY <1>1 DEF SupInv, StepsLeft, WritersMatch, CancelledIsDone, Used, Original, Live,
              Restarted, CreatedBy
<1>7. \A w \in Wid : /\ pool'[w] # 0 => pool'[w] = pool[w] /\ handle'[w] = handle[w]
                     /\ handle'[w] # 0 => handle'[w] = handle[w] /\ pool'[w] = pool[w]
                     /\ ~Expired(w) => handle'[w] = handle[w] /\ pool'[w] = pool[w]
  BY <1>1
<1>8. IdsLead'
  <2>1. ASSUME NEW w \in Wid, pool'[w] # 0
        PROVE  Original(pool[w])' /\ run'[pool'[w]].wid = w
    <3>1. pool'[w] = pool[w] /\ Original(pool[w]) /\ run[pool[w]].wid = w
      BY <1>7, <2>1 DEF SupInv, IdsLead
    <3> QED  BY <1>1, <3>1 DEF Original, Used
  <2>2. \A w \in Wid : handle'[w] # 0 => handle'[w] = pool'[w]
    BY <1>7 DEF SupInv, IdsLead
  <2> QED  BY <1>1, <2>1, <2>2 DEF SupInv, IdsLead, Used, Original, Live
<1>9. SpawnedTracked'
  <2> SUFFICES ASSUME NEW d \in Run, Original(d), Live(d)
               PROVE  /\ pool'[run[d].wid] = d /\ (handle'[run[d].wid] = d \/ sup = "stopped")
                      /\ info[d].ended = "no"
                      /\ Working(d) => info[d].status = "running"
    BY <1>1 DEF SpawnedTracked, Used, Original, Live, Working
  <2>1. /\ pool[run[d].wid] = d /\ (handle[run[d].wid] = d \/ sup = "stopped")
        /\ info[d].ended = "no" /\ (Working(d) => info[d].status = "running")
    BY DEF SupInv, SpawnedTracked
  <2>2. run[d].wid \in Wid /\ ~Expired(run[d].wid)
    BY <2>1 DEF SupInv, Shape, Original, Used, NoRun, RunRecord, Expired
  <2> QED  BY <1>7, <2>1, <2>2
<1> QED  BY <1>1, <1>2, <1>4, <1>5, <1>6, <1>8, <1>9 DEF SupInv, CancelsKept

LEMMA TickInv ==
  ASSUME SupInv, answer = {}, Tick
  PROVE  SupInv' /\ CancelsKept
<1>1. /\ info' = [i \in Run |-> IF info[i].ended = "fresh" THEN [info[i] EXCEPT !.ended = "old"]
                                ELSE info[i]]
      /\ UNCHANGED <<sup, polled, answer, pool, handle, run, delivered>>
  BY DEF Tick
<1>2. \A i \in Run : /\ info'[i] \in InfoRecord /\ info'[i].status = info[i].status
                     /\ info[i].ended = "no" => info'[i].ended = "no"
  <2> SUFFICES ASSUME NEW i \in Run
               PROVE  /\ info'[i] \in InfoRecord /\ info'[i].status = info[i].status
                      /\ info[i].ended = "no" => info'[i].ended = "no"
    OBVIOUS
  <2>1. info[i] \in InfoRecord
    BY DEF SupInv, Shape
  <2> QED  BY <1>1, <2>1 DEF InfoRecord
<1>3. info' \in [Run -> InfoRecord]
  BY <1>1, <1>2
<1>4. Shape'
  BY <1>1, <1>3 DEF SupInv, Shape
<1>5. Taken' = Taken /\ Unused' = Unused
  BY <1>1 DEF Taken, Used, Unused
<1>6. SlotsSuffice'
  BY <1>1, <1>5, SlotsKept DEF SupInv
<1>7. StepsLeft' /\ AnswerFits' /\ IdsLead' /\ WritersMatch'
  BY <1>1, <1>5 DEF SupInv, StepsLeft, AnswerFits, IdsLead, WritersMatch, Used, Original, Live
<1>8. SpawnedTracked'
  BY <1>1, <1>2 DEF SupInv, SpawnedTracked, Used, Original, Live, Working
<1>9. CancelledIsDone'
  BY <1>1, <1>2 DEF SupInv, CancelledIsDone, Used, Original, Restarted, CreatedBy
<1> QED  BY <1>2, <1>4, <1>6, <1>7, <1>8, <1>9 DEF SupInv, CancelsKept

-----------------------------------------------------------------------------
\* The invariant, and what it says of the pool

LEMMA InitInv == Init => SupInv
<1> SUFFICES ASSUME Init PROVE SupInv
  OBVIOUS
<1>1. /\ sup = "running" /\ polled = 0 /\ answer = {}
      /\ pool = [w \in Wid |-> 0] /\ handle = [w \in Wid |-> 0]
      /\ info = [c \in Run |-> [status |-> "none", ended |-> "no"]]
      /\ run = [c \in Run |-> NoRun] /\ delivered = [t \in Task |-> 0]
  BY DEF Init
<1>2. Shape
  BY <1>1 DEF Shape, InfoRecord
<1>3. \A c \in Run : run[c].phase = "unused" /\ info[c].status = "none"
  BY <1>1 DEF NoRun
<1>4. \A c \in Run : ~Used(c) /\ ~Original(c) /\ ~Live(c) /\ run[c].phase \notin Awaiting \cup Busy
  BY <1>3 DEF Used, Original, Live, Awaiting, Busy
<1>5. Taken = {} /\ Cardinality(Taken) = 0 /\ Cardinality(answer) = 0
  <2>1. Taken = {}
    BY <1>4 DEF Taken
  <2> QED  BY <1>1, <2>1, FS_EmptySet
<1>6. AnswerFits
  <2>1. Unused \in SUBSET Run
    BY DEF Unused
  <2>2. Cardinality(Unused) \in Nat
    BY <2>1, RunsFinite
  <2> QED  BY <1>1, <1>5, <2>2 DEF AnswerFits
<1>7. SlotsSuffice
  BY <1>1, <1>5 DEF SlotsSuffice
<1>8. StepsLeft /\ WritersMatch /\ SpawnedTracked
  BY <1>4 DEF StepsLeft, WritersMatch, SpawnedTracked
<1>9. IdsLead
  BY <1>1, <1>4 DEF IdsLead
<1>10. CancelledIsDone
  BY <1>3 DEF CancelledIsDone
<1> QED  BY <1>2, <1>6, <1>7, <1>8, <1>9, <1>10 DEF SupInv

LEMMA StutterInv == SupInv /\ UNCHANGED vars => SupInv' /\ CancelsKept
<1> SUFFICES ASSUME SupInv, UNCHANGED vars PROVE SupInv' /\ CancelsKept
  OBVIOUS
<1>1. UNCHANGED <<sup, polled, answer, pool, handle, info, run, delivered>>
  BY DEF vars
<1>2. Taken' = Taken /\ Unused' = Unused
  BY <1>1 DEF Taken, Used, Unused
<1>3. SlotsSuffice' /\ AnswerFits'
  BY <1>1, <1>2 DEF SupInv, SlotsSuffice, AnswerFits
<1>4. Shape' /\ StepsLeft' /\ IdsLead' /\ WritersMatch' /\ SpawnedTracked' /\ CancelledIsDone'
  BY <1>1 DEF SupInv, Shape, StepsLeft, IdsLead, WritersMatch, SpawnedTracked,
              CancelledIsDone, Used, Original, Live, Working, Restarted, CreatedBy
<1> QED  BY <1>1, <1>3, <1>4 DEF SupInv, CancelsKept

LEMMA NextInv ==
  ASSUME IdsUnique', SupInv, [Next]_vars
  PROVE  SupInv' /\ CancelsKept
<1>1. ASSUME NEW t \in Task, Spawn(t) PROVE SupInv' /\ CancelsKept
  <2>1. /\ t \in answer /\ answer' = answer \ {t} /\ Spawned(t, "listener")
        /\ UNCHANGED <<sup, polled>>
    BY <1>1 DEF Spawn
  <2>2. sup # "stopped" /\ delivered[t] < MaxDeliveries
    BY <2>1 DEF SupInv, AnswerFits
  <2>3. Unused # {}
    <3>1. IsFiniteSet(answer) /\ Cardinality(answer) \in Nat /\ Cardinality(answer) # 0
      BY <2>1, FS_Subset, FS_CardinalityType, FS_EmptySet DEF SupInv, Shape
    <3>2. Cardinality(Unused) # 0
      <4>1. Unused \in SUBSET Run
        BY DEF Unused
      <4> QED  BY <3>1, <4>1, RunsFinite DEF SupInv, AnswerFits
    <3> QED  BY <3>2, FS_EmptySet
  <2> QED  BY <2>1, <2>2, <2>3, SpawnInv
<1>2. ASSUME answer = {}, NEW t \in Task, SpawnDirect(t) PROVE SupInv' /\ CancelsKept
  <2>1. /\ Spawned(t, "direct") /\ UNCHANGED <<sup, polled, answer>>
        /\ sup = "running" /\ Unused # {} /\ delivered[t] < MaxDeliveries
    BY <1>2 DEF SpawnDirect
  <2> QED  BY <1>2, <2>1, SpawnInv
<1>3. ASSUME answer = {}, NEW c \in Run, RunStep(c) PROVE SupInv' /\ CancelsKept
  <2>1. CASE Restart(c)
    BY <1>3, <2>1, RestartInv
  <2>2. CASE ~Restart(c)
    <3>1. \E r : Moves(c, r)
      BY <1>3, <2>2, StartMoves, WorkMoves DEF RunStep
    <3> QED  BY <3>1, MovesInv, MovesKeepCancels
  <2> QED  BY <2>1, <2>2
<1>4. ASSUME answer = {}, NEW w \in Wid, CancelWorker(w) PROVE SupInv' /\ CancelsKept
  <2>1. {w} \in SUBSET Handled /\ {handle[w]} = {handle[x] : x \in {w}}
    BY <1>4 DEF CancelWorker, Handled
  <2> QED  BY <1>4, <2>1, CancelInv DEF CancelWorker
<1>5. ASSUME answer = {}, Stop PROVE SupInv' /\ CancelsKept
  <2>1. /\ sup' \in {"stopping", "stopped"} /\ sup # "stopped" /\ (polled' = polled \/ polled' = 0)
        /\ run' = RunsCancelled({handle[w] : w \in Handled}) /\ info' = InfosCancelled(Handled)
        /\ UNCHANGED <<answer, pool, handle, delivered>>
    BY <1>5 DEF Stop
  <2>2. Handled \in SUBSET Handled
    OBVIOUS
  <2> QED  BY <1>5, <2>1, <2>2, CancelInv
<1> QED  BY <1>1, <1>2, <1>3, <1>4, <1>5, PollInv, AnswerInv, StoppedInv, CleanupInv, TickInv,
            StutterInv DEF Next

LEMMA UniqueIdsInvariant == Spec /\ []IdsUnique => []SupInv
<1>1. SupInv /\ IdsUnique' /\ [Next]_vars => SupInv'
  BY NextInv
<1> QED  BY InitInv, <1>1, PTL DEF Spec

LEMMA SupInvTypes == SupInv => TypeOK
<1> SUFFICES ASSUME SupInv PROVE TypeOK
  OBVIOUS
<1>1. ASSUME NEW c \in Run
      PROVE  /\ info[c].status \in {"none", "pending", "running", "completed", "failed",
                                     "crashed", "cancelled"}
             /\ info[c].ended \in {"no", "fresh", "old"}
             /\ run[c].phase \in {"unused", "created", "done"} \cup Awaiting
             /\ run[c].phase # "unused" => run[c].wid \in Wid /\ run[c].info \in 0..MaxRuns
                                             /\ run[c].by \in Creator
                                             /\ run[c].steps \in 0..MaxSteps
  <2>1. info[c] \in InfoRecord /\ run[c] \in {NoRun} \cup RunRecord
    BY DEF SupInv, Shape
  <2> QED  BY <2>1 DEF InfoRecord, RunRecord, NoRun
<1> QED  BY <1>1 DEF SupInv, Shape, TypeOK

LEMMA SupInvSlots == SupInv => WithinPool
<1> SUFFICES ASSUME SupInv PROVE WithinPool
  OBVIOUS
<1> DEFINE A == {c \in Run : Working(c) /\ run[c].by = "listener"}
<1>1. A \in SUBSET Taken /\ Taken \in SUBSET Run
  BY DEF Taken, Working, Used, Busy
<1>2. IsFiniteSet(Taken) /\ Cardinality(Taken) \in Nat
  BY <1>1, RunsFinite
<1>3. Cardinality(A) <= Cardinality(Taken) /\ Cardinality(A) \in Nat
  BY <1>1, <1>2, FS_Subset, FS_CardinalityType
<1>4. Cardinality(answer) \in Nat /\ polled \in Nat
  BY FS_Subset, FS_CardinalityType DEF SupInv, Shape
<1>5. Cardinality(A) <= MaxWorkers
  BY <1>2, <1>3, <1>4 DEF SupInv, SlotsSuffice
<1> QED  BY <1>5 DEF WithinPool

LEMMA SupInvTracks == SupInv => WorkIsTracked /\ OneWriter
<1> SUFFICES ASSUME SupInv PROVE WorkIsTracked /\ OneWriter
  OBVIOUS
<1>1. \A c \in Run : Working(c) => /\ run[c].phase \in Awaiting /\ Live(c) /\ Used(c)
                                   /\ run[run[c].info].wid = run[c].wid
                                   /\ Original(c) => run[c].info = c
  BY OwnInfo DEF Working, Awaiting
<1>2. WorkIsTracked
  <2> SUFFICES ASSUME NEW c \in Run, Working(c), run[c].by # "restart"
               PROVE  /\ handle[run[c].wid] = c \/ sup = "stopped"
                      /\ pool[run[c].wid] = run[c].info /\ info[run[c].info].status = "running"
    BY DEF WorkIsTracked
  <2>1. Original(c) /\ Live(c) /\ run[c].info = c
    BY <1>1 DEF Original
  <2> QED  BY <2>1 DEF SupInv, SpawnedTracked
<1>3. OneWriter
  BY <1>1 DEF OneWriter, SupInv, IdsLead
<1> QED  BY <1>2, <1>3

\* The listener keeps to the pool, and a coroutine at work is the only one its id and its
\* WorkerInfo lead to, however many workers crash, are restarted, are cancelled or leave
\* the pool, as long as spawn_worker does not make an id a second time.
THEOREM PoolCorrect == Spec /\ []IdsUnique => []PoolInv
<1>1. SupInv => PoolInv
  BY SupInvTypes, SupInvSlots, SupInvTracks DEF PoolInv
<1> QED  BY UniqueIdsInvariant, <1>1, PTL

\* CANCELLED is the last status of a worker that was never restarted: no callback, result
\* or timeout of its coroutine is recorded over what cancel_worker and stop() wrote.
THEOREM CancelStaysFinal == Spec /\ []IdsUnique => CancelIsFinal
<1>1. SupInv /\ IdsUnique' /\ [Next]_vars =>
        [\A i \in Run : info[i].status = "cancelled" /\ ~Restarted(i) =>
           info'[i].status = "cancelled"]_vars
  BY NextInv DEF CancelsKept
<1> QED  BY UniqueIdsInvariant, <1>1, PTL DEF Spec, CancelIsFinal

-----------------------------------------------------------------------------
\* Ids are unique if tasks differ in the part that goes into an id, and none is handed over twice

IdsDiffer == MaxDeliveries = 1 /\ \A t, u \in Task : Prefix[t] = Prefix[u] => t = u

\* An id in use was made for a task that was handed over.
TaskIds == \A c \in Run : Used(c) =>
             \E t \in Task : Prefix[t] = run[c].wid[1] /\ delivered[t] = 1

\* A step that spawns no worker
OldIds ==
  /\ delivered' = delivered
  /\ \A c \in Run : Used(c)' =>
       /\ \E d \in Run : Used(d) /\ run[d].wid = run'[c].wid
       /\ Original(c)' => Original(c) /\ run'[c].wid = run[c].wid

LEMMA OldIdsKept ==
  ASSUME SupInv, TaskIds, OldIds
  PROVE  TaskIds' /\ IdsUnique'
<1>1. TaskIds'
  <2> SUFFICES ASSUME NEW c \in Run, Used(c)'
               PROVE  \E t \in Task : Prefix[t] = run'[c].wid[1] /\ delivered'[t] = 1
    BY DEF TaskIds
  <2>1. PICK d \in Run : Used(d) /\ run[d].wid = run'[c].wid
    BY DEF OldIds
  <2>2. PICK t \in Task : Prefix[t] = run[d].wid[1] /\ delivered[t] = 1
    BY <2>1 DEF TaskIds
  <2> QED  BY <2>1, <2>2 DEF OldIds
<1>2. \A c \in Run : Original(c)' => Original(c) /\ run'[c].wid = run[c].wid
  BY DEF OldIds, Original
<1>3. \A c, d \in Run : Original(c)' /\ Original(d)' /\ run'[c].wid = run'[d].wid => c = d
  BY <1>2 DEF SupInv, IdsLead
<1> QED  BY <1>1, <1>3 DEF IdsUnique

LEMMA SpawnNewId ==
  ASSUME IdsDiffer, SupInv, TaskIds, NEW t \in Task, NEW by \in Creator, Spawned(t, by),
         Unused # {}, delivered[t] < MaxDeliveries
  PROVE  TaskIds' /\ IdsUnique'
<1> DEFINE f == Fresh
           w == NewId(t)
           q == NewRun(w, by)
<1>1. delivered' = [delivered EXCEPT ![t] = delivered[t] + 1] /\ run' = [run EXCEPT ![f] = q]
  BY DEF Spawned
<1>2. f \in Run
  BY FreshIsUnused DEF Unused
<1>3. w[1] = Prefix[t] /\ q.wid = w
  BY NewIdTyped DEF SupInv, NewRun
<1> HIDE DEF f, w, q
<1>4. delivered[t] = 0 /\ delivered \in [Task -> 0..1]
  BY DEF IdsDiffer, SupInv, Shape
<1>5. /\ run'[f] = q /\ \A c \in Run : c # f => run'[c] = run[c]
      /\ delivered'[t] = 1 /\ \A u \in Task : u # t => delivered'[u] = delivered[u]
  BY <1>1, <1>2, <1>4 DEF SupInv, Shape
<1>6. \A c \in Run : Used(c) => run[c].wid # w
  <2> SUFFICES ASSUME NEW c \in Run, Used(c), run[c].wid = w PROVE FALSE
    OBVIOUS
  <2>1. PICK u \in Task : Prefix[u] = Prefix[t] /\ delivered[u] = 1
    BY <1>3 DEF TaskIds
  <2>2. u = t
    BY <2>1 DEF IdsDiffer
  <2> QED  BY <1>4, <2>1, <2>2
<1>7. TaskIds'
  <2> SUFFICES ASSUME NEW c \in Run, Used(c)'
               PROVE  \E u \in Task : Prefix[u] = run'[c].wid[1] /\ delivered'[u] = 1
    BY DEF TaskIds
  <2>1. CASE c = f
    BY <1>3, <1>5, <2>1
  <2>2. CASE c # f
    <3>1. PICK u \in Task : Prefix[u] = run[c].wid[1] /\ delivered[u] = 1
      BY <1>5, <2>2 DEF TaskIds, Used
    <3> QED  BY <1>4, <1>5, <2>2, <3>1
  <2> QED  BY <2>1, <2>2
<1>8. \A c, d \in Run : Original(c)' /\ Original(d)' /\ run'[c].wid = run'[d].wid => c = d
  <2> SUFFICES ASSUME NEW c \in Run, NEW d \in Run, Original(c)', Original(d)',
                      run'[c].wid = run'[d].wid
               PROVE  c = d
    OBVIOUS
  <2>1. \A e \in Run : e # f /\ Original(e)' => Original(e) /\ run'[e].wid = run[e].wid
                                                /\ run'[e].wid # w
    BY <1>5, <1>6 DEF Original, Used
  <2>2. CASE c = f \/ d = f
    BY <1>3, <1>5, <2>1, <2>2
  <2>3. CASE c # f /\ d # f
    BY <2>1, <2>3 DEF SupInv, IdsLead
  <2> QED  BY <2>2, <2>3
<1> QED  BY <1>7, <1>8 DEF IdsUnique

LEMMA MovesOldIds ==
  ASSUME SupInv, NEW c \in Run, NEW r, Moves(c, r)
  PROVE  OldIds
<1>1. run'[c] = r /\ \A d \in Run : d # c => run'[d] = run[d]
  BY DEF Moves, SupInv, Shape
<1>2. Used(c) /\ r.by = run[c].by /\ r.wid = run[c].wid /\ delivered' = delivered
  BY DEF Moves, Live, Used, Awaiting
<1>3. \A d \in Run : Used(d)' => /\ Used(d) /\ run'[d].wid = run[d].wid
                                 /\ run'[d].by = run[d].by
  BY <1>1, <1>2 DEF Used
<1> QED  BY <1>2, <1>3 DEF OldIds, Original

LEMMA RestartOldIds ==
  ASSUME SupInv, NEW c \in Run, Restart(c)
  PROVE  OldIds
<1> DEFINE f == Fresh
           q == NewRun(run[c].wid, "restart")
           r == Over(run[c])
<1>1. run' = [run EXCEPT ![c] = r, ![f] = q] /\ delivered' = delivered
  BY DEF Restart
<1>2. f \in Run /\ run[f].phase = "unused" /\ run[c].phase = "delay"
  BY FreshIsUnused DEF Restart, Unused
<1>3. q.wid = run[c].wid /\ q.by = "restart"
  BY DEF NewRun
<1>4. Used(c) /\ r.by = run[c].by /\ r.wid = run[c].wid
  BY <1>2, OwnInfo, OverTyped DEF Awaiting
<1> HIDE DEF f, q, r
<1>5. /\ run'[f] = q /\ run'[c] = r /\ f # c
      /\ \A d \in Run : d # c /\ d # f => run'[d] = run[d]
  BY <1>1, <1>2 DEF SupInv, Shape
<1>6. \A d \in Run : d # f /\ Used(d)' => /\ Used(d) /\ run'[d].wid = run[d].wid
                                          /\ run'[d].by = run[d].by
  BY <1>4, <1>5 DEF Used
<1> SUFFICES ASSUME NEW d \in Run, Used(d)'
             PROVE  /\ \E e \in Run : Used(e) /\ run[e].wid = run'[d].wid
                    /\ Original(d)' => Original(d) /\ run'[d].wid = run[d].wid
  BY <1>1 DEF OldIds
<1>7. CASE d = f
  BY <1>3, <1>4, <1>5, <1>7 DEF Original
<1>8. CASE d # f
  BY <1>6, <1>8 DEF Original
<1> QED  BY <1>7, <1>8

LEMMA CancelOldIds ==
  ASSUME SupInv, NEW C, run' = RunsCancelled(C), delivered' = delivered
  PROVE  OldIds
<1>1. \A d \in Run : Live(d) => run[d] \in RunRecord
  BY DEF SupInv, Shape, NoRun, Live, Awaiting
<1>2. \A d \in Run : run'[d] = IF d \in C /\ Live(d) THEN Over(run[d]) ELSE run[d]
  BY DEF RunsCancelled, Live
<1>3. \A d \in Run : Used(d)' => /\ Used(d) /\ run'[d].wid = run[d].wid
                                 /\ run'[d].by = run[d].by
  <2> SUFFICES ASSUME NEW d \in Run, Used(d)'
               PROVE  Used(d) /\ run'[d].wid = run[d].wid /\ run'[d].by = run[d].by
    OBVIOUS
  <2>1. CASE d \in C /\ Live(d)
    BY <1>1, <1>2, <2>1, OverTyped DEF Live, Used, Awaiting
  <2>2. CASE ~(d \in C /\ Live(d))
    BY <1>2, <2>2 DEF Used
  <2> QED  BY <2>1, <2>2
<1> QED  BY <1>3 DEF OldIds, Original

LEMMA NextIds ==
  ASSUME IdsDiffer, SupInv, TaskIds, [Next]_vars
  PROVE  TaskIds' /\ IdsUnique'
<1>1. ASSUME NEW t \in Task, Spawn(t) PROVE TaskIds' /\ IdsUnique'
  <2>1. t \in answer /\ Spawned(t, "listener") /\ "listener" \in Creator
    BY <1>1 DEF Spawn, Creator
  <2>2. delivered[t] < MaxDeliveries
    BY <2>1 DEF SupInv, AnswerFits
  <2>3. Unused # {}
    <3>1. IsFiniteSet(answer) /\ Cardinality(answer) \in Nat /\ Cardinality(answer) # 0
      BY <2>1, FS_Subset, FS_CardinalityType, FS_EmptySet DEF SupInv, Shape
    <3>2. Unused \in SUBSET Run
      BY DEF Unused
    <3>3. Cardinality(Unused) # 0
      BY <3>1, <3>2, RunsFinite DEF SupInv, AnswerFits
    <3> QED  BY <3>3, FS_EmptySet
  <2> QED  BY <2>1, <2>2, <2>3, SpawnNewId
<1>2. ASSUME NEW t \in Task, SpawnDirect(t) PROVE TaskIds' /\ IdsUnique'
  <2>1. /\ Spawned(t, "direct") /\ Unused # {} /\ delivered[t] < MaxDeliveries
        /\ "direct" \in Creator
    BY <1>2 DEF SpawnDirect, Creator
  <2> QED  BY <2>1, SpawnNewId
<1>3. ASSUME NEW c \in Run, RunStep(c) PROVE OldIds
  <2>1. CASE Restart(c)
    BY <2>1, RestartOldIds
  <2>2. CASE ~Restart(c)
    <3>1. PICK r : Moves(c, r)
      BY <1>3, <2>2, StartMoves, WorkMoves DEF RunStep
    <3> QED  BY <3>1, MovesOldIds
  <2> QED  BY <2>1, <2>2
<1>4. ASSUME NEW w \in Wid, CancelWorker(w) PROVE OldIds
  BY <1>4, CancelOldIds DEF CancelWorker
<1>5. ASSUME Stop PROVE OldIds
  BY <1>5, CancelOldIds DEF Stop
<1>6. ASSUME UNCHANGED <<run, delivered>> PROVE OldIds
  BY <1>6 DEF OldIds, Used, Original
<1>7. Poll \/ (\E S \in SUBSET Task : Answer(S)) \/ Stopped \/ Cleanup \/ Tick \/ UNCHANGED vars
        => UNCHANGED <<run, delivered>>
  BY DEF Poll, Answer, Stopped, Cleanup, Tick, vars
<1> QED  BY <1>1, <1>2, <1>3, <1>4, <1>5, <1>6, <1>7, OldIdsKept DEF Next

\* No two workers get one id from spawn_worker when tasks differ in the part of their id
\* that goes into it and the coordinator hands none to the node a second time.
THEOREM IdsStayUnique ==
  ASSUME IdsDiffer
  PROVE  Spec => []IdsUnique
<1>1. Init => SupInv /\ TaskIds /\ IdsUnique
  <2>1. Init => \A c \in Run : run[c].phase = "unused"
    BY DEF Init, NoRun
  <2> QED  BY InitInv, <2>1 DEF TaskIds, IdsUnique, Used, Original
<1>2. SupInv /\ TaskIds /\ IdsUnique /\ [Next]_vars => (SupInv /\ TaskIds /\ IdsUnique)'
  BY NextIds, NextInv
<1> QED  BY <1>1, <1>2, PTL DEF Spec

\* Then the pool is as PoolCorrect says in every behaviour.
COROLLARY PoolOfDistinctTasks ==
  ASSUME IdsDiffer
  PROVE  Spec => []PoolInv /\ CancelIsFinal
BY IdsStayUnique, PoolCorrect, CancelStaysFinal, PTL

===============================================================================
