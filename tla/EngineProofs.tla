----------------------------- MODULE EngineProofs -----------------------------
(***************************************************************************)
(* Proofs about the services of the engine's process (MCServices): its      *)
(* loops, adapters, tools and safeguards, for any constants of each.        *)
(***************************************************************************)
EXTENDS MCServices, TLAPS, WellFoundedInduction, FiniteSetTheorems, SequenceTheorems

-----------------------------------------------------------------------------
\* The engine's loops

TableSize == {Cardinality(T) : T \in SUBSET AgentTask} \cup {0}

LoopRecord ==
  [at : {"over", "new", "asleep", "backoff", "handler"}, cancelled : BOOLEAN,
   todo : SUBSET AgentTask, size : TableSize, cur : AgentTask \cup {NoAgentTask}]

TaskRecord ==
  [known : BOOLEAN, due : BOOLEAN, status : {"pending", "running", "completed", "failed"}]

LoopsTypes ==
  /\ engineOn \in BOOLEAN /\ warmOn \in BOOLEAN /\ shutdown \in BOOLEAN
  /\ tracked \subseteq LoopId /\ mainLoop \subseteq LoopId /\ starts \in Nat
  /\ loop \in [LoopId -> LoopRecord] /\ agent \in [AgentTask -> TaskRecord]
  /\ stopping \in [StopId -> [stage : {"none", "gathering", "warm"}, awaits : SUBSET LoopId]]
  /\ \A i \in StopId : stopping[i].stage = "none" => stopping[i] = NotStopping

\* Whoever is alive is held by the engine or by the coordinator, ...
AliveIsHeld == \A l \in LoopId : loop[l].at # "over" => l \in tracked \cup mainLoop

\* ... whoever is held after the engine was stopped is awaited by a stop under way, ...
HeldIsAwaited ==
  ~engineOn => /\ tracked # {} => \E i \in StopId : stopping[i].stage = "gathering"
               /\ mainLoop # {} => \E i \in StopId : stopping[i].stage # "none"

\* ... and a stop awaits all who are held.
AwaitsAll ==
  \A i \in StopId : /\ stopping[i].stage = "gathering" => tracked \subseteq stopping[i].awaits
                    /\ stopping[i].stage = "warm" => mainLoop \subseteq stopping[i].awaits
                    /\ stopping[i].stage # "none" => ~engineOn

LoopsInv == LoopsTypes /\ AliveIsHeld /\ HeldIsAwaited /\ AwaitsAll

\* Steps that leave starts, stops and what is held as they are, and wake nobody up.
Calm ==
  /\ UNCHANGED <<engineOn, warmOn, tracked, mainLoop, stopping, shutdown, starts>>
  /\ loop' \in [LoopId -> LoopRecord] /\ agent' \in [AgentTask -> TaskRecord]
  /\ \A l \in LoopId : loop'[l].at # "over" => loop[l].at # "over"

LEMMA CalmKeeps == ASSUME LoopsInv, Calm PROVE LoopsInv'
BY DEF LoopsInv, Calm, LoopsTypes, AliveIsHeld, HeldIsAwaited, AwaitsAll, LoopId, StopId


LEMMA LoopAtType ==
  ASSUME NEW w \in {"over", "new", "asleep", "backoff", "handler"}
  PROVE  LoopAt(w) \in LoopRecord /\ LoopAt(w).at = w
<1>1. 0 \in TableSize
  BY DEF TableSize
<1> QED  BY <1>1 DEF LoopAt, LoopRecord

LEMMA LoopsInitInv == ASSUME LoopsInit PROVE LoopsInv
<1>1. loop \in [LoopId -> LoopRecord] /\ \A l \in LoopId : loop[l].at = "over"
  BY LoopAtType DEF LoopsInit, LoopOver
<1>2. agent \in [AgentTask -> TaskRecord]
  BY DEF LoopsInit, NoSuchTask, TaskRecord
<1>3. stopping \in [StopId -> [stage : {"none", "gathering", "warm"}, awaits : SUBSET LoopId]]
  BY DEF LoopsInit, NotStopping
<1>4. \A i \in StopId : stopping[i] = NotStopping
  BY DEF LoopsInit
<1> QED
  BY <1>1, <1>2, <1>3, <1>4
     DEF LoopsInit, LoopsInv, LoopsTypes, AliveIsHeld, HeldIsAwaited, AwaitsAll, NotStopping

\* A tick that goes on is in a handler or asleep at its end.
LEMMA TickIsCalm ==
  ASSUME LoopsInv, NEW l \in LoopId, Alive(l), NEW f \in [AgentTask -> TaskRecord],
         NEW todo \in SUBSET AgentTask, TickGoesOn(l, f, todo)
  PROVE  /\ loop' \in [LoopId -> LoopRecord] /\ agent' \in [AgentTask -> TaskRecord]
         /\ \A k \in LoopId : loop'[k].at # "over" => loop[k].at # "over"
<1> DEFINE due == {t \in todo : f[t].due}
           slow == due \cap Suspending
<1>0. loop \in [LoopId -> LoopRecord]
  BY DEF LoopsInv, LoopsTypes
<1>1. ASSUME NEW g \in [AgentTask -> TaskRecord], NEW T \in SUBSET AgentTask
      PROVE  Ran(g, T) \subseteq [AgentTask -> TaskRecord]
  <2> DEFINE RanWith(s) == [t \in AgentTask |-> IF t \in T
                           THEN [g[t] EXCEPT !.due = FALSE, !.status = s[t]] ELSE g[t]]
  <2>1. ASSUME NEW s \in [T -> {"completed", "failed"}]
        PROVE  RanWith(s) \in [AgentTask -> TaskRecord]
    BY DEF TaskRecord
  <2>2. Ran(g, T) = {RanWith(s) : s \in [T -> {"completed", "failed"}]}
    BY DEF Ran
  <2> HIDE DEF RanWith
  <2> QED  BY <2>1, <2>2
<1>2. CASE slow = {} /\ agent' \in Ran(f, due) /\ loop' = [loop EXCEPT ![l] = LoopAt("asleep")]
  <2>1. agent' \in [AgentTask -> TaskRecord]
    BY <1>1, <1>2
  <2>2. loop' \in [LoopId -> LoopRecord]
    BY <1>0, <1>2, LoopAtType
  <2> QED  BY <1>0, <1>2, <2>1, <2>2 DEF Alive
<1>3. ASSUME NEW t \in slow, NEW visited \in SUBSET (todo \ slow),
             agent' \in Ran([f EXCEPT ![t].due = FALSE, ![t].status = "running"], visited \cap due),
             loop' = [loop EXCEPT ![l] =
                [LoopAt("handler") EXCEPT !.todo = todo \ (visited \cup {t}), !.cur = t,
                                          !.size = Cardinality(KnownTasks)]]
      PROVE  /\ loop' \in [LoopId -> LoopRecord] /\ agent' \in [AgentTask -> TaskRecord]
             /\ \A k \in LoopId : loop'[k].at # "over" => loop[k].at # "over"
  <2>1. [f EXCEPT ![t].due = FALSE, ![t].status = "running"] \in [AgentTask -> TaskRecord]
    BY DEF TaskRecord
  <2>2. agent' \in [AgentTask -> TaskRecord]
    BY <1>1, <1>3, <2>1
  <2>3. KnownTasks \in SUBSET AgentTask
    BY DEF KnownTasks
  <2>4. [LoopAt("handler") EXCEPT !.todo = todo \ (visited \cup {t}), !.cur = t,
                                  !.size = Cardinality(KnownTasks)] \in LoopRecord
    <3>1. Cardinality(KnownTasks) \in TableSize /\ 0 \in TableSize
      BY <2>3 DEF TableSize
    <3> QED  BY <3>1 DEF LoopAt, LoopRecord
  <2>5. loop' \in [LoopId -> LoopRecord]
    BY <1>0, <1>3, <2>4
  <2> QED  BY <1>0, <1>3, <2>2, <2>5 DEF Alive
<1> QED  BY <1>2, <1>3 DEF TickGoesOn

\* Cancelling ends nobody at once.
LEMMA CancelledType ==
  ASSUME NEW f \in [LoopId -> LoopRecord], NEW L
  PROVE  /\ CancelledIn(f, L) \in [LoopId -> LoopRecord]
         /\ \A l \in LoopId : CancelledIn(f, L)[l].at = f[l].at
<1>1. ASSUME NEW l \in LoopId
      PROVE  /\ [f[l] EXCEPT !.cancelled = TRUE] \in LoopRecord
             /\ [f[l] EXCEPT !.cancelled = TRUE].at = f[l].at
  BY DEF LoopRecord
<1> HIDE DEF LoopId
<1> QED  BY <1>1 DEF CancelledIn

\* What a stop of the coordinator does, once no loop of the engine is held.
LEMMA WarmStopKeeps ==
  ASSUME LoopsInv, NEW i \in StopId, WarmStop(i, loop), engineOn' = FALSE, tracked' = {},
         UNCHANGED <<mainLoop, agent, starts>>,
         \A l \in tracked : loop[l].at = "over"
  PROVE  LoopsInv'
<1> USE DEF LoopsInv, LoopsTypes
<1>1. loop' \in [LoopId -> LoopRecord] /\ \A l \in LoopId : loop'[l].at = loop[l].at
  BY CancelledType DEF WarmStop
<1>2. warmOn' \in BOOLEAN /\ shutdown' \in BOOLEAN
  BY Zenon DEF WarmStop
<1>6. PICK q \in [stage : {"none", "gathering", "warm"}, awaits : SUBSET LoopId] :
        /\ stopping' = [stopping EXCEPT ![i] = q]
        /\ q = IF mainLoop = {} THEN NotStopping ELSE [stage |-> "warm", awaits |-> mainLoop]
  <2>1. NotStopping \in [stage : {"none", "gathering", "warm"}, awaits : SUBSET LoopId]
    BY DEF NotStopping
  <2>2. [stage |-> "warm", awaits |-> mainLoop]
          \in [stage : {"none", "gathering", "warm"}, awaits : SUBSET LoopId]
    OBVIOUS
  <2> QED  BY <2>1, <2>2, Zenon DEF WarmStop
<1>7. /\ stopping' \in [StopId -> [stage : {"none", "gathering", "warm"}, awaits : SUBSET LoopId]]
      /\ \A j \in StopId : stopping'[j].stage = "none" => stopping'[j] = NotStopping
      /\ mainLoop # {} => stopping'[i] = [stage |-> "warm", awaits |-> mainLoop]
  BY <1>6
<1>3. AliveIsHeld'
  BY <1>1 DEF AliveIsHeld
<1>4. HeldIsAwaited'
  BY <1>7 DEF HeldIsAwaited
<1>5. AwaitsAll'
  BY <1>6 DEF AwaitsAll, NotStopping
<1> QED  BY <1>1, <1>2, <1>3, <1>4, <1>5, <1>7

LEMMA LoopsNextInv == LoopsInv /\ LoopsNext => LoopsInv'
<1> SUFFICES ASSUME LoopsInv, LoopsNext PROVE LoopsInv'
  OBVIOUS
<1>T. LoopsTypes
  BY DEF LoopsInv
<1>1. CASE EngineStart
  <2> USE <1>1
  <2>1. tracked = {} /\ mainLoop = {} /\ \A l \in LoopId : loop[l].at = "over"
    BY DEF EngineStart, LoopsInv, HeldIsAwaited, AliveIsHeld, NotStopping
  <2>2. starts + 1 \in 1..MaxStarts
    BY LoopsAssumption, <1>T DEF EngineStart, LoopsTypes
  <2>3. tracked' \subseteq LoopId /\ mainLoop' \subseteq LoopId
    BY <2>1, <2>2 DEF EngineStart, WarmStarts, LoopId
  <2>4. loop' \in [LoopId -> LoopRecord]
    BY <1>T, LoopAtType DEF EngineStart, LoopsTypes
  <2>5. agent' \in [AgentTask -> TaskRecord]
    BY <1>T DEF EngineStart, LoopsTypes, WithDefaults, NewTask, TaskRecord
  <2>6. LoopsTypes'
    BY <1>T, <2>2, <2>3, <2>4, <2>5 DEF EngineStart, LoopsTypes, LoopId, StopId
  <2>7. AliveIsHeld'
    BY <2>1 DEF EngineStart, AliveIsHeld, LoopId
  <2>8. AwaitsAll'
    BY DEF EngineStart, AwaitsAll, NotStopping, StopId
  <2> QED  BY <2>6, <2>7, <2>8 DEF EngineStart, LoopsInv, HeldIsAwaited
<1>2. ASSUME NEW i \in StopId, StopCalled(i) PROVE LoopsInv'
  <2> USE <1>2
  <2>1. CASE tracked = {}
    BY <2>1, WarmStopKeeps DEF StopCalled, loopCounts
  <2>2. CASE tracked # {}
    <3>1. loop' \in [LoopId -> LoopRecord] /\ \A l \in LoopId : loop'[l].at = loop[l].at
      BY <1>T, <2>2, CancelledType DEF StopCalled, LoopsTypes
    <3>2. /\ stopping'[i] = [stage |-> "gathering", awaits |-> tracked]
          /\ \A j \in StopId : j # i => stopping'[j] = stopping[j]
          /\ stopping' \in [StopId -> [stage : {"none", "gathering", "warm"}, awaits : SUBSET LoopId]]
      BY <1>T, <2>2 DEF StopCalled, LoopsTypes
    <3>3. LoopsTypes'
      <4>1. \A j \in StopId : stopping'[j].stage = "none" => stopping'[j] = NotStopping
        BY <1>T, <3>2 DEF LoopsTypes
      <4> QED  BY <1>T, <2>2, <3>1, <3>2, <4>1 DEF StopCalled, LoopsTypes, loopCounts
    <3>4. AliveIsHeld'
      BY <3>1, <2>2 DEF StopCalled, LoopsInv, AliveIsHeld, LoopId
    <3>5. HeldIsAwaited'
      BY <3>2 DEF HeldIsAwaited, StopId
    <3>6. AwaitsAll'
      BY <3>2, <2>2 DEF StopCalled, LoopsInv, AwaitsAll, StopId
    <3> QED  BY <3>3, <3>4, <3>5, <3>6 DEF LoopsInv
  <2> QED  BY <2>1, <2>2
<1>3. ASSUME NEW i \in StopId, StopGathered(i) PROVE LoopsInv'
  <2>1. \A l \in tracked : loop[l].at = "over"
    BY <1>3 DEF StopGathered, AllOver, LoopsInv, AwaitsAll
  <2>2. engineOn = FALSE
    BY <1>3, <1>T DEF StopGathered, LoopsInv, AwaitsAll, LoopsTypes
  <2> QED  BY <1>3, <2>1, <2>2, WarmStopKeeps DEF StopGathered, loopCounts
<1>4. ASSUME NEW i \in StopId, StopReturns(i) PROVE LoopsInv'
  <2> USE <1>4
  <2>1. \A l \in mainLoop : loop[l].at = "over"
    BY DEF StopReturns, AllOver, LoopsInv, AwaitsAll
  <2>2. \A j \in StopId : j # i => stopping'[j] = stopping[j]
    BY <1>T DEF StopReturns, LoopsTypes
  <2>3. stopping'[i] = NotStopping
    BY <1>T DEF StopReturns, LoopsTypes
  <2>4. LoopsTypes'
    BY <1>T, <2>2, <2>3 DEF StopReturns, LoopsTypes, NotStopping, loopCounts
  <2>5. AliveIsHeld'
    BY <2>1 DEF StopReturns, LoopsInv, AliveIsHeld
  <2>6. HeldIsAwaited'
    BY <2>2 DEF StopReturns, LoopsInv, HeldIsAwaited
  <2>7. AwaitsAll'
    BY <2>2, <2>3 DEF StopReturns, LoopsInv, AwaitsAll, NotStopping
  <2> QED  BY <2>4, <2>5, <2>6, <2>7 DEF LoopsInv
<1>5. ASSUME NEW l \in LoopId, LoopStep(l) PROVE LoopsInv'
  <2>1. CASE CancelArrives(l)
    <3>1. Calm
      BY <1>T, <2>1, LoopAtType DEF CancelArrives, Calm, LoopsTypes, LoopOver, loopCounts
    <3> QED  BY <3>1, CalmKeeps
  <2>2. CASE Round(l)
    <3>1. Calm
      BY <1>T, <2>2, LoopAtType DEF Round, Calm, LoopsTypes, LoopOver, Alive, loopCounts
    <3> QED  BY <3>1, CalmKeeps
  <2>3. CASE TickBegins(l)
    <3>1. KnownTasks \in SUBSET AgentTask /\ agent \in [AgentTask -> TaskRecord]
      BY <1>T DEF KnownTasks, LoopsTypes
    <3>2. CASE warmOn
      BY <2>3, <3>1, <3>2, TickIsCalm, CalmKeeps DEF TickBegins, Calm, loopCounts
    <3>3. CASE ~warmOn
      <4>1. Calm
        BY <1>T, <2>3, <3>1, <3>3, LoopAtType DEF TickBegins, Calm, LoopsTypes, LoopOver, loopCounts
      <4> QED  BY <4>1, CalmKeeps
    <3> QED  BY <3>2, <3>3
  <2>4. CASE HandlerEnds(l)
    <3>1. PICK s \in {"completed", "failed"} :
            LET f == [t \in AgentTask |-> IF t = loop[l].cur THEN [agent[t] EXCEPT !.status = s]
                                          ELSE agent[t]]
            IN  IF loop[l].size = Cardinality(KnownTasks) THEN TickGoesOn(l, f, loop[l].todo)
                ELSE IterationRaises(l) /\ agent' = f
      BY <2>4 DEF HandlerEnds
    <3> DEFINE f == [t \in AgentTask |-> IF t = loop[l].cur THEN [agent[t] EXCEPT !.status = s]
                                         ELSE agent[t]]
    <3>2. f \in [AgentTask -> TaskRecord] /\ loop[l].todo \in SUBSET AgentTask
      BY <1>T DEF LoopsTypes, TaskRecord, LoopRecord
    <3>3. Alive(l)
      BY <2>4 DEF HandlerEnds
    <3>4. CASE TickGoesOn(l, f, loop[l].todo)
      <4> HIDE DEF f
      <4>1. Calm
        BY <2>4, <3>2, <3>3, <3>4, TickIsCalm DEF HandlerEnds, Calm, loopCounts
      <4> QED  BY <4>1, CalmKeeps
    <3>5. CASE IterationRaises(l) /\ agent' = f
      <4> HIDE DEF f
      <4>1. Calm
        BY <1>T, <2>4, <3>2, <3>3, <3>5, LoopAtType
           DEF IterationRaises, HandlerEnds, Alive, Calm, LoopsTypes, loopCounts
      <4> QED  BY <4>1, CalmKeeps
    <3> QED  BY <3>1, <3>4, <3>5
  <2> QED  BY <1>5, <2>1, <2>2, <2>3, <2>4 DEF LoopStep
<1>6. ASSUME NEW t \in AgentTask, AddTask(t) \/ RemoveTask(t) \/ BecomesDue(t) PROVE LoopsInv'
  <2>1. agent' \in [AgentTask -> TaskRecord]
    <3>1. NewTask \in TaskRecord /\ NoSuchTask \in TaskRecord
      BY DEF NewTask, NoSuchTask, TaskRecord
    <3>2. agent \in [AgentTask -> TaskRecord] /\ [agent[t] EXCEPT !.due = TRUE] \in TaskRecord
      BY <1>T DEF LoopsTypes, TaskRecord
    <3> QED  BY <1>6, <3>1, <3>2 DEF AddTask, RemoveTask, BecomesDue
  <2>2. Disowned(t) \in [LoopId -> LoopRecord]
        /\ \A l \in LoopId : Disowned(t)[l].at = loop[l].at
    BY <1>T DEF Disowned, LoopsTypes, LoopRecord
  <2>3. loop' \in [LoopId -> LoopRecord] /\ \A l \in LoopId : loop'[l].at = loop[l].at
    <3>1. CASE AddTask(t) /\ agent[t].known
      BY <2>2, <3>1 DEF AddTask
    <3>2. CASE AddTask(t) /\ ~agent[t].known
      BY <1>T, <3>2 DEF AddTask, LoopsTypes, LoopRecord
    <3>3. CASE RemoveTask(t)
      <4> DEFINE D == Disowned(t)
      <4> HIDE DEF D
      <4>1. D \in [LoopId -> LoopRecord] /\ \A l \in LoopId : D[l].at = loop[l].at
        BY <2>2 DEF D
      <4>2. loop' = [l \in LoopId |-> [D[l] EXCEPT !.todo = @ \ {t}]]
        BY <3>3 DEF RemoveTask, D
      <4> QED  BY <4>1, <4>2 DEF LoopRecord
    <3>4. CASE BecomesDue(t)
      BY <1>T, <3>4 DEF BecomesDue, LoopsTypes
    <3> QED  BY <1>6, <3>1, <3>2, <3>3, <3>4
  <2>4. Calm
    BY <1>6, <2>1, <2>3 DEF AddTask, RemoveTask, BecomesDue, Calm, loopCounts
  <2> QED  BY <2>4, CalmKeeps
<1> QED  BY <1>1, <1>2, <1>3, <1>4, <1>5, <1>6 DEF LoopsNext, StopStep

\* The invariant gives what is checked of the loops.
LEMMA LoopsEndWell == LoopsInv => LoopsTypeOK /\ QuietAfterStop
<1> SUFFICES ASSUME LoopsInv PROVE LoopsTypeOK /\ QuietAfterStop
  OBVIOUS
<1>1. LoopsTypeOK
  BY DEF LoopsInv, LoopsTypes, LoopsTypeOK, LoopRecord, TaskRecord
<1>2. QuietAfterStop
  BY DEF LoopsInv, AliveIsHeld, HeldIsAwaited, QuietAfterStop, AllOver, NotStopping
<1> QED  BY <1>1, <1>2

-----------------------------------------------------------------------------
\* Adapters

Stages == {"idle", "trying", "pausing", "success", "refused", "raised"}
PartOf == Part \cup {0}

AdaptersTypes ==
  /\ adapter \in {"base", "file", "buffer", "github"} /\ retries \in Nat \ {0}
  /\ failed \in Nat /\ second \in Nat
  /\ sends \in [Sending -> [stage : Stages, attempt : 0..(retries - 1), left : SUBSET PartOf]]
  /\ named \subseteq [call : Sending, part : PartOf, at : 0..second]

\* Only an adapter that knows transient errors counts failures and pauses, and the
\* adapter that posts an artifact in parts never reports success.
OnlyBasePauses ==
  /\ circuitOpen => adapter = "base"
  /\ failed >= Threshold => circuitOpen
  /\ \A c \in Sending : /\ sends[c].stage = "pausing" => adapter = "base"
                        /\ sends[c].stage = "success" => adapter # "buffer"

AdaptersInv == AdaptersTypes /\ OnlyBasePauses /\ SentOrSaved

LEMMA AdaptersInitInv == ASSUME AdaptersInit PROVE AdaptersInv
<1>1. retries \in Nat \ {0}
  BY AdaptersAssumption DEF AdaptersInit
<1>2. Idle \in [stage : Stages, attempt : 0..(retries - 1), left : SUBSET PartOf]
  BY <1>1 DEF Idle, Stages
<1>3. \A c \in Sending : sends[c] = Idle /\ sends[c].stage = "idle"
  BY DEF AdaptersInit, Idle
<1> QED
  BY <1>1, <1>2, <1>3, AdaptersAssumption
     DEF AdaptersInit, AdaptersInv, AdaptersTypes, OnlyBasePauses, SentOrSaved

\* A step of one call: what the other side and the files have is not lost, and if it
\* reports success, its artifact is among it.
OneSends(c) ==
  /\ UNCHANGED <<adapter, retries, second>>
  /\ failed' \in Nat /\ (failed' >= Threshold => circuitOpen') /\ (circuitOpen' => adapter = "base")
  /\ sends' \in [Sending -> [stage : Stages, attempt : 0..(retries - 1), left : SUBSET PartOf]]
  /\ \A d \in Sending : d # c => sends'[d] = sends[d]
  /\ named' \subseteq [call : Sending, part : PartOf, at : 0..second]
  /\ posted \subseteq posted' /\ saved \subseteq saved' /\ clobbered \subseteq clobbered'
  /\ \A f \in named : f \in named' \/ <<f.call, f.part>> \in clobbered'
  /\ sends'[c].stage = "pausing" => adapter = "base"
  /\ sends'[c].stage = "success" =>
       /\ adapter # "buffer"
       /\ \/ <<c, 0>> \in posted' \cup saved' \cup clobbered'
          \/ \E f \in named' : f.call = c /\ f.part = 0

LEMMA OneSendsKeeps == ASSUME AdaptersInv, NEW c \in Sending, OneSends(c) PROVE AdaptersInv'
<1>1. AdaptersTypes'
  BY DEF AdaptersInv, AdaptersTypes, OneSends
<1>2. OnlyBasePauses'
  BY DEF AdaptersInv, OnlyBasePauses, OneSends
<1>3. SentOrSaved'
  <2> SUFFICES ASSUME NEW d \in Sending, sends'[d].stage = "success", NEW p \in Parts'
               PROVE  \/ <<d, p>> \in posted' \cup saved' \cup clobbered'
                      \/ \E f \in named' : f.call = d /\ f.part = p
    BY DEF SentOrSaved
  <2>1. Parts' = Parts
    BY DEF Parts, OneSends
  <2>2. CASE d = c
    <3>1. p = 0
      BY <2>2 DEF OneSends, Parts
    <3> QED  BY <2>2, <3>1 DEF OneSends
  <2>3. CASE d # c
    <3>1. sends[d].stage = "success"
      BY <2>3 DEF OneSends
    <3>2. \/ <<d, p>> \in posted \cup saved \cup clobbered
          \/ \E f \in named : f.call = d /\ f.part = p
      BY <2>1, <3>1 DEF AdaptersInv, SentOrSaved
    <3> QED  BY <3>2 DEF OneSends
  <2> QED  BY <2>2, <2>3
<1> QED  BY <1>1, <1>2, <1>3 DEF AdaptersInv

\* Writing a file under a name that may be taken
LEMMA SaveNamedKeeps ==
  ASSUME AdaptersInv, NEW c \in Sending, NEW p \in PartOf, SaveNamed(c, p)
  PROVE  /\ named' \subseteq [call : Sending, part : PartOf, at : 0..second]
         /\ clobbered \subseteq clobbered'
         /\ \A f \in named : f \in named' \/ <<f.call, f.part>> \in clobbered'
         /\ \E f \in named' : f.call = c /\ f.part = p
<1>1. [call |-> c, part |-> p, at |-> second] \in [call : Sending, part : PartOf, at : 0..second]
  BY DEF AdaptersInv, AdaptersTypes
<1>2. named' \subseteq [call : Sending, part : PartOf, at : 0..second]
  BY <1>1 DEF SaveNamed, AdaptersInv, AdaptersTypes
<1>3. \A f \in named : f \in named' \/ <<f.call, f.part>> \in clobbered'
  BY DEF SaveNamed
<1>4. [call |-> c, part |-> p, at |-> second] \in named'
  BY DEF SaveNamed
<1>5. clobbered \subseteq clobbered'
  BY DEF SaveNamed
<1> QED  BY <1>2, <1>3, <1>4, <1>5

LEMMA AdaptersNextInv == ASSUME AdaptersInv, AdaptersNext PROVE AdaptersInv'
<1> DEFINE Call == [stage : Stages, attempt : 0..(retries - 1), left : SUBSET PartOf]
<1>T. AdaptersTypes /\ OnlyBasePauses
  BY DEF AdaptersInv
<1>S. sends \in [Sending -> Call]
  BY <1>T DEF AdaptersTypes
<1>P. 0 \in PartOf /\ Parts \subseteq PartOf
  BY DEF PartOf, Parts
<1>C. ASSUME NEW c \in Sending, NEW stage \in Stages, CallAt(c, stage)
      PROVE  /\ sends' \in [Sending -> Call] /\ sends'[c].stage = stage
             /\ \A d \in Sending : d # c => sends'[d] = sends[d]
  BY <1>S, <1>C DEF CallAt
<1>Z. 0 \in Nat /\ ~(0 >= Threshold)
  BY AdaptersAssumption
<1>F. \A n \in Nat : n + 1 \in Nat
  OBVIOUS
<1>1. CASE SecondPasses
  <2>1. second' \in Nat /\ 0..second \subseteq 0..second'
    BY <1>1, <1>T DEF SecondPasses, AdaptersTypes
  <2>2. AdaptersTypes'
    BY <1>1, <1>T, <2>1 DEF SecondPasses, AdaptersTypes
  <2>3. OnlyBasePauses' /\ SentOrSaved'
    BY <1>1 DEF SecondPasses, AdaptersInv, OnlyBasePauses, SentOrSaved, Parts
  <2> QED  BY <2>2, <2>3 DEF AdaptersInv
<1>2. ASSUME NEW c \in Sending, Send(c) PROVE AdaptersInv'
  <2>1. CASE circuitOpen
    <3>1. CallAt(c, "success") /\ saved' = saved \cup {<<c, 0>>}
      BY <1>2, <2>1 DEF Send, Fallback
    <3>2. OneSends(c)
      BY <1>2, <1>T, <2>1, <3>1, <1>C DEF Send, OneSends, AdaptersTypes, OnlyBasePauses, Stages
    <3> QED  BY <3>2, OneSendsKeeps
  <2>2. CASE ~circuitOpen
    <3>1. [stage |-> "trying", attempt |-> 0, left |-> Parts] \in Call
      BY <1>P, <1>T DEF Stages, AdaptersTypes
    <3>2. /\ sends' \in [Sending -> Call] /\ sends'[c].stage = "trying"
          /\ \A d \in Sending : d # c => sends'[d] = sends[d]
      BY <1>2, <1>S, <2>2, <3>1 DEF Send
    <3>3. OneSends(c)
      BY <1>2, <1>T, <2>2, <3>2 DEF Send, OneSends, AdaptersTypes, OnlyBasePauses
    <3> QED  BY <3>3, OneSendsKeeps
  <2> QED  BY <2>1, <2>2
<1>3. ASSUME NEW c \in Sending, Sent(c) PROVE AdaptersInv'
  <2>1. OneSends(c)
    BY <1>3, <1>T, <1>C, <1>Z
       DEF Sent, OneSends, AdaptersTypes, OnlyBasePauses, Stages
  <2> QED  BY <2>1, OneSendsKeeps
<1>4. ASSUME NEW c \in Sending, Transient(c) PROVE AdaptersInv'
  <2>1. CASE sends[c].attempt < 3
    <3>1. CallAt(c, "pausing")
      BY <1>4, <2>1 DEF Transient
    <3>2. OneSends(c)
      BY <1>4, <1>T, <1>C, <2>1, <3>1 DEF Transient, OneSends, AdaptersTypes, OnlyBasePauses, Stages
    <3> QED  BY <3>2, OneSendsKeeps
  <2>2. CASE ~(sends[c].attempt < 3)
    <3>1. CallAt(c, "success") /\ saved' = saved \cup {<<c, 0>>}
      BY <1>4, <2>2 DEF Transient, Fallback
    <3>2. OneSends(c)
      BY <1>4, <1>T, <1>C, <1>F, <2>2, <3>1
         DEF Transient, OneSends, AdaptersTypes, OnlyBasePauses, Stages
    <3> QED  BY <3>2, OneSendsKeeps
  <2> QED  BY <2>1, <2>2
<1>5. ASSUME NEW c \in Sending, PauseEnds(c) PROVE AdaptersInv'
  <2>1. adapter = "base"
    BY <1>5, <1>T DEF PauseEnds, OnlyBasePauses
  <2>2. CASE NextAttempt(c) < retries
    <3>1. NextAttempt(c) \in 0..(retries - 1)
      BY <1>S, <1>T, <2>2 DEF NextAttempt, AdaptersTypes
    <3>2. /\ sends' \in [Sending -> Call] /\ sends'[c].stage = "trying"
          /\ \A d \in Sending : d # c => sends'[d] = sends[d]
      BY <1>5, <1>S, <2>2, <3>1 DEF PauseEnds, Stages
    <3>3. OneSends(c)
      BY <1>5, <1>T, <2>1, <2>2, <3>2 DEF PauseEnds, OneSends, AdaptersTypes, OnlyBasePauses
    <3> QED  BY <3>3, OneSendsKeeps
  <2>3. CASE ~(NextAttempt(c) < retries)
    <3>1. CallAt(c, "success") /\ saved' = saved \cup {<<c, 0>>}
      BY <1>5, <2>3 DEF PauseEnds, GivesUp, Fallback
    <3>2. OneSends(c)
      BY <1>5, <1>T, <1>C, <2>1, <2>3, <3>1
         DEF PauseEnds, OneSends, AdaptersTypes, OnlyBasePauses, Stages
    <3> QED  BY <3>2, OneSendsKeeps
  <2> QED  BY <2>2, <2>3
<1>6. ASSUME NEW c \in Sending, Permanent(c) PROVE AdaptersInv'
  <2>1. CallAt(c, "success") /\ saved' = saved \cup {<<c, 0>>}
    BY <1>6 DEF Permanent, Fallback
  <2>2. OneSends(c)
    BY <1>6, <1>T, <1>C, <1>F, <2>1
       DEF Permanent, OneSends, AdaptersTypes, OnlyBasePauses, Stages
  <2> QED  BY <2>2, OneSendsKeeps
<1>7. ASSUME NEW c \in Sending, Raises(c) \/ BufferEnds(c) PROVE AdaptersInv'
  <2>1. CallAt(c, "raised")
    BY <1>7 DEF Raises, BufferEnds
  <2>2. OneSends(c)
    BY <1>7, <1>T, <1>C, <2>1
       DEF Raises, BufferEnds, OneSends, AdaptersTypes, OnlyBasePauses, Stages
  <2> QED  BY <2>2, OneSendsKeeps
<1>8. ASSUME NEW c \in Sending, FileSend(c) PROVE AdaptersInv'
  <2>1. CallAt(c, "success") /\ SaveNamed(c, 0)
    BY <1>8 DEF FileSend
  <2>2. OneSends(c)
    BY <1>8, <1>T, <1>C, <1>P, <2>1, SaveNamedKeeps, <1>Z
       DEF FileSend, OneSends, AdaptersTypes, OnlyBasePauses, Stages
  <2> QED  BY <2>2, OneSendsKeeps
<1>9. ASSUME NEW c \in Sending, GitHubSend(c) PROVE AdaptersInv'
  <2>1. CASE posted' = posted \cup {<<c, 0>>} /\ CallAt(c, "success") /\ UNCHANGED <<named, clobbered>>
    <3>1. OneSends(c)
      BY <1>9, <1>T, <1>C, <2>1, <1>Z
         DEF GitHubSend, OneSends, AdaptersTypes, OnlyBasePauses, Stages
    <3> QED  BY <3>1, OneSendsKeeps
  <2>2. CASE CallAt(c, "refused") /\ UNCHANGED <<posted, named, clobbered>>
    <3>1. OneSends(c)
      BY <1>9, <1>T, <1>C, <2>2, <1>Z
         DEF GitHubSend, OneSends, AdaptersTypes, OnlyBasePauses, Stages
    <3> QED  BY <3>1, OneSendsKeeps
  <2>3. CASE /\ posted' \in {posted, posted \cup {<<c, 0>>}}
             /\ SaveNamed(c, 0) /\ CallAt(c, "refused")
    <3>1. OneSends(c)
      BY <1>9, <1>T, <1>C, <1>P, <2>3, SaveNamedKeeps, <1>Z
         DEF GitHubSend, OneSends, AdaptersTypes, OnlyBasePauses, Stages
    <3> QED  BY <3>1, OneSendsKeeps
  <2> QED  BY <1>9, <2>1, <2>2, <2>3 DEF GitHubSend
<1>10. ASSUME NEW c \in Sending, BufferPost(c) PROVE AdaptersInv'
  <2> DEFINE p == CHOOSE q \in sends[c].left : \A r \in sends[c].left : q <= r
  <2>1. sends[c].left \in SUBSET Nat /\ sends[c].left # {}
    BY <1>10, <1>S, AdaptersAssumption DEF BufferPost, PartOf
  <2>2. p \in sends[c].left
    <3>1. PICK q \in sends[c].left : \A r \in sends[c].left : <<r, q>> \notin OpToRel(<, Nat)
      BY <2>1, WFMin, NatLessThanWellFounded
    <3>2. \A r \in sends[c].left : q <= r
      <4> SUFFICES ASSUME NEW r \in sends[c].left PROVE q <= r
        OBVIOUS
      <4>1. r \in Nat /\ q \in Nat
        BY <2>1
      <4>2. ~(r < q)
        BY <3>1, <4>1 DEF OpToRel
      <4> QED  BY <4>1, <4>2
    <3> QED  BY <3>2
  <2>3. p \in PartOf
    BY <2>2, <1>S
  <2>4. /\ sends' = [sends EXCEPT ![c].left = @ \ {p}]
        /\ \/ posted' = posted \cup {<<c, p>>} /\ UNCHANGED <<named, clobbered>>
           \/ posted' \in {posted, posted \cup {<<c, p>>}} /\ SaveNamed(c, p)
    BY <1>10 DEF BufferPost
  <2> HIDE DEF p
  <2>5. /\ sends' \in [Sending -> Call] /\ sends'[c].stage = "trying"
        /\ \A d \in Sending : d # c => sends'[d] = sends[d]
    BY <1>10, <1>S, <2>4 DEF BufferPost
  <2>6. CASE posted' = posted \cup {<<c, p>>} /\ UNCHANGED <<named, clobbered>>
    <3>1. OneSends(c)
      BY <1>10, <1>T, <2>5, <2>6 DEF BufferPost, OneSends, AdaptersTypes, OnlyBasePauses
    <3> QED  BY <3>1, OneSendsKeeps
  <2>7. CASE posted' \in {posted, posted \cup {<<c, p>>}} /\ SaveNamed(c, p)
    <3>1. OneSends(c)
      BY <1>10, <1>T, <2>3, <2>5, <2>7, SaveNamedKeeps
         DEF BufferPost, OneSends, AdaptersTypes, OnlyBasePauses
    <3> QED  BY <3>1, OneSendsKeeps
  <2> QED  BY <2>4, <2>6, <2>7
<1> QED
  BY <1>1, <1>2, <1>3, <1>4, <1>5, <1>6, <1>7, <1>8, <1>9, <1>10 DEF AdaptersNext, SendStep

LEMMA AdaptersEndWell == ASSUME AdaptersInv PROVE AdaptersTypeOK /\ SentOrSaved
BY DEF AdaptersInv, AdaptersTypes, OnlyBasePauses, AdaptersTypeOK, Stages

-----------------------------------------------------------------------------
\* The tool executor

Callable == Tool \union {""}
CallRecord == [tool : Callable, at : {"new", "waiting"} \union Over]
Held == {c \in ToolCall : job[c] \in {"running", "left"}}

\* The chain has links left while one is under way, and the threads are not overdrawn.
ToolsInv ==
  /\ toolStatus \in [Tool -> {"none", "available", "busy", "error"}]
  /\ calls \in [ToolCall -> CallRecord]
  /\ job \in [ToolCall -> {"none", "pending", "running", "left"}]
  /\ IsFiniteSet(Held) /\ Cardinality(Held) <= Threads
  /\ chained \in Seq(Tool) /\ link \in ToolCall \union {NoCall}
  /\ link # NoCall => chained # <<>>
  /\ BusyIsCalled

LEMMA FreshCall == Fresh \in CallRecord /\ Fresh.at = "new"
<1>1. "" \in Callable
  BY Zenon DEF Callable
<1>2. PICK e : e = ""
  OBVIOUS
<1>3. Fresh = [tool |-> e, at |-> "new"]
  BY <1>2, Zenon DEF Fresh
<1> QED  BY <1>1, <1>2, <1>3 DEF CallRecord

LEMMA ToolsInitInv == ASSUME ToolsInit PROVE ToolsInv
<1>1. Held = {}
  BY DEF ToolsInit, Held
<1>2. IsFiniteSet(Held) /\ Cardinality(Held) <= Threads
  BY <1>1, FS_EmptySet, ToolsAssumption
<1> QED  BY <1>2, FreshCall DEF ToolsInit, ToolsInv, BusyIsCalled

\* A step that gives no thread a job keeps within them.
LEMMA NoThreadTaken ==
  ASSUME ToolsInv, Held' \subseteq Held
  PROVE  IsFiniteSet(Held') /\ Cardinality(Held') <= Threads
<1>1. IsFiniteSet(Held') /\ Cardinality(Held') <= Cardinality(Held)
  BY FS_Subset DEF ToolsInv
<1>2. Cardinality(Held) \in Nat /\ Cardinality(Held') \in Nat
  BY <1>1, FS_CardinalityType DEF ToolsInv
<1> QED  BY <1>1, <1>2, ToolsAssumption DEF ToolsInv

\* A call that ends, with its tool marked as it was or as not busy.
LEMMA EndedCallKeeps ==
  ASSUME ToolsInv, NEW c \in ToolCall, calls[c].at = "waiting", NEW outcome \in Over,
         calls' = [calls EXCEPT ![c].at = outcome],
         NEW mark, mark \in {"available", "error"},
         \/ toolStatus' = [toolStatus EXCEPT ![calls[c].tool] = mark]
         \/ outcome = "cancelled" /\ toolStatus' = toolStatus,
         job' = [job EXCEPT ![c] = "none"] \/ job' = [job EXCEPT ![c] = Abandoned(c)],
         UNCHANGED chainVars
  PROVE  ToolsInv'
<1>1. calls' \in [ToolCall -> CallRecord]
  BY DEF ToolsInv, CallRecord
<1>2. toolStatus' \in [Tool -> {"none", "available", "busy", "error"}]
  BY DEF ToolsInv
<1>3. job' \in [ToolCall -> {"none", "pending", "running", "left"}] /\ Held' \subseteq Held
  BY DEF ToolsInv, Held, Abandoned
<1>4. BusyIsCalled'
  <2> SUFFICES ASSUME NEW t \in Tool, toolStatus'[t] = "busy"
               PROVE  \E d \in ToolCall : /\ calls'[d].tool = t
                                          /\ calls'[d].at \in {"waiting", "cancelled"}
    BY DEF BusyIsCalled
  <2>1. toolStatus[t] = "busy" /\ (t # calls[c].tool \/ outcome = "cancelled")
    BY DEF ToolsInv
  <2>2. PICK d \in ToolCall : calls[d].tool = t /\ calls[d].at \in {"waiting", "cancelled"}
    BY <2>1 DEF ToolsInv, BusyIsCalled
  <2>3. calls'[d].tool = t /\ calls'[d].at \in {"waiting", "cancelled"}
    BY <2>1, <2>2 DEF ToolsInv, CallRecord
  <2> QED  BY <2>3
<1> QED  BY <1>1, <1>2, <1>3, <1>4, NoThreadTaken DEF ToolsInv, chainVars

\* A call that begins.
LEMMA CalledKeeps ==
  ASSUME ToolsInv, NEW c \in ToolCall, NEW t \in Tool, Called(c, t)
  PROVE  /\ calls' \in [ToolCall -> CallRecord]
         /\ toolStatus' \in [Tool -> {"none", "available", "busy", "error"}]
         /\ job' \in [ToolCall -> {"none", "pending", "running", "left"}]
         /\ Held' \subseteq Held /\ BusyIsCalled'
<1>1. calls[c].at = "new"
  BY FreshCall DEF Called
<1>2. PICK r \in CallRecord : /\ calls' = [calls EXCEPT ![c] = r] /\ r.tool = t
                              /\ toolStatus[t] # "none" => r.at = "waiting"
  <2>1. [tool |-> t, at |-> "unknown"] \in CallRecord /\ [tool |-> t, at |-> "waiting"] \in CallRecord
    <3>1. t \in Callable
      BY Zenon DEF Callable
    <3> QED  BY <3>1 DEF CallRecord, Over
  <2> QED  BY <2>1 DEF Called
<1>3. /\ toolStatus' \in [Tool -> {"none", "available", "busy", "error"}]
      /\ \A u \in Tool : toolStatus'[u] = "busy" => toolStatus[u] = "busy" \/
                            (u = t /\ toolStatus[t] # "none")
  BY DEF Called, ToolsInv
<1>4. job' \in [ToolCall -> {"none", "pending", "running", "left"}] /\ Held' \subseteq Held
  BY DEF Called, ToolsInv, Held
<1>5. calls' \in [ToolCall -> CallRecord]
  BY <1>2 DEF ToolsInv
<1>6. BusyIsCalled'
  <2> SUFFICES ASSUME NEW u \in Tool, toolStatus'[u] = "busy"
               PROVE  \E d \in ToolCall : /\ calls'[d].tool = u
                                          /\ calls'[d].at \in {"waiting", "cancelled"}
    BY DEF BusyIsCalled
  <2>1. CASE toolStatus[u] = "busy"
    <3>1. PICK d \in ToolCall : calls[d].tool = u /\ calls[d].at \in {"waiting", "cancelled"}
      BY <2>1 DEF ToolsInv, BusyIsCalled
    <3>2. d # c
      BY <1>1, <3>1
    <3> QED  BY <1>2, <3>1, <3>2 DEF ToolsInv
  <2>2. CASE u = t /\ toolStatus[t] # "none"
    BY <1>2, <2>2 DEF ToolsInv
  <2> QED  BY <1>3, <2>1, <2>2
<1> QED  BY <1>3, <1>4, <1>5, <1>6

LEMMA ToolsNextInv == ASSUME ToolsInv, ToolsNext PROVE ToolsInv'
<1>H. ASSUME UNCHANGED <<calls, job, chainVars>>,
             toolStatus' \in [Tool -> {"none", "available", "busy", "error"}],
             \A t \in Tool : toolStatus'[t] = "busy" => toolStatus[t] = "busy"
      PROVE  ToolsInv'
  BY <1>H DEF ToolsInv, BusyIsCalled, Held, chainVars
<1>1. ASSUME NEW t \in Tool, Register(t) PROVE ToolsInv'
  BY <1>1, <1>H DEF Register, ToolsInv
<1>2. ASSUME NEW ts \in SUBSET Tool, RegisterAll(ts) PROVE ToolsInv'
  BY <1>2, <1>H DEF RegisterAll, ToolsInv
<1>3. ASSUME NEW c \in ToolCall, NEW t \in Tool, Execute(c, t) PROVE ToolsInv'
  BY <1>3, CalledKeeps, NoThreadTaken DEF Execute, ToolsInv, chainVars
<1>4. ASSUME NEW c \in ToolCall, ThreadTakes(c) PROVE ToolsInv'
  <2>1. Held' = Held \cup {c}
    BY <1>4 DEF ThreadTakes, ToolsInv, Held
  <2>2. c \notin Held
    BY <1>4 DEF ThreadTakes, Held
  <2>3. IsFiniteSet(Held') /\ Cardinality(Held') = Cardinality(Held) + 1
    BY <2>1, <2>2, FS_AddElement DEF ToolsInv
  <2>4. Cardinality(Held) \in Nat /\ Cardinality(Held) < Threads
    BY <1>4, FS_CardinalityType DEF ToolsInv, ThreadTakes, Held
  <2>5. Cardinality(Held') <= Threads
    BY <2>3, <2>4, ToolsAssumption
  <2>6. job' \in [ToolCall -> {"none", "pending", "running", "left"}]
    BY <1>4 DEF ThreadTakes, ToolsInv
  <2> QED  BY <1>4, <2>3, <2>5, <2>6 DEF ThreadTakes, ToolsInv, BusyIsCalled, chainVars
<1>5. ASSUME NEW c \in ToolCall, TimesOut(c) PROVE ToolsInv'
  <2>1. toolStatus' = [toolStatus EXCEPT ![calls[c].tool] = "available"]
    BY <1>5 DEF TimesOut, Noted
  <2> QED  BY <1>5, <2>1, EndedCallKeeps DEF TimesOut, Over
<1>6. ASSUME NEW c \in ToolCall, CallCancelled(c) PROVE ToolsInv'
  BY <1>6, EndedCallKeeps DEF CallCancelled, Over
<1>7. ASSUME NEW c \in ToolCall, LeftReturns(c) PROVE ToolsInv'
  <2>1. job' \in [ToolCall -> {"none", "pending", "running", "left"}] /\ Held' \subseteq Held
    BY <1>7 DEF LeftReturns, ToolsInv, Held
  <2> QED  BY <1>7, <2>1, NoThreadTaken DEF LeftReturns, ToolsInv, BusyIsCalled, chainVars
<1>8. ASSUME NEW c \in ToolCall, ChainLink(c) PROVE ToolsInv'
  <2>1. Head(chained) \in Tool /\ Called(c, Head(chained))
    BY <1>8, HeadTailProperties DEF ChainLink, ToolsInv
  <2> QED  BY <1>8, <2>1, CalledKeeps, NoThreadTaken DEF ChainLink, ToolsInv
<1>9. ASSUME NEW c \in ToolCall, NEW outcome \in {"ok", "error"}, HandlerReturns(c, outcome)
      PROVE  ToolsInv'
  <2>1. PICK mark \in {"available", "error"} :
          toolStatus' = [toolStatus EXCEPT ![calls[c].tool] = mark]
    BY <1>9 DEF HandlerReturns, Noted
  <2> QED  BY <1>9, <2>1, EndedCallKeeps DEF HandlerReturns, Over
<1>10. CASE ChainBegins
  BY <1>10, ToolsAssumption DEF ChainBegins, ToolsInv, BusyIsCalled, Held
<1>11. CASE LinkEnds
  <2>1. Tail(chained) \in Seq(Tool)
    BY <1>11, HeadTailProperties DEF LinkEnds, ToolsInv
  <2> QED  BY <1>11, <2>1 DEF LinkEnds, ToolsInv, BusyIsCalled, Held
<1> QED
  BY <1>1, <1>2, <1>3, <1>4, <1>5, <1>6, <1>7, <1>8, <1>9, <1>10, <1>11 DEF ToolsNext

LEMMA ToolsEndWell == ASSUME ToolsInv PROVE ToolsTypeOK /\ BusyIsCalled
BY DEF ToolsInv, ToolsTypeOK, CallRecord, Callable, Held

-----------------------------------------------------------------------------
\* The guards: the bus, the budget and the levels of service

\* A bag of tasks is a bag, and no event on it has gone further than it may.
TasksOK(B) == IsABag(B) /\ \A k \in DOMAIN B : k.event.hop \in 0..MaxHops

LEMMA TasksJoin ==
  ASSUME NEW B, TasksOK(B), NEW S, \A k \in S : k.event.hop \in 0..MaxHops
  PROVE  TasksOK(B (+) SetToBag(S))
BY DEF TasksOK, IsABag, SetToBag, (+)

LEMMA TasksLeave ==
  ASSUME NEW B, TasksOK(B), NEW S
  PROVE  TasksOK(B (-) SetToBag(S))
BY DEF TasksOK, IsABag, SetToBag, (-)

LEMMA EmittedTasks ==
  ASSUME NEW bus, TasksOK(bus.tasks), bus = [seen |-> bus.seen, cycles |-> bus.cycles, tasks |-> bus.tasks],
         NEW e, e.hop \in 0..MaxHops
  PROVE  TasksOK(Emitted(bus, e).tasks)
<1> DEFINE S == {[handler |-> h, event |-> e] : h \in subscribers[e.type]}
<1>1. \A k \in S : k.event.hop \in 0..MaxHops
  OBVIOUS
<1>2. TasksOK(bus.tasks (+) SetToBag(S))
  BY <1>1, TasksJoin
<1> HIDE DEF S
<1> DEFINE T == bus.tasks (+) SetToBag(S)
<1>3. Emitted(bus, e) = IF e.hop >= MaxHops \/ <<e.trace, e.type>> \in bus.seen
        THEN [bus EXCEPT !.cycles = TRUE]
        ELSE [bus EXCEPT !.seen = @ \cup {<<e.trace, e.type>>}, !.tasks = T]
  BY DEF Emitted, S
<1> HIDE DEF T
<1>4. Emitted(bus, e).tasks \in {bus.tasks, T}
  BY <1>3
<1> QED  BY <1>2, <1>4 DEF T

GuardsInv ==
  /\ subscribers \in [BusType -> SUBSET Subscriber] /\ TasksOK(handlers)
  /\ DOMAIN limits \in {{}, Limit} /\ warned \subseteq Limit
  /\ level \in {"full", "degraded", "survival"}

LEMMA GuardsInitInv == ASSUME SafeguardsInit PROVE GuardsInv
<1>1. TasksOK(handlers)
  BY DEF SafeguardsInit, EmptyBag, SetToBag, TasksOK, IsABag
<1>2. DOMAIN limits = Limit
  BY DEF SafeguardsInit, Configured
<1> QED  BY <1>1, <1>2 DEF SafeguardsInit, GuardsInv

LEMMA GuardsNextInv ==
  ASSUME GuardsInv, BusNext \/ BudgetNext \/ HealthCheck
  PROVE  GuardsInv'
<1> USE DEF GuardsInv, busVars, budgetVars
<1>1. ASSUME NEW b \in BusType, NEW h \in Subscriber, Subscribe(b, h) \/ Unsubscribe(b, h)
      PROVE  GuardsInv'
  BY <1>1 DEF Subscribe, Unsubscribe
<1>2. ASSUME NEW t \in Trace, NEW b \in BusType, Emit(t, b) PROVE GuardsInv'
  <2>1. TasksOK(Emitted(BusNow, [trace |-> t, type |-> b, hop |-> 0]).tasks)
    <3>1. 0 \in 0..MaxHops
      BY SafeguardsAssumption
    <3> QED  BY <3>1, EmittedTasks DEF BusNow
  <2> QED  BY <1>2, <2>1 DEF Emit, BusBecomes
<1>3. ASSUME SomeCall PROVE GuardsInv'
  <2>1. PICK k \in DOMAIN handlers : SafeCall(k)
    BY <1>3 DEF SomeCall, BagToSet
  <2> DEFINE left == [BusNow EXCEPT !.tasks = @ (-) SetToBag({k})]
             hop == IF k.event.hop < MaxHops THEN k.event.hop + 1 ELSE MaxHops
  <2>2. /\ TasksOK(left.tasks)
        /\ left = [seen |-> seenTraces, cycles |-> hasCycles, tasks |-> handlers (-) SetToBag({k})]
    BY TasksLeave DEF BusNow
  <2>3. hop \in 0..MaxHops
    BY SafeguardsAssumption DEF TasksOK
  <2>4. \A b : TasksOK(Emitted(left, [trace |-> k.event.trace, type |-> b, hop |-> hop]).tasks)
    <3> SUFFICES ASSUME NEW b
                 PROVE  TasksOK(Emitted(left, [trace |-> k.event.trace, type |-> b, hop |-> hop]).tasks)
      OBVIOUS
    <3> HIDE DEF hop
    <3>1. left = [seen |-> left.seen, cycles |-> left.cycles, tasks |-> left.tasks]
      BY <2>2
    <3> HIDE DEF left
    <3> QED  BY <2>2, <2>3, <3>1, EmittedTasks
  <2>5. TasksOK([left EXCEPT !.cycles = TRUE].tasks)
    BY <2>2
  <2>6. TasksOK(handlers')
    <3>1. \/ handlers' = [left EXCEPT !.cycles = TRUE].tasks
          \/ handlers' = left.tasks
          \/ \E b : handlers' = Emitted(left, [trace |-> k.event.trace, type |-> b, hop |-> hop]).tasks
      BY <2>1, Zenon DEF SafeCall, BusBecomes
    <3> HIDE DEF left, hop
    <3> QED  BY <2>2, <2>4, <2>5, <3>1
  <2> QED  BY <2>1, <2>6 DEF SafeCall
<1>4. ASSUME NEW name \in Watched, ResolveViolation(name) PROVE GuardsInv'
  BY <1>4 DEF ResolveViolation
<1>5. ASSUME NEW c \in {0, 1}, RecordLlm(c) PROVE GuardsInv'
  BY <1>5 DEF RecordLlm
<1>6. CASE RecordCompute \/ RecordStorage \/ UpdateFromTracker
  BY <1>6 DEF RecordCompute, RecordStorage, UpdateFromTracker
<1>7. CASE BudgetReset
  <2>1. DOMAIN limits' \in {{}, Limit}
    BY <1>7 DEF BudgetReset, Configured
  <2> QED  BY <1>7, <2>1 DEF BudgetReset
<1>8. ASSUME NEW v \in Checked, NEW tier \in 1..2, CheckValidator(v, tier) PROVE GuardsInv'
  BY <1>8 DEF CheckValidator
<1>9. ASSUME NEW l \in {"full", "degraded", "survival"}, ManualLevel(l) PROVE GuardsInv'
  BY <1>9 DEF ManualLevel
<1>10. CASE DiskChanges
  BY <1>10 DEF DiskChanges
<1>11. CASE HealthCheck
  <2>1. level' \in {"full", "degraded", "survival"}
    BY <1>11 DEF HealthCheck, Evaluated
  <2> QED  BY <1>11, <2>1 DEF HealthCheck
<1> QED
  BY <1>1, <1>2, <1>3, <1>4, <1>5, <1>6, <1>7, <1>8, <1>9, <1>10, <1>11 DEF BusNext, BudgetNext

LEMMA GuardsEndWell == ASSUME GuardsInv PROVE SafeguardsTypeOK
BY DEF GuardsInv, SafeguardsTypeOK, TasksOK, BagToSet

-----------------------------------------------------------------------------
\* The services together

ServicesInv == LoopsInv /\ GuardsInv /\ AdaptersInv /\ ToolsInv /\ AgentRunTypeOK

LEMMA AgentRunInitType == ASSUME AgentRunInit PROVE AgentRunTypeOK
BY AgentRunAssumption DEF AgentRunInit, AgentRunTypeOK

LEMMA AgentRunNextType == ASSUME AgentRunTypeOK, AgentRunNext PROVE AgentRunTypeOK'
<1>1. CASE WorkerCrashes
  BY <1>1, AgentRunAssumption DEF WorkerCrashes, AgentRunTypeOK
<1> QED
  BY <1>1 DEF AgentRunTypeOK, AgentRunNext, AgentRun, WorkerStarts, WorkerEnds, RunEnds

\* A service at rest keeps what is claimed of it.
LEMMA RestKeeps ==
  /\ LoopsInv /\ UNCHANGED loopVars => LoopsInv'
  /\ GuardsInv /\ UNCHANGED guardVars => GuardsInv'
  /\ AdaptersInv /\ UNCHANGED adapterVars => AdaptersInv'
  /\ ToolsInv /\ UNCHANGED toolsVars => ToolsInv'
  /\ AgentRunTypeOK /\ UNCHANGED agentRunVars => AgentRunTypeOK'
<1>1. LoopsInv /\ UNCHANGED loopVars => LoopsInv'
  BY DEF loopVars, loopCounts, LoopsInv, LoopsTypes, AliveIsHeld, HeldIsAwaited, AwaitsAll
<1>2. GuardsInv /\ UNCHANGED guardVars => GuardsInv'
  BY DEF guardVars, busVars, budgetVars, GuardsInv
<1>3. AdaptersInv /\ UNCHANGED adapterVars => AdaptersInv'
  BY DEF adapterVars, AdaptersInv, AdaptersTypes, OnlyBasePauses, SentOrSaved, Parts
<1>4. ToolsInv /\ UNCHANGED toolsVars => ToolsInv'
  BY DEF toolsVars, ToolsInv, Held, BusyIsCalled
<1>5. AgentRunTypeOK /\ UNCHANGED agentRunVars => AgentRunTypeOK'
  BY DEF agentRunVars, AgentRunTypeOK
<1> QED  BY <1>1, <1>2, <1>3, <1>4, <1>5

LEMMA ServicesNextInv == ASSUME ServicesInv, [ServicesNext]_servicesVars PROVE ServicesInv'
<1> USE DEF ServicesInv
<1>1. CASE ServicesNext
  <2> USE <1>1
  <2>1. LoopsInv'
    BY LoopsNextInv, RestKeeps DEF ServicesNext, Rests
  <2>2. GuardsInv'
    BY GuardsNextInv, RestKeeps DEF ServicesNext, Rests
  <2>3. AdaptersInv'
    BY AdaptersNextInv, RestKeeps DEF ServicesNext, Rests
  <2>4. ToolsInv'
    BY ToolsNextInv, RestKeeps DEF ServicesNext, Rests
  <2>5. AgentRunTypeOK'
    BY AgentRunNextType, RestKeeps DEF ServicesNext, Rests
  <2> QED  BY <2>1, <2>2, <2>3, <2>4, <2>5
<1>2. CASE UNCHANGED servicesVars
  BY <1>2, RestKeeps DEF servicesVars
<1> QED  BY <1>1, <1>2

\* What has ended has ended well, for any tasks, adapters, tools and numbers of threads:
\* no loop of the engine outlives stop(), however often and by however many callers it is
\* called; a send that reported success has sent or saved every part, whatever attempts
\* fail; no call that ended leaves its tool marked as busy; and every type is kept.
THEOREM ServicesEndWell == ServicesSpec => []EndedWell
<1>1. ServicesInit => ServicesInv
  BY LoopsInitInv, GuardsInitInv, AdaptersInitInv, ToolsInitInv, AgentRunInitType
     DEF ServicesInit, ServicesInv
<1>2. ServicesInv => EndedWell
  BY LoopsEndWell, GuardsEndWell, AdaptersEndWell, ToolsEndWell
     DEF ServicesInv, EndedWell, ServicesTypeOK
<1> QED  BY <1>1, <1>2, ServicesNextInv, PTL DEF ServicesSpec
=============================================================================
