------------------------------ MODULE Supervisor ------------------------------
(***************************************************************************)
(* A node's pool of workers: AgentSupervisor (agent_runtime/supervisor.py)  *)
(* on one event loop, and the observe-think-act loop of AgentWorker         *)
(* (agent_runtime/worker.py) that each of its coroutines runs.  A step is   *)
(* what a coroutine does from one await to the next; the coordinator, the   *)
(* language model, the tools and the callbacks may answer anything.         *)
(***************************************************************************)
EXTENDS Naturals, FiniteSets

CONSTANTS
  Task,          \* tasks the coordinator may hand over
  Prefix,        \* [Task -> the first eight characters of its id]
  MaxWorkers,    \* SupervisorConfig.max_workers
  MaxSteps,      \* max_steps of a task
  CallbacksRaise,\* may on_task_received, on_worker_completed, ... raise?
  Direct,        \* is spawn_worker called by others than the listener, as "agent run" does?
  MaxDeliveries, \* bound: how often a task is handed over
  MaxRuns        \* bound: calls of _run_worker

ASSUME SupervisorAssumption ==
  /\ IsFiniteSet(Task)
  /\ MaxWorkers \in Nat \ {0} /\ MaxSteps \in Nat \ {0} /\ CallbacksRaise \in BOOLEAN
  /\ Direct \in BOOLEAN
  /\ MaxDeliveries \in Nat /\ MaxRuns \in Nat

Run == 1..MaxRuns
Wid == {Prefix[t] : t \in Task} \X (0..(MaxRuns - 1)) \* w-<prefix>-<number>

VARIABLES
  sup,       \* "running", "stopping" (in stop(), at its gather) or "stopped"
  polled,    \* poll_tasks is under way, and the number of tasks it asked for
  answer,    \* tasks of the last answer that are yet to be spawned
  pool,      \* _workers: the WorkerInfo of an id, by the run it was made for
  handle,    \* _worker_tasks: the coroutine of an id
  info,      \* WorkerInfo objects
  run,       \* coroutines of _run_worker
  delivered  \* how often each task was handed over

vars == <<sup, polled, answer, pool, handle, info, run, delivered>>

NoRun  == [phase |-> "unused"]
Unused == {c \in Run : run[c].phase = "unused"}
Fresh  == CHOOSE c \in Unused : \A d \in Unused : c <= d

\* A coroutine that was created, and who created it: the listener, another caller
\* of spawn_worker, or _run_worker after a crash
Creator == {"listener", "direct", "restart"}
NewRun(w, by) == [phase |-> "created", by |-> by, wid |-> w, info |-> 0, steps |-> 0]
\* Its local variables are gone when it ends.
Over(r) == [r EXCEPT !.phase = "done", !.info = 0, !.steps = 0]
CreatedBy(c, by) == run[c].phase # "unused" /\ run[c].by = by
Created(c, by)   == run[c].phase = "created" /\ run[c].by = by

\* A coroutine that has started and not ended
Awaiting == {"received", "executing", "reporting", "delay"}
Working(c) == run[c].phase \in {"received", "executing"}

Init ==
  /\ sup = "running" /\ polled = 0 /\ answer = {}
  /\ pool = [w \in Wid |-> 0] /\ handle = [w \in Wid |-> 0]
  /\ info = [c \in Run |-> [status |-> "none", ended |-> "no"]]
  /\ run = [c \in Run |-> NoRun]
  /\ delivered = [t \in Task |-> 0]

\* Variant: counts those that have not started.
PendingWorkers == Cardinality({w \in Wid : pool[w] # 0 /\ info[pool[w]].status = "pending"})

Pooled == {w \in Wid : pool[w] # 0}
ActiveWorkers == Cardinality({w \in Pooled : info[pool[w]].status = "running"})

SetStatus(c, st) == [info EXCEPT ![run[c].info].status = st]

-----------------------------------------------------------------------------
\* _task_listener_loop: the free slots are counted before the call.
Poll ==
  /\ sup = "running" /\ polled = 0
  /\ MaxWorkers > ActiveWorkers
  /\ ~\E c \in Run : Created(c, "listener") \* those of an earlier round have started
  /\ polled' = MaxWorkers - ActiveWorkers
  /\ UNCHANGED <<sup, answer, pool, handle, info, run, delivered>>

\* The answer arrives, in stop() too.
Answer(S) ==
  /\ polled # 0 /\ sup # "stopped"
  /\ Cardinality(S) <= polled /\ Cardinality(S) <= Cardinality(Unused)
  /\ \A t \in S : delivered[t] < MaxDeliveries
  /\ polled' = 0 /\ answer' = S
  /\ UNCHANGED <<sup, pool, handle, info, run, delivered>>

\* Variant: the number of running workers makes the id.
ActiveId(t) == <<Prefix[CHOOSE u \in Task : TRUE], ActiveWorkers>>

NewId(t) == <<Prefix[t], Cardinality(Pooled)>>

\* spawn_worker.  The semaphore is free: nobody holds it across an await.
Spawned(t, by) ==
  LET c == Fresh
      w == NewId(t)
  IN  /\ delivered' = [delivered EXCEPT ![t] = @ + 1]
      /\ pool' = [pool EXCEPT ![w] = c]
      /\ handle' = [handle EXCEPT ![w] = c]
      /\ info' = [info EXCEPT ![c] = [status |-> "pending", ended |-> "no"]]
      /\ run' = [run EXCEPT ![c] = NewRun(w, by)]

\* The listener spawns a worker for each task of the answer, without an await.
Spawn(t) ==
  /\ t \in answer
  /\ answer' = answer \ {t}
  /\ Spawned(t, "listener")
  /\ UNCHANGED <<sup, polled>>

\* Another caller of spawn_worker
SpawnDirect(t) ==
  /\ Direct /\ sup = "running" /\ delivered[t] < MaxDeliveries /\ Unused # {}
  /\ Spawned(t, "direct")
  /\ UNCHANGED <<sup, polled, answer>>

-----------------------------------------------------------------------------
\* _run_worker

Goes(c, phase) == run' = [run EXCEPT ![c].phase = phase]
Ended(i) == [i EXCEPT !.ended = "fresh"]

\* A restarted worker may have been removed from the pool in the meantime.
StartRun(c) ==
  LET i == pool[run[c].wid]
  IN  /\ run[c].phase = "created"
      /\ run' = [run EXCEPT ![c] = IF i = 0 THEN Over(@)
                                   ELSE [run[c] EXCEPT !.info = i, !.phase = "received"]]
      /\ info' = IF i = 0 THEN info ELSE [info EXCEPT ![i].status = "running"]
      /\ UNCHANGED <<sup, polled, answer, pool, handle, delivered>>

Received(c) ==
  /\ run[c].phase = "received"
  /\ Goes(c, "executing")
  /\ UNCHANGED <<sup, polled, answer, pool, handle, info, delivered>>

\* AgentWorker.execute, after the loop: success is decided by the step number.
Succeeds(goal, n) == goal /\ n < MaxSteps

\* Variant: a step too many is recorded.
ReturnNext(c, goal, n) ==
  /\ info' = SetStatus(c, IF Succeeds(goal, n) THEN "completed" ELSE "failed")
  /\ run' = [run EXCEPT ![c].phase = "reporting", ![c].steps = n + 1]
  /\ UNCHANGED <<sup, polled, answer, pool, handle, delivered>>

\* The worker returns and _run_worker records its result.
Return(c, goal, n) ==
  /\ info' = SetStatus(c, IF Succeeds(goal, n) THEN "completed" ELSE "failed")
  /\ run' = [run EXCEPT ![c].phase = "reporting", ![c].steps = n]
  /\ UNCHANGED <<sup, polled, answer, pool, handle, delivered>>

\* What a thought asks for: a tool or nothing, an end (so do an answer without an action
\* and a failed call to the model), or an error.
Thoughts == {"go on", "complete", "error"}

\* One round of observe, think and act
Think(c) ==
  LET n == run[c].steps + 1
  IN  /\ run[c].phase = "executing"
      /\ \/ /\ n < MaxSteps
            /\ run' = [run EXCEPT ![c].steps = n]
            /\ UNCHANGED <<sup, polled, answer, pool, handle, info, delivered>>
         \/ \E a \in Thoughts : (a = "go on" => n = MaxSteps) /\ Return(c, a = "complete", n)

\* worker_timeout of wait_for
Timeout(c) == run[c].phase = "executing" /\ Return(c, FALSE, run[c].steps)

Report(c) ==
  /\ run[c].phase = "reporting"
  /\ run' = [run EXCEPT ![c] = Over(@)]
  /\ info' = [info EXCEPT ![run[c].info] = Ended(@)]
  /\ UNCHANGED <<sup, polled, answer, pool, handle, delivered>>

\* A callback raises: status CRASHED, and a pause before the restart.
Crash(c) ==
  /\ CallbacksRaise /\ run[c].phase \in {"received", "reporting"}
  /\ info' = SetStatus(c, "crashed")
  /\ Goes(c, "delay")
  /\ UNCHANGED <<sup, polled, answer, pool, handle, delivered>>

\* A new coroutine for the same id, which nobody holds a handle of
Restart(c) ==
  /\ run[c].phase = "delay" /\ Unused # {}
  /\ run' = [run EXCEPT ![c] = Over(@), ![Fresh] = NewRun(run[c].wid, "restart")]
  /\ info' = [info EXCEPT ![run[c].info] = Ended(@)]
  /\ UNCHANGED <<sup, polled, answer, pool, handle, delivered>>

-----------------------------------------------------------------------------
\* Variant: only what waits is cancelled.
RunsInterrupted(C) ==
  [c \in Run |-> IF c \in C /\ run[c].phase \in Awaiting
                 THEN Over(run[c]) ELSE run[c]]

\* What task.cancel() does to the coroutines in C and their WorkerInfo; the caller
\* sets the status to CANCELLED whatever has become of the coroutine.
RunsCancelled(C) ==
  [c \in Run |-> IF c \in C /\ run[c].phase \in Awaiting \cup {"created"}
                 THEN Over(run[c]) ELSE run[c]]

StatusCancelled(i, W) ==
  IF \E w \in W : pool[w] = i \/ (/\ handle[w] # 0 /\ run[handle[w]].phase \in Awaiting \ {"delay"}
                                  /\ run[handle[w]].info = i)
  THEN "cancelled" ELSE info[i].status

InfosCancelled(W) ==
  [i \in Run |->
     [status |-> StatusCancelled(i, W),
      ended  |-> IF \E w \in W : /\ handle[w] # 0 /\ run[handle[w]].phase \in Awaiting
                                 /\ run[handle[w]].info = i
                 THEN "fresh" ELSE info[i].ended]]

CancelWorker(w) ==
  /\ handle[w] # 0
  /\ run' = RunsCancelled({handle[w]})
  /\ info' = InfosCancelled({w})
  /\ UNCHANGED <<sup, polled, answer, pool, handle, delivered>>

Handled == {w \in Wid : handle[w] # 0}

\* stop() cancels what it has handles of, waits for it, and then for the loops.
Stop ==
  /\ sup = "running"
  /\ run' = RunsCancelled({handle[w] : w \in Handled})
  /\ info' = InfosCancelled(Handled)
  /\ sup' = IF Handled = {} THEN "stopped" ELSE "stopping"
  /\ polled' = IF Handled = {} THEN 0 ELSE polled
  /\ UNCHANGED <<answer, pool, handle, delivered>>

Stopped ==
  /\ sup = "stopping"
  /\ sup' = "stopped" /\ polled' = 0
  /\ handle' = [w \in Wid |-> 0]
  /\ UNCHANGED <<answer, pool, info, run, delivered>>

\* Variant: keeps the workers that failed.
ExpiredCompleted(w) == /\ pool[w] # 0
                       /\ info[pool[w]].status \in {"completed", "cancelled"}
                       /\ info[pool[w]].ended = "old"

\* _worker_cleanup_loop, a minute after a worker has ended
Expired(w) == /\ pool[w] # 0
              /\ info[pool[w]].status \in {"completed", "failed", "cancelled"}
              /\ info[pool[w]].ended = "old"

Cleanup ==
  /\ sup # "stopped" /\ \E w \in Wid : Expired(w)
  /\ pool' = [w \in Wid |-> IF Expired(w) THEN 0 ELSE pool[w]]
  /\ handle' = [w \in Wid |-> IF Expired(w) THEN 0 ELSE handle[w]]
  /\ UNCHANGED <<sup, polled, answer, info, run, delivered>>

Tick ==
  /\ info' = [i \in Run |-> IF info[i].ended = "fresh" THEN [info[i] EXCEPT !.ended = "old"]
                            ELSE info[i]]
  /\ UNCHANGED <<sup, polled, answer, pool, handle, run, delivered>>

RunStep(c) == \/ StartRun(c) \/ Received(c) \/ Think(c) \/ Timeout(c) \/ Report(c)
              \/ Crash(c) \/ Restart(c)

Next ==
  \/ \E t \in Task : Spawn(t)
  \/ /\ answer = {}
     /\ \/ Poll \/ (\E S \in SUBSET Task : Answer(S)) \/ (\E t \in Task : SpawnDirect(t))
        \/ \E c \in Run : RunStep(c)
        \/ \E w \in Wid : CancelWorker(w)
        \/ Stop \/ Stopped \/ Cleanup \/ Tick

\* The event loop runs coroutines as long as one can go on, and time passes.
Fairness ==
  /\ WF_vars(\E t \in Task : Spawn(t))
  /\ WF_vars(answer = {} /\ \E c \in Run : RunStep(c))
  /\ WF_vars(answer = {} /\ Cleanup) /\ WF_vars(answer = {} /\ Tick)

Spec == Init /\ [][Next]_vars /\ Fairness

-----------------------------------------------------------------------------
\* Properties

\* Coroutines, their WorkerInfo objects and the two tables keep their types.
TypeOK ==
  /\ sup \in {"running", "stopping", "stopped"} /\ polled \in 0..MaxWorkers /\ answer \subseteq Task
  /\ pool \in [Wid -> 0..MaxRuns] /\ handle \in [Wid -> 0..MaxRuns]
  /\ \A c \in Run :
       /\ info[c].status \in {"none", "pending", "running", "completed", "failed", "crashed",
                              "cancelled"}
       /\ info[c].ended \in {"no", "fresh", "old"}
       /\ run[c].phase \in {"unused", "created", "done"} \cup Awaiting
       /\ run[c].phase # "unused" => run[c].wid \in Wid /\ run[c].info \in 0..MaxRuns
                                       /\ run[c].by \in Creator
                                       /\ run[c].steps \in 0..MaxSteps
  /\ delivered \in [Task -> 0..MaxDeliveries]

\* "Spawn/manage/monitor worker instances (pool max 3)": of the tasks the listener
\* took, no more are worked on than the pool has workers, although nothing but the
\* count of running workers, taken before the poll, limits it.
WithinPool ==
  Cardinality({c \in Run : Working(c) /\ run[c].by = "listener"}) <= MaxWorkers

\* A coroutine at work can be found and cancelled: its id leads to it and to the
\* WorkerInfo it writes, which shows it running.  Only a restarted one is not, as
\* _run_worker keeps no handle of it.
WorkIsTracked ==
  \A c \in Run : Working(c) /\ run[c].by # "restart" =>
    /\ handle[run[c].wid] = c \/ sup = "stopped"
    /\ pool[run[c].wid] = run[c].info /\ info[run[c].info].status = "running"

\* The worker of a WorkerInfo was restarted.
Restarted(i) == \E c \in Run : CreatedBy(c, "restart") /\ run[c].wid = run[i].wid

\* cancel_worker and stop() are final: the CANCELLED status they write, over whatever the
\* coroutine has written, is not overwritten by a coroutine that goes on, unless the
\* worker had been restarted.
CancelIsFinal ==
  [][\A i \in Run : info[i].status = "cancelled" /\ ~Restarted(i) =>
       info'[i].status = "cancelled"]_vars

\* Two coroutines never work on behalf of one WorkerInfo, not even when one crashes and
\* _run_worker looks the id up again.
OneWriter ==
  \A c, d \in Run : c # d /\ Working(c) /\ Working(d) => run[c].info # run[d].info

\* Every worker that has started ends, by itself or by its timeout, and leaves the
\* pool a minute later, unless a callback makes it crash.
PoolDrains ==
  \A c \in Run :
    (sup = "running" /\ run[c].phase = "received")
      ~> (sup # "running" \/ (\A w \in Wid : pool[w] # c) \/ info[c].status = "crashed")

\* The listener keeps to the pool, and each coroutine at work is the only one that its id
\* and its WorkerInfo lead to, through restarts, cancellations and clean-ups.
PoolInv == TypeOK /\ WithinPool /\ WorkIsTracked /\ OneWriter
=============================================================================
