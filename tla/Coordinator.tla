----------------------------- MODULE Coordinator -----------------------------
(***************************************************************************)
(* The coordinator of the agent grid (engine/agent_runtime/coordinator.py) *)
(* with its agent registry and scheduler, over the task queue of module    *)
(* TaskQueue, and the worker nodes as their calls show them.                *)
(*                                                                         *)
(* One asyncio event loop runs the coordinator.  Its handlers await only   *)
(* calls that do not suspend, so a handler runs to its end before another  *)
(* starts; ctl is the handler under way, one loop iteration per step, and  *)
(* only a crash of the process comes between its steps.                    *)
(***************************************************************************)
EXTENDS TaskQueue, Integers

CONSTANTS
  PrimaryCap,   \* [Node -> Tag \cup {NoTag}]: capabilities[0] of the node
  MaxWorkers,   \* max_workers of every node
  AssignBatch,  \* the 50 of Scheduler.try_assign
  MaxRestarts,  \* bound: crashes and stops of the coordinator
  MaxDeaths,    \* bound: worker nodes that die
  MaxLost       \* bound: answers and reports lost on the way

ASSUME CoordinatorAssumption ==
  /\ PrimaryCap \in [Node -> Tag \cup {NoTag}]
  /\ MaxWorkers \in Nat \ {0} /\ AssignBatch \in Nat \ {0}
  /\ MaxRestarts \in Nat /\ MaxDeaths \in Nat /\ MaxLost \in Nat
  /\ IsFiniteSet(Task)

VARIABLES
  ctl,       \* the handler the event loop is running
  active,    \* _running: start() was called and stop() was not
  reg,       \* the registry's view of a node, by the age of its heartbeat
  load,      \* active_workers as the last heartbeat reported it
  up,        \* nodes whose supervisor is alive
  running,   \* [Node -> SUBSET Task]: tasks handed to the node and not reported
  worker,    \* what the node's WorkerInfo of such a task shows
  requeued,  \* tasks made available again though a worker may still run them
  restarts, deaths, lost

nodes == <<reg, load>>
pool  == <<running, worker>>
env   == <<up, pool, requeued, restarts, deaths, lost>>
vars  == <<queue, ctl, active, nodes, env>>

Idle == [op |-> "idle"]

\* The age of last_heartbeat against heartbeat_ttl: a node registered by its
\* first heartbeat has none yet, "old" is past the ttl, "stale" past 3 * ttl.
Age == {"unregistered", "none", "fresh", "old", "stale"}
IsAlive(n) == reg[n] = "fresh"

\* A worker runs its task, waits as crashed for its restart, runs it again, or has
\* ended and its report is under way.
WorkerPhase == {"running", "crashed", "restarted", "ended"}

\* active_worker_count: the workers whose status is RUNNING
Active(n) == {t \in running[n] : worker[n][t] \in {"running", "restarted"}}

CInit ==
  /\ Init
  /\ ctl = Idle /\ active = TRUE
  /\ reg = [n \in Node |-> "unregistered"] /\ load = [n \in Node |-> 0]
  /\ up = Node /\ requeued = {}
  /\ running = [n \in Node |-> {}]
  /\ worker = [n \in Node |-> [t \in Task |-> "running"]]
  /\ restarts = 0 /\ deaths = 0 /\ lost = 0

-----------------------------------------------------------------------------
\* The scheduler

\* find_best_node for the affinity of t: the capable nodes, however loaded,
\* and else any live node with a free slot; the least loaded of them.
Capable(t) == {n \in Node : IsAlive(n) /\ Affinity[t] # NoTag
                                       /\ PrimaryCap[n] = Affinity[t]}
\* Variant: a node counts as full one worker too early
WithSlotOffByOne == {n \in Node : IsAlive(n) /\ load[n] + 1 < MaxWorkers}
WithSlot   == {n \in Node : IsAlive(n) /\ load[n] < MaxWorkers}
Suitable(t) == IF Capable(t) # {} THEN Capable(t) ELSE WithSlot
BestNodes(t) == {n \in Suitable(t) : \A m \in Suitable(t) : load[n] <= load[m]}

\* What is left of try_assign's loop, once k iterations remain
Assigning(k) == IF k = 0 THEN Idle ELSE [op |-> "assign", left |-> k]

StartAssign(depth) ==
  ctl' = Assigning(IF depth < AssignBatch THEN depth ELSE AssignBatch)

AssignStep(t) ==
  /\ ctl.op = "assign"
  /\ \E n \in BestNodes(t) : Assign(t, n, NoTag)
  /\ ctl' = Assigning(ctl.left - 1)
  /\ UNCHANGED <<active, nodes, env>>

AssignPutBack(t) ==
  /\ ctl.op = "assign" /\ BestNodes(t) = {}
  /\ PutBack(t)
  /\ ctl' = Idle
  /\ UNCHANGED <<active, nodes, env>>

AssignNone ==
  /\ ctl.op = "assign"
  /\ DequeueNone(NoTag)
  /\ ctl' = Idle
  /\ UNCHANGED <<active, nodes, env>>

-----------------------------------------------------------------------------
\* Calls of clients and workers

SubmitTask(t) ==
  /\ ctl = Idle
  /\ Enqueue(t)
  /\ StartAssign(Cardinality(queuedIds'))
  /\ UNCHANGED <<active, nodes, env>>

\* A registered node's heartbeat makes it alive; an unknown node is registered
\* with no heartbeat on record.  Both then try to assign.
Heartbeat(n) ==
  /\ ctl = Idle /\ n \in up
  /\ IF reg[n] = "unregistered"
     THEN /\ reg' = [reg EXCEPT ![n] = "none"]
          /\ load' = [load EXCEPT ![n] = 0]
     ELSE /\ reg' = [reg EXCEPT ![n] = "fresh"]
          /\ load' = [load EXCEPT ![n] = Cardinality(Active(n))]
  /\ StartAssign(Cardinality(queuedIds))
  /\ UNCHANGED <<queue, active, env>>

\* poll_tasks: the supervisor asks for as many tasks as it has workers that are not
\* RUNNING, the crashed ones that wait for their restart among them.
\* Variant: the stale load of the last heartbeat alone decides
FreeSlotsByHeartbeat(n) == MaxWorkers - load[n]

FreeSlots(n) ==
  LET asked == MaxWorkers - Cardinality(Active(n))
      room  == MaxWorkers - load[n]
  IN  IF asked < room THEN asked ELSE room

Polling(n, k, got, tag) ==
  [op |-> IF k = 0 THEN "answer" ELSE "poll",
   node |-> n, left |-> k, got |-> got, tag |-> tag]

PollTasks(n) ==
  /\ ctl = Idle /\ n \in up /\ reg[n] # "unregistered"
  /\ FreeSlots(n) > 0
  /\ ctl' = Polling(n, FreeSlots(n), {}, PrimaryCap[n])
  /\ UNCHANGED <<queue, active, nodes, env>>

PollStep(t) ==
  /\ ctl.op = "poll"
  /\ Assign(t, ctl.node, ctl.tag)
  /\ ctl' = Polling(ctl.node, ctl.left - 1, ctl.got \cup {t}, PrimaryCap[ctl.node])
  /\ UNCHANGED <<active, nodes, env>>

\* No task for the node's capability: try without one, then stop.
PollNone ==
  /\ ctl.op = "poll"
  /\ DequeueNone(ctl.tag)
  /\ ctl' = IF ctl.tag # NoTag THEN [ctl EXCEPT !.tag = NoTag]
                              ELSE [ctl EXCEPT !.op = "answer"]
  /\ UNCHANGED <<active, nodes, env>>

\* The answer reaches the node, which spawns a worker per task, or it is lost.
PollAnswer ==
  /\ ctl.op = "answer"
  /\ \/ /\ ctl.node \in up
        /\ running' = [running EXCEPT ![ctl.node] = @ \cup ctl.got]
        /\ worker' = [worker EXCEPT ![ctl.node] =
                        [t \in Task |-> IF t \in ctl.got THEN "running" ELSE @[t]]]
        /\ lost' = lost
     \/ /\ lost < MaxLost \/ ctl.node \notin up
        /\ lost' = IF ctl.node \in up THEN lost + 1 ELSE lost
        /\ UNCHANGED pool
  /\ ctl' = Idle
  /\ UNCHANGED <<queue, active, nodes, up, requeued, restarts, deaths>>

\* _run_worker's task raises, is run again after worker_restart_delay without asking
\* for a slot, or ends.
WorkerMoves(n, t, from, to) ==
  /\ t \in running[n] /\ worker[n][t] \in from
  /\ worker' = [worker EXCEPT ![n][t] = to]
  /\ UNCHANGED <<queue, ctl, active, nodes, up, running, requeued, restarts, deaths, lost>>

WorkerCrashes(n, t)  == WorkerMoves(n, t, {"running", "restarted"}, "crashed")
WorkerRestarts(n, t) == WorkerMoves(n, t, {"crashed"}, "restarted")
WorkerEnds(n, t)     == WorkerMoves(n, t, {"running", "restarted"}, "ended")

\* The report of t's end left the node.
WorkerDone(n, t) ==
  /\ t \in running[n] /\ worker[n][t] = "ended"
  /\ running' = [running EXCEPT ![n] = @ \ {t}]
  /\ worker' = [worker EXCEPT ![n][t] = "running"]

\* report_result: neither the task's status nor its node is looked at.
ReportResult(n, t, success) ==
  /\ ctl = Idle
  /\ IF ~Known(t) THEN UNCHANGED queue
     ELSE IF success THEN Complete(t) ELSE Fail(t, TRUE)
  /\ WorkerDone(n, t)
  /\ UNCHANGED <<ctl, active, nodes, up, requeued, restarts, deaths, lost>>

LoseReport(n, t) ==
  /\ lost < MaxLost
  /\ WorkerDone(n, t) /\ lost' = lost + 1
  /\ UNCHANGED <<queue, ctl, active, nodes, up, requeued, restarts, deaths>>

CancelTask(t) ==
  /\ ctl = Idle
  /\ Cancel(t)
  /\ UNCHANGED <<ctl, active, nodes, env>>

-----------------------------------------------------------------------------
\* Background loops and time

\* _task_reassign_loop takes the list of tasks assigned to registered nodes
\* that are not alive, then fails them one by one.
OnDeadNode == {t \in Task : /\ task[t].status = "ASSIGNED"
                            /\ task[t].node \in Node
                            /\ reg[task[t].node] \notin {"unregistered", "fresh"}}

Reassign ==
  /\ ctl = Idle /\ active /\ OnDeadNode # {}
  /\ ctl' = [op |-> "reassign", todo |-> OnDeadNode]
  /\ UNCHANGED <<queue, active, nodes, env>>

\* The loop clears assigned_node of the task object, which no log entry says, and
\* calls fail(retry=True) on it.
Released(r) == [r EXCEPT !.node = NoNode]

FailReleased(t) ==
  /\ Known(t)
  /\ IF task[t].retries < task[t].max THEN Retry(t) ELSE GiveUp(t, Released(task[t]))

ReassignStep(t) ==
  /\ ctl.op = "reassign" /\ t \in ctl.todo
  /\ FailReleased(t)
  /\ ctl' = IF ctl.todo = {t} THEN Idle ELSE [ctl EXCEPT !.todo = @ \ {t}]
  /\ requeued' = requeued \cup {t}
  /\ UNCHANGED <<active, nodes, up, pool, restarts, deaths, lost>>

\* cleanup_stale_nodes
StaleNodeCleanup ==
  /\ ctl = Idle /\ active /\ \E n \in Node : reg[n] = "stale"
  /\ reg' = [n \in Node |-> IF reg[n] = "stale" THEN "unregistered" ELSE reg[n]]
  /\ UNCHANGED <<queue, ctl, active, load, env>>

\* Variant: a stale node ages into a class of its own
HeartbeatAgesOn(n) ==
  /\ ctl = Idle /\ reg[n] \in {"fresh", "old", "stale"}
  /\ reg' = [reg EXCEPT ![n] = CASE @ = "fresh" -> "old" [] @ = "old" -> "stale"
                                 [] OTHER -> "lost"]
  /\ UNCHANGED <<queue, ctl, active, load, env>>

\* Time passes without a heartbeat of n; a handler is short against the ttl.
HeartbeatAges(n) ==
  /\ ctl = Idle /\ reg[n] \in {"fresh", "old"}
  /\ reg' = [reg EXCEPT ![n] = IF @ = "fresh" THEN "old" ELSE "stale"]
  /\ UNCHANGED <<queue, ctl, active, load, env>>

NodeDies(n) ==
  /\ n \in up /\ deaths < MaxDeaths
  /\ up' = up \ {n} /\ deaths' = deaths + 1
  /\ running' = [running EXCEPT ![n] = {}]
  /\ worker' = [worker EXCEPT ![n] = [t \in Task |-> "running"]]
  /\ UNCHANGED <<queue, ctl, active, nodes, requeued, restarts, lost>>

-----------------------------------------------------------------------------
\* Stopping, starting and crashing

\* start(): a new queue from the log, an empty registry.
FreshStart ==
  /\ Reopen
  /\ ctl' = Idle /\ active' = TRUE
  /\ reg' = [n \in Node |-> "unregistered"] /\ load' = [n \in Node |-> 0]

\* stop() compacts the log, which makes assigned tasks queued again.
Stop ==
  /\ ctl = Idle /\ active /\ restarts < MaxRestarts
  /\ Close
  /\ active' = FALSE /\ restarts' = restarts + 1
  /\ requeued' = requeued \cup StatusIs({"ASSIGNED"})
  /\ UNCHANGED <<ctl, nodes, up, pool, deaths, lost>>

Start ==
  /\ ctl = Idle /\ ~active
  /\ FreshStart
  /\ requeued' = requeued \cup dirty
  /\ UNCHANGED <<up, pool, restarts, deaths, lost>>

Crash ==
  /\ restarts < MaxRestarts
  /\ FreshStart
  /\ restarts' = restarts + 1
  /\ requeued' = requeued \cup dirty
  /\ UNCHANGED <<up, pool, deaths, lost>>

LoopStep ==
  \/ \E t \in Task : AssignStep(t) \/ AssignPutBack(t) \/ PollStep(t)
                                   \/ ReassignStep(t)
  \/ AssignNone \/ PollNone \/ PollAnswer

CNext ==
  \/ LoopStep
  \/ \E t \in Task : SubmitTask(t) \/ CancelTask(t)
  \/ \E n \in Node : \/ Heartbeat(n) \/ PollTasks(n)
                     \/ HeartbeatAges(n) \/ NodeDies(n)
                     \/ \E t \in Task : \/ WorkerCrashes(n, t) \/ WorkerRestarts(n, t)
                                        \/ WorkerEnds(n, t) \/ LoseReport(n, t)
                                        \/ \E b \in BOOLEAN : ReportResult(n, t, b)
  \/ Reassign \/ StaleNodeCleanup
  \/ Stop \/ Start \/ Crash

CSpec == CInit /\ [][CNext]_vars

\* asyncio runs ready callbacks in the order they became ready, so a handler runs to
\* its end.  Submitting, cancelling, stopping and failing are optional, and that a node
\* calls again is for its client to see to: the code has no such promise.
Fairness == WF_vars(LoopStep)

\* Clients that keep calling, workers that end, the two background loops, which sleep on
\* a timer, and time that passes for a node that stopped sending: what a reader of
\* poll_tasks would take for granted.
FullFairness ==
  /\ Fairness
  /\ SF_vars(Reassign) /\ SF_vars(StaleNodeCleanup) /\ WF_vars(Start)
  /\ \A n \in Node :
       /\ SF_vars(Heartbeat(n)) /\ SF_vars(PollTasks(n))
       /\ SF_vars(n \notin up /\ HeartbeatAges(n))
       /\ \A t \in Task : SF_vars(WorkerEnds(n, t))
  /\ SF_vars(\E n \in Node, t \in Task, b \in BOOLEAN : ReportResult(n, t, b))

CFullSpec == CSpec /\ FullFairness

-----------------------------------------------------------------------------
\* Properties

\* The coordinator's state and the handler under way keep their types.
CTypeOK ==
  /\ TypeOK
  /\ ctl.op \in {"idle", "assign", "poll", "answer", "reassign"}
  /\ active \in BOOLEAN
  /\ reg \in [Node -> Age] /\ load \in [Node -> Nat]
  /\ up \subseteq Node /\ running \in [Node -> SUBSET Task]
  /\ worker \in [Node -> [Task -> WorkerPhase]]
  /\ requeued \subseteq Task

\* While nobody but its worker touched it, a task a node is running is still
\* assigned to that very node, across crashes, failed writes, lost answers and
\* reassignments of other tasks; a cancelled one may even be forgotten.
RunningTaskIsAssigned ==
  \A n \in Node : \A t \in running[n] \ requeued :
    \/ task[t].status = "ASSIGNED" /\ task[t].node = n
    \/ task[t].status \in {"CANCELLED", "absent"}

\* A completed task is not run again, unless the reassignment loop, a stop or a
\* failed log write had made it available a second time: only then can a late
\* failure report overwrite the result.
CompletedTaskIsFinal ==
  [][\A t \in Task \ requeued' :
       task[t].status = "COMPLETED" =>
         task'[t].status \in {"COMPLETED", "CANCELLED", "absent"}]_vars

\* A node's workers are never given more to run than there are workers, though the
\* registry learns of its load only from heartbeats, and a crashed worker is offered as
\* free: only the restarts, which ask for no slot, can come on top.
WithinCapacity ==
  \A n \in Node : Cardinality({t \in running[n] : worker[n][t] = "running"}) <= MaxWorkers

\* Again and again some registered node reports a free worker.
FreeNodesCall ==
  []<><<\E n \in Node : /\ Heartbeat(n) /\ reg[n] # "unregistered"
                          /\ load'[n] < MaxWorkers>>_vars

\* As long as nodes with a free worker keep sending heartbeats, a queued task does not
\* stay queued, whatever its priority and affinity: no task that is put back, retried or
\* given away again keeps the scheduler's loop from it.
QueuedTaskIsTaken ==
  FreeNodesCall =>
    \A t \in Task : task[t].status = "QUEUED" ~> task[t].status # "QUEUED"

\* "Worker nodes call this to get new tasks" (poll_tasks): a queued task gets
\* to some worker, if it is not cancelled before.
QueuedTaskIsDelivered ==
  \A t \in Task : task[t].status = "QUEUED" ~>
    (\E n \in Node : t \in running[n]) \/ task[t].status \notin Live

\* The coordinator keeps the types of its state, and a task a node is running stays
\* assigned to it through crashes, lost answers and reassignments.
CoordinatorInv == CTypeOK /\ RunningTaskIsAssigned
=============================================================================
