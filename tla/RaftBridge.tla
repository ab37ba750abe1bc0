------------------------------ MODULE RaftBridge ------------------------------
(***************************************************************************)
(* The bridge that promotes and demotes a node's coordinator as the node    *)
(* wins and loses Raft leadership                                           *)
(* (engine/agent_runtime/coordinator_raft_bridge.py, with start and stop of *)
(* coordinator.py).                                                         *)
(*                                                                         *)
(* One event loop runs the coordinator.  A callback of Raft only creates a  *)
(* task on it; tasks start in the order they were created, and give way at  *)
(* the sleep of a promotion and while stop() gathers the background loops.  *)
(* elect_leader, force_election and step_down are plain calls, though: made *)
(* where no loop runs, they reach the bridge's synchronous fallbacks, which *)
(* create no task.                                                          *)
(***************************************************************************)
EXTENDS Naturals, Sequences

CONSTANTS
  Caller,          \* where leadership changes: on the "loop", in a thread without an
                   \* event loop ("handler"), where the loop is not running ("main")
  MaxElections,    \* bound: elections won
  MaxForced,       \* bound: attach, detach and forced changes
  MaxFaults        \* bound: starts that raise

ASSUME BridgeAssumption ==
  /\ Caller \subseteq {"loop", "handler", "main"}
  /\ MaxElections \in Nat /\ MaxForced \in Nat /\ MaxFaults \in Nat

VARIABLES
  leader,     \* the Raft node's role is LEADER
  hooked,     \* Raft's callbacks are the bridge's
  state,      \* BridgeState
  tasks,      \* the bridge's tasks on the loop, those that run in order of their start
  running,    \* _running of the coordinator
  wal,        \* the log of the coordinator's current task queue
  loops,      \* _tasks of the coordinator is not empty
  unseen,     \* the last change of leadership reached the bridge where no loop runs
  elections, forced, faults

coordinator == <<running, wal, loops>>
counts == <<elections, forced, faults>>
bridgeVars == <<leader, hooked, state, tasks, coordinator, unseen, counts>>

Kind == {"promote", "demote", "stop"}
At(k, s) == [kind |-> k, stage |-> s]

BridgeInit ==
  /\ leader = FALSE /\ hooked = TRUE /\ state = "standby" /\ tasks = <<>>
  /\ running = FALSE /\ wal = "none" /\ loops = FALSE
  /\ unseen = FALSE /\ elections = 0 /\ forced = 0 /\ faults = 0

\* The i-th task is the next one of its stage, and what is left without it
IsNext(i, s) == tasks[i].stage = s /\ \A j \in 1..(i - 1) : tasks[j].stage # s
Without(i) == SubSeq(tasks, 1, i - 1) \o SubSeq(tasks, i + 1, Len(tasks))

-----------------------------------------------------------------------------
\* Callbacks of Raft

\* The bridge hears of the change where no loop runs
OffLoop(caller) == hooked /\ caller # "loop"

\* _on_leader_elected, under force_election; off the loop _promote_sync, which gives up
\* where get_event_loop raises, and does nothing at all where the loop is not running
LeaderElected(caller) ==
  /\ ~leader /\ elections < MaxElections
  /\ leader' = TRUE /\ elections' = elections + 1 /\ unseen' = OffLoop(caller)
  /\ state' = CASE ~hooked -> state
                [] hooked /\ caller = "handler" -> "standby"
                [] OTHER -> "transitioning"
  /\ tasks' = IF hooked /\ caller = "loop" THEN Append(tasks, At("promote", "new")) ELSE tasks
  /\ UNCHANGED <<hooked, coordinator, forced, faults>>

\* Variant: a bridge that is not active has nothing to demote.
StepDownIfActive(caller) ==
  /\ leader /\ leader' = FALSE /\ unseen' = OffLoop(caller)
  /\ IF hooked /\ state = "active"
     THEN state' = "transitioning" /\ tasks' = Append(tasks, At("demote", "new"))
     ELSE UNCHANGED <<state, tasks>>
  /\ UNCHANGED <<hooked, coordinator, counts>>

\* _on_step_down; off the loop _demote_sync, which does not stop the coordinator
StepDown(caller) ==
  /\ leader /\ leader' = FALSE /\ unseen' = OffLoop(caller)
  /\ CASE hooked /\ caller = "loop" ->
            state' = "transitioning" /\ tasks' = Append(tasks, At("demote", "new"))
       [] OffLoop(caller) -> state' = "standby" /\ tasks' = tasks
       [] OTHER -> UNCHANGED <<state, tasks>>
  /\ UNCHANGED <<hooked, coordinator, counts>>

-----------------------------------------------------------------------------
\* Tasks on the loop

\* CoordinatorNode.start, then the wait for workers to register again
Started(rest) ==
  /\ tasks' = Append(rest, At("promote", "waiting"))
  /\ running' = TRUE
  /\ IF running THEN UNCHANGED <<wal, loops>> ELSE wal' = "open" /\ loops' = TRUE

\* _promote_coordinator
Promote(i) ==
  /\ IsNext(i, "new") /\ tasks[i].kind = "promote"
  /\ Started(Without(i))
  /\ UNCHANGED <<leader, hooked, unseen, state, counts>>

\* Variant: a failed promotion leaves the state as it was.
StartRaisesQuietly(rest) ==
  /\ ~running /\ faults < MaxFaults
  /\ running' = TRUE /\ faults' = faults + 1
  /\ tasks' = rest
  /\ UNCHANGED <<state, wal, loops>>

\* The task queue cannot be opened: start raises after it has set _running
StartRaises(rest) ==
  /\ ~running /\ faults < MaxFaults
  /\ running' = TRUE /\ faults' = faults + 1
  /\ state' = "standby" /\ tasks' = rest
  /\ UNCHANGED <<wal, loops>>

PromoteFails(i) ==
  /\ IsNext(i, "new") /\ tasks[i].kind = "promote"
  /\ StartRaises(Without(i))
  /\ UNCHANGED <<leader, hooked, unseen, elections, forced>>

\* The sleep is over: try_assign, and the bridge is active
Promoted(i) ==
  /\ IsNext(i, "waiting")
  /\ state' = "active" /\ tasks' = Without(i)
  /\ UNCHANGED <<leader, hooked, unseen, coordinator, counts>>

\* Variant: the bridge takes over the coordinator's own status.
ClosedAsStopped(kind, rest) ==
  /\ tasks' = rest /\ loops' = FALSE
  /\ wal' = IF wal = "none" THEN "none" ELSE "closed"
  /\ state' = IF kind = "demote" THEN "stopped" ELSE state

\* The end of CoordinatorNode.stop, with what _demote_coordinator does after it
Closed(kind, rest) ==
  /\ tasks' = rest /\ loops' = FALSE
  /\ wal' = IF wal = "none" THEN "none" ELSE "closed"
  /\ state' = IF kind = "demote" THEN "standby" ELSE state

\* CoordinatorNode.stop: it gives way only if there are background loops to gather
Stopped(kind, rest) ==
  /\ running' = FALSE
  /\ IF loops
     THEN tasks' = Append(rest, At(kind, "gathering")) /\ UNCHANGED <<wal, loops, state>>
     ELSE Closed(kind, rest)

Stop(i) ==
  /\ IsNext(i, "new") /\ tasks[i].kind # "promote"
  /\ Stopped(tasks[i].kind, Without(i))
  /\ UNCHANGED <<leader, hooked, unseen, counts>>

\* self.task_queue and self._tasks are read again after the gathering
StopEnds(i) ==
  /\ IsNext(i, "gathering")
  /\ Closed(tasks[i].kind, Without(i))
  /\ UNCHANGED <<leader, hooked, unseen, running, counts>>

-----------------------------------------------------------------------------
\* Calls on the bridge itself, on the loop

Attach ==
  /\ state = "detached" /\ forced < MaxForced
  /\ hooked' = TRUE /\ state' = "standby" /\ forced' = forced + 1
  /\ UNCHANGED <<leader, tasks, coordinator, unseen, elections, faults>>

Detach ==
  /\ state # "detached" /\ forced < MaxForced
  /\ hooked' = FALSE /\ state' = "detached" /\ forced' = forced + 1
  /\ tasks' = IF state = "active" THEN Append(tasks, At("stop", "new")) ELSE tasks
  /\ UNCHANGED <<leader, coordinator, unseen, elections, faults>>

ForcePromotion ==
  /\ state # "active" /\ forced < MaxForced
  /\ \/ Started(tasks) /\ UNCHANGED <<state, faults>>
     \/ StartRaises(tasks)
  /\ forced' = forced + 1
  /\ UNCHANGED <<leader, hooked, unseen, elections>>

ForceDemotion ==
  /\ state = "active" /\ forced < MaxForced
  /\ Stopped("demote", tasks) /\ forced' = forced + 1
  /\ UNCHANGED <<leader, hooked, unseen, elections, faults>>

RunTask ==
  \E i \in DOMAIN tasks :
    Promote(i) \/ PromoteFails(i) \/ Promoted(i) \/ Stop(i) \/ StopEnds(i)

BridgeNext ==
  \/ \E c \in Caller : LeaderElected(c) \/ StepDown(c)
  \/ RunTask
  \/ Attach \/ Detach \/ ForcePromotion \/ ForceDemotion

BridgeSpec == BridgeInit /\ [][BridgeNext]_bridgeVars
\* The loop gets to run its tasks.
BridgeLiveSpec == BridgeSpec /\ WF_bridgeVars(RunTask)

-----------------------------------------------------------------------------
\* Properties

\* The state of the bridge and of its tasks is well formed.
BridgeTypeOK ==
  /\ leader \in BOOLEAN /\ hooked \in BOOLEAN /\ running \in BOOLEAN /\ loops \in BOOLEAN
  /\ unseen \in BOOLEAN
  /\ state \in {"detached", "standby", "active", "transitioning"}
  /\ wal \in {"none", "open", "closed"}
  /\ \A i \in DOMAIN tasks : /\ tasks[i].kind \in Kind
                             /\ tasks[i].stage \in {"new", "waiting", "gathering"}

Settled == tasks = <<>>

\* "Promotes/demotes the Coordinator accordingly": however fast leadership comes
\* and goes, once the bridge's tasks have run the coordinator runs on the leader
\* and nowhere else, as long as nobody forced it, it could be started, and the last
\* change of leadership came on the event loop. (Of one that came off it the bridge
\* keeps nothing: a new leader's coordinator stays stopped, an old one's runs on.)
CoordinatorFollowsLeader ==
  Settled /\ forced = 0 /\ faults = 0 /\ ~unseen => (running <=> leader)

\* A change of leadership that came on the loop does not leave the bridge in transition,
\* whatever fails or is forced after it, and wherever leadership changes again. (An
\* election made where the loop is not running does.)
BridgeSettles == (state = "transitioning" /\ ~unseen) ~> (state # "transitioning")

\* The bridge keeps its types, and the coordinator follows the leadership.
BridgeInv == BridgeTypeOK /\ CoordinatorFollowsLeader
=============================================================================
