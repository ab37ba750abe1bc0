---------------------------- MODULE MCCoordinator ----------------------------
(* Small instances of TaskQueue and Coordinator.  t1 is the more urgent task, *)
(* t2 asks for the capability of n2.                                          *)
EXTENDS Coordinator

CONSTANTS t1, t2, n1, n2, tagA

VARIABLE busy    \* n2 alone has two tasks to share out, not n1 and n2 one

MCPriority == [t \in Task |-> IF t = t1 THEN 1 ELSE 0]
MCAffinity == [t \in Task |-> IF t = t2 THEN tagA ELSE NoTag]
MCPrimaryCap == [n \in Node |-> IF n = n2 THEN tagA ELSE NoTag]

\* CNext when no worker crashes and no report of one is lost (MCGrid has both), with one
\* node for two tasks, or two nodes, of which n2 may die, for one and a coordinator that
\* stops or crashes.
ReliableNext ==
  /\ \/ LoopStep
     \/ \E t \in Task : SubmitTask(t) \/ CancelTask(t)
     \/ \E n \in Node : \/ Heartbeat(n) \/ PollTasks(n)
                        \/ HeartbeatAges(n) \/ NodeDies(n)
                        \/ \E t \in Task : \/ WorkerEnds(n, t)
                                           \/ \E b \in BOOLEAN : ReportResult(n, t, b)
     \/ Reassign \/ StaleNodeCleanup
     \/ Stop \/ Start \/ Crash
  /\ IF busy THEN reg'[n1] = "unregistered" /\ up' = Node /\ restarts' = 0
             ELSE used' \subseteq {t1} /\ n1 \in up'
  /\ UNCHANGED busy

ReliableInit == CInit /\ busy \in BOOLEAN
ReliableSpec == ReliableInit /\ [][ReliableNext]_<<vars, busy>> /\ Fairness

SharedInit == CInit /\ busy = FALSE
DeliverySpec == SharedInit /\ [][CNext /\ UNCHANGED busy]_<<vars, busy>> /\ FullFairness

\* TaskQueue on its own: the handlers of the coordinator and the nodes do nothing.
QueueNext == Next /\ UNCHANGED <<ctl, active, nodes, env, busy>>
QueueSpec == SharedInit /\ [][QueueNext]_<<vars, busy>>
=============================================================================
