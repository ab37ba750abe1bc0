------------------------------ MODULE MCCluster ------------------------------
(* The two parts of the cluster whose progress depends on timing, one at a    *)
(* time, since they share no state: the bridge of one node, and the lock of   *)
(* two Raft nodes that call each other.                                       *)
EXTENDS RaftBridge

CONSTANTS n1, n2, a, b, NoNode

VARIABLES
  part,   \* which of the two runs
  role, term, votedFor, log, commit, done, call, votes, late, msgs, restarts

raft == <<role, term, votedFor, log, commit, done, call, votes, late, msgs, restarts>>

R == INSTANCE Raft WITH Node <- {n1, n2}, Command <- {a, b},
                        MaxTerm <- 2, MaxLog <- 1, MaxRestarts <- 1

OnBridge(A) == part = "bridge" /\ A /\ UNCHANGED <<part, raft>>
OnLock(A)   == part = "lock" /\ A /\ UNCHANGED <<part, bridgeVars>>

ClusterInit == part \in {"bridge", "lock"} /\ BridgeInit /\ R!Init

ClusterNext == OnBridge(BridgeNext) \/ OnLock(R!Next)

\* The fairness of the two specifications, each while its part runs.
ClusterSpec ==
  /\ ClusterInit /\ [][ClusterNext]_<<part, bridgeVars, raft>>
  /\ WF_bridgeVars(OnBridge(RunTask))
  /\ \A n \in {n1, n2} : /\ WF_raft(OnLock(R!Proceed(n)))
                         /\ WF_raft(OnLock(R!Handle(n)))
                         /\ WF_raft(OnLock(R!ApplyLate(n)))

\* Raft!LockIsReleased, for two nodes
LockIsReleased == R!LockIsReleased
=============================================================================
