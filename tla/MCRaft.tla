-------------------------------- MODULE MCRaft --------------------------------
(* Small instances of Raft: clusters of two and three nodes.                  *)
EXTENDS Raft, TLC

CONSTANTS n1, n2, n3, a, b

\* Nodes and commands are interchangeable.
Alike == Permutations(Node) \cup Permutations(Command)

\* Next without restarts, and without the late heartbeats of a leader that committed
\* alone, which three nodes never do; MCCluster has both.
SteadyNext ==
  \E n \in Node :
    \/ BecomeCandidate(n) \/ Proceed(n) \/ Handle(n)
    \/ \E c \in Command : Propose(n, c)

SteadySpec == Init /\ [][SteadyNext]_vars
=============================================================================
