--------------------------------- MODULE Raft ---------------------------------
(***************************************************************************)
(* Leader election and log replication between engine nodes                 *)
(* (engine/raft_consensus.py over engine/raft_transport.py).                *)
(*                                                                         *)
(* A node calls its peers one after the other and keeps its lock while it   *)
(* does, so a request that reaches it meanwhile waits for the lock.  Each   *)
(* call is a TCP connection of its own: a request may be lost, or handled   *)
(* after the caller gave up waiting; requests are not duplicated.  A        *)
(* message that is never handled stands for a lost one.                     *)
(*                                                                         *)
(* Indices are counted from 1: commit and the length of done are            *)
(* commit_index + 1 and last_applied + 1.                                   *)
(***************************************************************************)
EXTENDS Naturals, Sequences, FiniteSets

CONSTANTS
  Node,
  Command,     \* what clients propose
  NoNode,
  MaxTerm,     \* bound: terms
  MaxLog,      \* bound: proposals, and length of a log that is handed out
  MaxRestarts  \* bound: restarts

ASSUME RaftAssumption ==
  /\ IsFiniteSet(Node) /\ NoNode \notin Node
  /\ MaxTerm \in Nat /\ MaxLog \in Nat /\ MaxRestarts \in Nat

VARIABLES
  role, term, votedFor,
  log,       \* the entries, saved to disk at each change
  commit,
  done,      \* the commands applied to the state machine since the start
  call,      \* the calls a node is making, under its lock
  votes,     \* who voted for it in its last election
  late,      \* nodes with a handler that waits for the lock to apply entries
  msgs,      \* requests and replies under way
  restarts

vars == <<role, term, votedFor, log, commit, done, call, votes, late, msgs, restarts>>

\* kind of the calls, peers still to be called, and the one whose vote is awaited
Free == [kind |-> "none", todo |-> {}, asked |-> NoNode]
Calls(kind, n) == [kind |-> kind, todo |-> Node \ {n}, asked |-> NoNode]
IsFree(n) == call[n].kind = "none"

Entry == [term : 1..MaxTerm, cmd : Command]
LastTerm(l) == IF l = <<>> THEN 0 ELSE l[Len(l)].term

\* Variant: half of the peers is enough.
WinsHalf(V) == Cardinality(V) >= (Cardinality(Node) - 1) \div 2

\* votes > len(self.peers) // 2, where peers leaves the node itself out
Peers == Cardinality(Node) - 1
Wins(V) == Cardinality(V) > Peers \div 2
\* len(acks) >= len(self.peers) // 2 + 1; the acks are the leader's own, since
\* nothing calls ack_entry
CommitsAlone == 1 >= Peers \div 2 + 1

Min2(a, b) == IF a < b THEN a ELSE b

\* _apply_committed: last_applied goes up before the entry is read, so that an
\* index past the end of the log raises and leaves that entry out
Skipped == "skipped"
Applied(n, l, c) ==
  LET d   == done[n]
      end == Min2(c, 1 + IF Len(l) > Len(d) THEN Len(l) ELSE Len(d))
  IN  IF Len(d) >= c THEN d
      ELSE d \o [i \in 1..(end - Len(d)) |->
                  IF Len(d) + i <= Len(l) THEN l[Len(d) + i].cmd ELSE Skipped]

Init ==
  /\ role = [n \in Node |-> "follower"] /\ term = [n \in Node |-> 0]
  /\ votedFor = [n \in Node |-> NoNode] /\ log = [n \in Node |-> <<>>]
  /\ commit = [n \in Node |-> 0] /\ done = [n \in Node |-> <<>>]
  /\ call = [n \in Node |-> Free]
  /\ votes = [n \in Node |-> {}] /\ late = {} /\ msgs = {} /\ restarts = 0

-----------------------------------------------------------------------------
\* Election

\* force_election, become_candidate
BecomeCandidate(n) ==
  /\ IsFree(n) /\ role[n] # "leader" /\ term[n] < MaxTerm
  /\ role' = [role EXCEPT ![n] = "candidate"]
  /\ term' = [term EXCEPT ![n] = @ + 1]
  /\ votedFor' = [votedFor EXCEPT ![n] = n]
  /\ call' = [call EXCEPT ![n] = Calls("vote", n)]
  /\ votes' = [votes EXCEPT ![n] = {n}]
  /\ UNCHANGED <<log, commit, done, late, msgs, restarts>>

\* _check_vote sends the request and waits
AskVote(n, p) ==
  /\ call[n].kind = "vote" /\ call[n].asked = NoNode /\ p \in call[n].todo
  /\ msgs' = msgs \cup {[type |-> "vote", from |-> n, to |-> p, term |-> term[n],
                         lastTerm |-> LastTerm(log[n])]}
  /\ call' = [call EXCEPT ![n].asked = p, ![n].todo = @ \ {p}]
  /\ UNCHANGED <<role, term, votedFor, log, commit, done, votes, late, restarts>>

\* Variant: a vote is given again in the same term.
GrantsAgain(n, m, vote) == m.lastTerm >= LastTerm(log[n])

Grants(n, m, vote) ==
  vote \in {NoNode, m.from} /\ m.lastTerm >= LastTerm(log[n])

\* request_vote; a leader that sees a later term steps down.  The answer to a
\* candidate that no longer waits is lost.
HandleVote(n, m) ==
  LET newer == m.term > term[n]
      vote  == IF newer THEN NoNode ELSE votedFor[n]
      ok    == m.term >= term[n] /\ Grants(n, m, vote)
  IN
  /\ m.type = "vote" /\ m.to = n /\ IsFree(n)
  /\ role' = IF newer THEN [role EXCEPT ![n] = "follower"] ELSE role
  /\ term' = IF newer THEN [term EXCEPT ![n] = m.term] ELSE term
  /\ votedFor' = [votedFor EXCEPT ![n] = IF ok THEN m.from ELSE vote]
  /\ msgs' = (msgs \ {m}) \cup
       (IF call[m.from].asked = n /\ term[m.from] = m.term
        THEN {[type |-> "reply", from |-> n, to |-> m.from, term |-> m.term, granted |-> ok]}
        ELSE {})
  /\ UNCHANGED <<log, commit, done, call, votes, late, restarts>>

\* The answer of the peer that is asked
ReceiveVote(n, m) ==
  /\ m.type = "reply" /\ m.to = n
  /\ call[n].kind = "vote" /\ call[n].asked = m.from /\ term[n] = m.term
  /\ call' = [call EXCEPT ![n].asked = NoNode]
  /\ votes' = [votes EXCEPT ![n] = IF m.granted THEN @ \cup {m.from} ELSE @]
  /\ msgs' = msgs \ {m}
  /\ UNCHANGED <<role, term, votedFor, log, commit, done, late, restarts>>

\* Variant: a caller that waits as long as it takes.
NeverGivesUp(n) == FALSE /\ UNCHANGED vars

\* CONNECT_TIMEOUT, RESPONSE_TIMEOUT or a refused connection
VoteTimesOut(n) ==
  /\ call[n].kind = "vote" /\ call[n].asked # NoNode
  /\ call' = [call EXCEPT ![n].asked = NoNode]
  /\ msgs' = {m \in msgs : ~(m.type = "reply" /\ m.to = n)}
  /\ UNCHANGED <<role, term, votedFor, log, commit, done, votes, late, restarts>>

\* All peers were asked: become_leader, which sends heartbeats, or still candidate
CountVotes(n) ==
  /\ call[n].kind = "vote" /\ call[n].asked = NoNode /\ call[n].todo = {}
  /\ IF Wins(votes[n])
     THEN /\ role' = [role EXCEPT ![n] = "leader"]
          /\ call' = [call EXCEPT ![n] = Calls("beat", n)]
     ELSE role' = role /\ call' = [call EXCEPT ![n] = Free]
  /\ UNCHANGED <<term, votedFor, log, commit, done, votes, late, msgs, restarts>>

-----------------------------------------------------------------------------
\* Replication

\* propose: the entry is logged, committed if the leader is enough, and the whole
\* log is sent to the peers
Propose(n, c) ==
  LET l == Append(log[n], [term |-> term[n], cmd |-> c]) IN
  /\ IsFree(n) /\ role[n] = "leader" /\ Len(log[n]) < MaxLog
  /\ log' = [log EXCEPT ![n] = l]
  /\ IF CommitsAlone
     THEN /\ commit' = [commit EXCEPT ![n] = Len(l)]
          /\ done' = [done EXCEPT ![n] = Applied(n, l, Len(l))]
     ELSE UNCHANGED <<commit, done>>
  /\ call' = [call EXCEPT ![n] = Calls("append", n)]
  /\ UNCHANGED <<role, term, votedFor, votes, late, msgs, restarts>>

\* _do_replicate, _do_heartbeat: the answer is not looked at
Request(n, p) ==
  IF call[n].kind = "append"
  THEN [type |-> "append", from |-> n, to |-> p, entries |-> log[n], commit |-> commit[n]]
  ELSE [type |-> "beat", from |-> n, to |-> p, commit |-> commit[n]]

SendTo(n, p) ==
  LET rest == call[n].todo \ {p} IN
  /\ call[n].kind \in {"append", "beat"} /\ p \in call[n].todo
  /\ msgs' = msgs \cup {Request(n, p)}
  /\ call' = [call EXCEPT ![n] = IF rest = {} THEN Free ELSE [call[n] EXCEPT !.todo = rest]]
  /\ UNCHANGED <<role, term, votedFor, log, commit, done, votes, late, restarts>>

\* Variant: the gap before the entries is filled with blank ones.
PlacedPadded(l, es) ==
  l \o [i \in 1..(Len(es) - Len(l)) |-> [term |-> 0, cmd |-> es[1].cmd]] \o es

\* append_entries: prev_log_index is the last index of the entries sent, so that
\* they are placed after it
Placed(l, es) ==
  LET f[i \in 0..Len(es)] ==
        IF i = 0 THEN l
        ELSE LET k == Len(es) + i IN
             CASE k > Len(f[i - 1])                 -> Append(f[i - 1], es[i])
               [] k <= Len(f[i - 1]) /\ f[i - 1][k].term # es[i].term
                                                    -> Append(SubSeq(f[i - 1], 1, k - 1), es[i])
               [] OTHER                             -> f[i - 1]
  IN  f[Len(es)]

CommitUpTo(n, l, c) == IF c > commit[n] THEN Min2(c, Len(l)) ELSE commit[n]

\* The sender's term is not looked at.
HandleAppend(n, m) ==
  LET prev == Len(m.entries)
      fits == prev <= Len(log[n]) => log[n][prev].term = LastTerm(m.entries)
      l    == Placed(log[n], m.entries)
      c    == CommitUpTo(n, l, m.commit)
  IN
  /\ m.type = "append" /\ m.to = n /\ IsFree(n)
  /\ msgs' = msgs \ {m}
  /\ IF fits
     THEN /\ log' = [log EXCEPT ![n] = l]
          /\ commit' = [commit EXCEPT ![n] = c]
          /\ done' = IF m.commit > commit[n] THEN [done EXCEPT ![n] = Applied(n, l, c)] ELSE done
     ELSE UNCHANGED <<log, commit, done>>
  /\ UNCHANGED <<role, term, votedFor, call, votes, late, restarts>>

\* The heartbeat handler sets commit_index without the lock and then waits for it.
HandleBeat(n, m) ==
  /\ m.type = "beat" /\ m.to = n
  /\ msgs' = msgs \ {m}
  /\ commit' = [commit EXCEPT ![n] = CommitUpTo(n, log[n], m.commit)]
  /\ late' = IF m.commit > commit[n] THEN late \cup {n} ELSE late
  /\ UNCHANGED <<role, term, votedFor, log, done, call, votes, restarts>>

ApplyLate(n) ==
  /\ n \in late /\ IsFree(n)
  /\ late' = late \ {n}
  /\ done' = [done EXCEPT ![n] = Applied(n, log[n], commit[n])]
  /\ UNCHANGED <<role, term, votedFor, log, commit, call, votes, msgs, restarts>>

\* Only the log is on disk.
Restart(n) ==
  /\ restarts < MaxRestarts /\ restarts' = restarts + 1
  /\ role' = [role EXCEPT ![n] = "follower"] /\ term' = [term EXCEPT ![n] = 0]
  /\ votedFor' = [votedFor EXCEPT ![n] = NoNode]
  /\ commit' = [commit EXCEPT ![n] = 0] /\ done' = [done EXCEPT ![n] = <<>>]
  /\ call' = [call EXCEPT ![n] = Free] /\ late' = late \ {n}
  /\ votes' = [votes EXCEPT ![n] = {}] /\ log' = log
  /\ msgs' = {m \in msgs : ~(m.type = "reply" /\ m.to = n)}

-----------------------------------------------------------------------------
Handle(n) ==
  \E m \in msgs : HandleVote(n, m) \/ ReceiveVote(n, m) \/ HandleAppend(n, m) \/ HandleBeat(n, m)

Proceed(n) ==
  \/ \E p \in Node : AskVote(n, p) \/ SendTo(n, p)
  \/ VoteTimesOut(n) \/ CountVotes(n)

Next ==
  \E n \in Node :
    \/ BecomeCandidate(n) \/ Proceed(n) \/ Handle(n) \/ ApplyLate(n) \/ Restart(n)
    \/ \E c \in Command : Propose(n, c)

Spec == Init /\ [][Next]_vars

\* A call in progress goes on, and a reachable peer handles what it is sent.
Fairness ==
  \A n \in Node : WF_vars(Proceed(n)) /\ WF_vars(Handle(n)) /\ WF_vars(ApplyLate(n))
LiveSpec == Spec /\ Fairness

-----------------------------------------------------------------------------
\* Properties

\* The state of the nodes and the messages keep their types.
TypeOK ==
  /\ role \in [Node -> {"follower", "candidate", "leader"}]
  /\ term \in [Node -> 0..MaxTerm] /\ votedFor \in [Node -> Node \cup {NoNode}]
  /\ log \in [Node -> Seq(Entry)] /\ commit \in [Node -> Nat]
  /\ done \in [Node -> Seq(Command \cup {Skipped})]
  /\ \A n \in Node : /\ call[n].todo \subseteq Node /\ votes[n] \subseteq Node
                     /\ call[n].kind \in {"none", "vote", "append", "beat"}
  /\ late \subseteq Node

\* "Leader: the single node responsible for log replication": no two nodes lead
\* in one term, however late votes, requests and replies are handled, in a
\* cluster of odd size whose nodes do not restart.
OneLeaderPerTerm ==
  \A a, b \in Node :
    role[a] = "leader" /\ role[b] = "leader" /\ term[a] = term[b] => a = b

\* v has given a its vote for term t, and can give it to nobody else
Backs(v, a, t) == term[v] > t \/ (term[v] = t /\ votedFor[v] = a)
Runs(n) == role[n] # "follower"
Granted == {m \in msgs : m.type = "reply" /\ m.granted}

\* Why there is one leader per term: a vote that is counted, or on its way, was
\* given to that candidate, and no other candidate of the term has it.
VotesExclusive ==
  /\ \A n \in Node : Runs(n) => \A v \in votes[n] : Backs(v, n, term[n])
  /\ \A m \in Granted : Backs(m.from, m.to, m.term)
  /\ \A x, y \in Node : x # y /\ Runs(x) /\ Runs(y) /\ term[x] = term[y] =>
       votes[x] \cap votes[y] = {}
  /\ \A m \in Granted : \A n \in Node :
       n # m.to /\ Runs(n) /\ term[n] = m.term => m.from \notin votes[n]
  /\ \A m, k \in Granted : m.from = k.from /\ m.term = k.term => m.to = k.to

\* Peers that call each other at the same time, each holding the lock the other
\* one's request waits for, get out of it.
LockIsReleased == \A n \in Node : []<>IsFree(n)
=============================================================================
