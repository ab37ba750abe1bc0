------------------------------ MODULE RaftProofs ------------------------------
(***************************************************************************)
(* One leader per term, for every cluster of odd size whose nodes do not    *)
(* restart.  Both conditions are needed: two of four votes are enough for   *)
(* become_candidate, and a restarted node has forgotten whom it voted for.  *)
(* Then the types of nodes and messages, in any cluster and with restarts. *)
(*                                                                         *)
(* Last the bridge of one node (RaftBridge): for any number of elections    *)
(* and step-downs, on the loop or off it, however the tasks of the loop are *)
(* interleaved with them, the coordinator follows the leadership.           *)
(***************************************************************************)
EXTENDS Raft, RaftBridge, FiniteSetTheorems, SequenceTheorems, TLAPS

\* The types the election depends on.
ElectionTypes ==
  /\ role \in [Node -> {"follower", "candidate", "leader"}]
  /\ term \in [Node -> Nat] /\ votedFor \in [Node -> Node \cup {NoNode}]
  /\ votes \in [Node -> SUBSET Node]
  /\ call \in [Node -> [kind : {"none", "vote", "append", "beat"},
                        todo : SUBSET Node, asked : Node \cup {NoNode}]]
  /\ \A m \in msgs : m.type \in {"vote", "reply"} =>
       m.from \in Node /\ m.to \in Node /\ m.term \in Nat
  /\ restarts \in Nat

\* Votes are counted by candidates only, and a leader had enough of them.
CountedByCandidate == \A n \in Node : call[n].kind = "vote" => role[n] = "candidate"
LeaderWon == \A n \in Node : role[n] = "leader" => Wins(votes[n])

ElectionInv == ElectionTypes /\ VotesExclusive /\ CountedByCandidate /\ LeaderWon

-----------------------------------------------------------------------------
\* Two sets of voters that win in a cluster of odd size have a voter in common.
LEMMA WinnersMeet ==
  ASSUME Cardinality(Node) % 2 = 1, NEW V \in SUBSET Node, NEW W \in SUBSET Node,
         Wins(V), Wins(W)
  PROVE  V \cap W # {}
<1>1. IsFiniteSet(V) /\ IsFiniteSet(W) /\ IsFiniteSet(Node)
  BY FS_Subset, RaftAssumption
<1>2. Cardinality(V) \in Nat /\ Cardinality(W) \in Nat /\ Cardinality(Node) \in Nat
  BY <1>1, FS_CardinalityType
<1>3. Cardinality(V) + Cardinality(W) > Cardinality(Node)
  BY <1>2 DEF Wins, Peers
<1> QED  BY <1>1, <1>3, FS_MajoritiesIntersect

\* The invariant excludes two leaders in one term.
LEMMA InvariantSuffices ==
  ASSUME Cardinality(Node) % 2 = 1, ElectionInv
  PROVE  OneLeaderPerTerm
<1> SUFFICES ASSUME NEW a \in Node, NEW b \in Node, a # b,
                    role[a] = "leader", role[b] = "leader", term[a] = term[b]
             PROVE  FALSE
  BY DEF OneLeaderPerTerm
<1>1. Wins(votes[a]) /\ Wins(votes[b]) /\ votes[a] \in SUBSET Node /\ votes[b] \in SUBSET Node
  BY DEF ElectionInv, ElectionTypes, LeaderWon
<1>2. votes[a] \cap votes[b] # {}
  BY <1>1, WinnersMeet
<1>3. votes[a] \cap votes[b] = {}
  BY DEF ElectionInv, VotesExclusive, Runs
<1> QED  BY <1>2, <1>3

\* It holds when the nodes start.
LEMMA InvariantInitially == Init => ElectionInv
<1> SUFFICES ASSUME Init PROVE ElectionInv
  OBVIOUS
<1>1. ElectionTypes
  BY DEF Init, ElectionTypes, Free
<1>2. VotesExclusive
  BY DEF Init, VotesExclusive, Granted, Runs
<1>3. CountedByCandidate /\ LeaderWon
  BY DEF Init, CountedByCandidate, LeaderWon, Free
<1> QED  BY <1>1, <1>2, <1>3 DEF ElectionInv

\* Steps that touch neither roles, terms and votes nor replies keep it.
LEMMA QuietStep ==
  ASSUME ElectionInv, UNCHANGED <<role, term, votedFor, votes, restarts>>,
         ElectionTypes', \A m \in msgs' : m.type = "reply" => m \in msgs,
         \A n \in Node : call'[n].kind = "vote" => call[n].kind = "vote"
  PROVE  ElectionInv'
<1>1. Granted' \subseteq Granted
  BY DEF Granted
<1>2. VotesExclusive'
  BY <1>1 DEF ElectionInv, VotesExclusive, Backs, Runs
<1>3. CountedByCandidate' /\ LeaderWon'
  BY DEF ElectionInv, CountedByCandidate, LeaderWon, Wins
<1> QED  BY <1>2, <1>3 DEF ElectionInv

-----------------------------------------------------------------------------
\* The steps of an election

LEMMA CandidateStep ==
  ASSUME ElectionInv, NEW n \in Node, BecomeCandidate(n)
  PROVE  ElectionInv'
<1> USE DEF ElectionInv
<1>1. ElectionTypes'
  BY DEF ElectionTypes, BecomeCandidate, Calls
<1>2. Granted' = Granted
  BY DEF Granted, BecomeCandidate
<1>3. \A v \in Node, x \in Node, t \in Nat : Backs(v, x, t) => v = n \/ Backs(v, x, t)'
  BY DEF Backs, BecomeCandidate, ElectionTypes
<1>4. \A x \in Node, t \in Nat : Backs(n, x, t) => t < term'[n] /\ Backs(n, x, t)'
  BY DEF Backs, BecomeCandidate, ElectionTypes
<1>5. /\ role'[n] = "candidate" /\ votes'[n] = {n} /\ Backs(n, n, term[n])'
      /\ \A x \in Node \ {n} : role'[x] = role[x] /\ term'[x] = term[x] /\ votes'[x] = votes[x]
  BY DEF BecomeCandidate, Backs, ElectionTypes
<1>6. \A x \in Node \ {n} : Runs(x)' => Runs(x) /\ \A v \in votes[x] : Backs(v, x, term[x])
  BY <1>5 DEF Runs, VotesExclusive
<1>7. \A x \in Node : term[x] \in Nat /\ term'[x] \in Nat /\ votes[x] \subseteq Node
  BY <1>1 DEF ElectionTypes
<1>8. \A m \in Granted : m.from \in Node /\ m.to \in Node /\ m.term \in Nat
  BY DEF Granted, ElectionTypes
<1>9. \A x \in Node : Runs(x)' => \A v \in votes'[x] : Backs(v, x, term[x])'
  BY <1>3, <1>4, <1>5, <1>6, <1>7
<1>10. \A m \in Granted : Backs(m.from, m.to, m.term)'
  BY <1>3, <1>4, <1>8 DEF VotesExclusive
<1>11. \A x \in Node \ {n} : Runs(x)' /\ term'[x] = term'[n] => n \notin votes[x]
  BY <1>4, <1>5, <1>6, <1>7
<1>12. \A x, y \in Node : x # y /\ Runs(x)' /\ Runs(y)' /\ term'[x] = term'[y] =>
         votes'[x] \cap votes'[y] = {}
  BY <1>5, <1>6, <1>11 DEF VotesExclusive
<1>13. \A m \in Granted : \A x \in Node :
         x # m.to /\ Runs(x)' /\ term'[x] = m.term => m.from \notin votes'[x]
  BY <1>4, <1>5, <1>6, <1>8 DEF VotesExclusive
<1>14. VotesExclusive'
  BY <1>2, <1>9, <1>10, <1>12, <1>13 DEF VotesExclusive
<1>15. CountedByCandidate' /\ LeaderWon'
  BY DEF BecomeCandidate, CountedByCandidate, LeaderWon, ElectionTypes
<1> QED  BY <1>1, <1>14, <1>15

LEMMA HandleVoteStep ==
  ASSUME ElectionInv, NEW n \in Node, NEW m \in msgs, HandleVote(n, m)
  PROVE  ElectionInv'
<1> USE DEF ElectionInv
<1> DEFINE newer == m.term > term[n]
           vote  == IF newer THEN NoNode ELSE votedFor[n]
           ok    == m.term >= term[n] /\ Grants(n, m, vote)
           r     == [type |-> "reply", from |-> n, to |-> m.from, term |-> m.term, granted |-> ok]
<1>0. m.from \in Node /\ m.to = n /\ m.term \in Nat /\ term[n] \in Nat
  BY DEF HandleVote, ElectionTypes
<1>1. /\ role' = IF newer THEN [role EXCEPT ![n] = "follower"] ELSE role
      /\ term' = IF newer THEN [term EXCEPT ![n] = m.term] ELSE term
      /\ votedFor' = [votedFor EXCEPT ![n] = IF ok THEN m.from ELSE vote]
      /\ msgs' \subseteq msgs \cup {r}
      /\ UNCHANGED <<call, votes, restarts>>
  BY DEF HandleVote
<1>2. ElectionTypes'
  BY <1>0, <1>1 DEF ElectionTypes
<1>3. \A k \in Granted' : k \in Granted \/ (ok /\ k = r)
  <2>1. r.granted = ok
    BY Zenon
  <2> HIDE DEF r, ok
  <2>2. \A k \in Granted' : k.granted /\ k.type = "reply" /\ (k \in msgs \/ k = r)
    BY <1>1 DEF Granted
  <2> QED  BY <2>1, <2>2, Zenon DEF Granted
<1>4. \A v \in Node, x \in Node, t \in Nat : Backs(v, x, t) => Backs(v, x, t)'
  <2> SUFFICES ASSUME NEW v \in Node, NEW x \in Node, NEW t \in Nat, Backs(v, x, t)
               PROVE  Backs(v, x, t)'
    OBVIOUS
  <2>1. CASE v # n
    BY <1>0, <1>1, <2>1 DEF Backs, ElectionTypes
  <2>2. CASE v = n /\ newer
    BY <1>0, <1>1, <2>2 DEF Backs, ElectionTypes
  <2>3. CASE v = n /\ ~newer
    <3>1. ok => m.from \in {NoNode, votedFor[n]} \/ votedFor[n] = NoNode
      BY <2>3 DEF Grants
    <3>2. term' = term
      BY <1>1, <2>3
    <3>3. votedFor[n] = x => votedFor'[n] = x
      BY <1>0, <1>1, <2>3, <3>1, RaftAssumption DEF ElectionTypes
    <3> QED  BY <2>3, <3>2, <3>3 DEF Backs
  <2> QED  BY <2>1, <2>2, <2>3
<1>5. ok => Backs(n, m.from, m.term)'
  BY <1>0, <1>1 DEF Backs, ElectionTypes
<1>6. ok => \A x \in Node : Backs(n, x, m.term) => x = m.from
  BY <1>0, RaftAssumption DEF Backs, ElectionTypes, Grants
<1>7. \A x \in Node : Runs(x)' => Runs(x) /\ term'[x] = term[x]
  BY <1>0, <1>1 DEF Runs, ElectionTypes
<1>8. \A x \in Node : term[x] \in Nat /\ votes[x] \subseteq Node /\ votes'[x] = votes[x]
  BY <1>1 DEF ElectionTypes
<1>9. \A k \in Granted : k.from \in Node /\ k.to \in Node /\ k.term \in Nat
  BY DEF Granted, ElectionTypes
<1>10. \A x \in Node : Runs(x)' => \A v \in votes'[x] : Backs(v, x, term[x])'
  BY <1>4, <1>7, <1>8 DEF VotesExclusive
<1>11. \A k \in Granted' : Backs(k.from, k.to, k.term)'
  BY <1>3, <1>4, <1>5, <1>9 DEF VotesExclusive
<1>12. \A x, y \in Node : x # y /\ Runs(x)' /\ Runs(y)' /\ term'[x] = term'[y] =>
         votes'[x] \cap votes'[y] = {}
  BY <1>7, <1>8 DEF VotesExclusive
<1>13. \A k \in Granted' : \A x \in Node :
         x # k.to /\ Runs(x)' /\ term'[x] = k.term => k.from \notin votes'[x]
  BY <1>3, <1>6, <1>7, <1>8 DEF VotesExclusive
<1>14. \A k, l \in Granted' : k.from = l.from /\ k.term = l.term => k.to = l.to
  BY <1>3, <1>6, <1>9 DEF VotesExclusive
<1>15. VotesExclusive'
  BY <1>10, <1>11, <1>12, <1>13, <1>14 DEF VotesExclusive
<1>16. CountedByCandidate' /\ LeaderWon'
  <2>1. call[n].kind # "vote"
    BY DEF HandleVote, IsFree
  <2> QED  BY <1>0, <1>1, <2>1 DEF CountedByCandidate, LeaderWon, ElectionTypes
<1> QED  BY <1>2, <1>15, <1>16

LEMMA ReceiveVoteStep ==
  ASSUME ElectionInv, NEW n \in Node, NEW m \in msgs, ReceiveVote(n, m)
  PROVE  ElectionInv'
<1> USE DEF ElectionInv
<1>0. /\ m.from \in Node /\ m.to = n /\ m.term = term[n]
      /\ role[n] = "candidate"
  BY DEF ReceiveVote, ElectionTypes, CountedByCandidate
<1>1. /\ UNCHANGED <<role, term, votedFor, restarts>>
      /\ msgs' = msgs \ {m}
      /\ votes'[n] = (IF m.granted THEN votes[n] \cup {m.from} ELSE votes[n])
      /\ \A x \in Node \ {n} : votes'[x] = votes[x]
  BY DEF ReceiveVote, ElectionTypes
<1>2. ElectionTypes'
  BY <1>0 DEF ElectionTypes, ReceiveVote
<1>3. Granted' = Granted \ {m} /\ (m.granted => m \in Granted)
  BY <1>1 DEF Granted, ReceiveVote
<1>4. \A v, x, t : Backs(v, x, t)' <=> Backs(v, x, t)
  BY <1>1 DEF Backs
<1>5. \A x \in Node : Runs(x)' <=> Runs(x)
  BY <1>1 DEF Runs
<1>6. \A x \in Node : Runs(x) => \A v \in votes'[x] : Backs(v, x, term[x])
  BY <1>0, <1>1, <1>3 DEF VotesExclusive
<1>7. \A x, y \in Node : x # y /\ Runs(x) /\ Runs(y) /\ term[x] = term[y] =>
        votes'[x] \cap votes'[y] = {}
  BY <1>0, <1>1, <1>3 DEF VotesExclusive
<1>8. \A k \in Granted' : \A x \in Node :
        x # k.to /\ Runs(x) /\ term[x] = k.term => k.from \notin votes'[x]
  BY <1>0, <1>1, <1>3 DEF VotesExclusive
<1>9. VotesExclusive'
  BY <1>1, <1>3, <1>4, <1>5, <1>6, <1>7, <1>8 DEF VotesExclusive
<1>10. CountedByCandidate' /\ LeaderWon'
  BY <1>0, <1>1 DEF CountedByCandidate, LeaderWon, ReceiveVote, ElectionTypes
<1> QED  BY <1>2, <1>9, <1>10

LEMMA CountVotesStep ==
  ASSUME ElectionInv, NEW n \in Node, CountVotes(n)
  PROVE  ElectionInv'
<1> USE DEF ElectionInv
<1>1. ElectionTypes'
  <2>1. /\ Free \in [kind : {"none", "vote", "append", "beat"},
                     todo : SUBSET Node, asked : Node \cup {NoNode}]
        /\ Calls("beat", n) \in [kind : {"none", "vote", "append", "beat"},
                                 todo : SUBSET Node, asked : Node \cup {NoNode}]
    BY DEF Calls, Free
  <2> QED  BY <2>1 DEF ElectionTypes, CountVotes
<1>2. UNCHANGED <<term, votedFor, votes, msgs>> /\ role[n] = "candidate"
  BY DEF CountVotes, CountedByCandidate
<1>3. \A x \in Node : Runs(x)' <=> Runs(x)
  BY <1>2 DEF Runs, CountVotes, ElectionTypes
<1>4. VotesExclusive'
  BY <1>2, <1>3 DEF VotesExclusive, Granted, Backs
<1>5. CountedByCandidate' /\ LeaderWon'
  BY DEF CountVotes, CountedByCandidate, LeaderWon, ElectionTypes, Calls, Free, Wins
<1> QED  BY <1>1, <1>4, <1>5

-----------------------------------------------------------------------------
\* The other steps leave the election alone.

LEMMA CallStep ==
  ASSUME ElectionInv, NEW n \in Node, NEW p \in Node,
         AskVote(n, p) \/ SendTo(n, p) \/ VoteTimesOut(n)
  PROVE  ElectionInv'
<1>0. ElectionTypes
  BY DEF ElectionInv
<1>1. CASE AskVote(n, p)
  <2>1. ElectionTypes'
    BY <1>0, <1>1 DEF ElectionTypes, AskVote
  <2>2. \A m \in msgs' : m.type = "reply" => m \in msgs
    BY <1>1 DEF AskVote
  <2>3. \A x \in Node : call'[x].kind = "vote" => call[x].kind = "vote"
    BY <1>0, <1>1 DEF AskVote, ElectionTypes
  <2> QED  BY <1>1, <2>1, <2>2, <2>3, QuietStep DEF AskVote
<1>2. CASE SendTo(n, p)
  <2>1. Request(n, p).type \in {"append", "beat"}
    BY DEF Request
  <2>2. \A m \in msgs' : m \in msgs \/ m.type \in {"append", "beat"}
    BY <1>2, <2>1 DEF SendTo
  <2> DEFINE R == [kind : {"none", "vote", "append", "beat"},
                   todo : SUBSET Node, asked : Node \cup {NoNode}]
             rest == call[n].todo \ {p}
             new == IF rest = {} THEN Free ELSE [call[n] EXCEPT !.todo = rest]
  <2>a. call \in [Node -> R]
    BY <1>0 DEF ElectionTypes
  <2>b. call' = [call EXCEPT ![n] = new]
    BY <1>2 DEF SendTo
  <2>c. Free \in R /\ Free.kind # "vote"
    BY DEF Free
  <2>d. call[n] \in R
    BY <2>a
  <2>e. /\ [call[n] EXCEPT !.todo = rest] \in R
        /\ [call[n] EXCEPT !.todo = rest].kind = call[n].kind
    BY <2>d
  <2>f. new \in R /\ (new.kind = "vote" => call[n].kind = "vote")
    BY <2>c, <2>e
  <2> HIDE DEF R, new
  <2>3. \A x \in Node : call'[x].kind = "vote" => call[x].kind = "vote"
    BY <2>a, <2>b, <2>f
  <2>g. call' \in [Node -> R]
    BY <2>a, <2>b, <2>f
  <2>4. call' \in [Node -> [kind : {"none", "vote", "append", "beat"},
                            todo : SUBSET Node, asked : Node \cup {NoNode}]]
    BY <2>g DEF R
  <2>5. ElectionTypes'
    BY <1>0, <1>2, <2>2, <2>4 DEF ElectionTypes, SendTo
  <2> QED  BY <1>2, <2>2, <2>3, <2>5, QuietStep DEF SendTo
<1>3. CASE VoteTimesOut(n)
  <2>1. ElectionTypes'
    BY <1>0, <1>3 DEF ElectionTypes, VoteTimesOut
  <2>2. \A x \in Node : call'[x].kind = "vote" => call[x].kind = "vote"
    BY <1>0, <1>3 DEF VoteTimesOut, ElectionTypes
  <2> QED  BY <1>3, <2>1, <2>2, QuietStep DEF VoteTimesOut
<1> QED  BY <1>1, <1>2, <1>3

LEMMA ReplicationStep ==
  ASSUME ElectionInv, NEW n \in Node,
         \/ \E c \in Command : Propose(n, c)
         \/ \E m \in msgs : HandleAppend(n, m) \/ HandleBeat(n, m)
         \/ ApplyLate(n)
  PROVE  ElectionInv'
<1>0. ElectionTypes
  BY DEF ElectionInv
<1>1. /\ UNCHANGED <<role, term, votedFor, votes, restarts>>
      /\ msgs' \subseteq msgs
      /\ call' = call \/ call' = [call EXCEPT ![n] = Calls("append", n)]
  BY DEF Propose, HandleAppend, HandleBeat, ApplyLate
<1>2. Calls("append", n) \in [kind : {"none", "vote", "append", "beat"},
                              todo : SUBSET Node, asked : Node \cup {NoNode}]
  BY DEF Calls
<1>3. ElectionTypes'
  BY <1>0, <1>1, <1>2 DEF ElectionTypes
<1>4. \A x \in Node : call'[x].kind = "vote" => call[x].kind = "vote"
  BY <1>0, <1>1 DEF Calls, ElectionTypes
<1> QED  BY <1>1, <1>3, <1>4, QuietStep

\* Without restarts every step of a node keeps the invariant.
LEMMA InvariantKept ==
  ASSUME MaxRestarts = 0, ElectionInv, [Next]_vars
  PROVE  ElectionInv'
<1>1. CASE UNCHANGED vars
  <2>1. UNCHANGED <<role, term, votedFor, votes, restarts, msgs, call>>
    BY <1>1 DEF vars
  <2>2. ElectionTypes'
    BY <2>1 DEF ElectionInv, ElectionTypes
  <2> QED  BY <2>1, <2>2, QuietStep
<1>2. ASSUME NEW n \in Node, BecomeCandidate(n) PROVE ElectionInv'
  BY <1>2, CandidateStep
<1>3. ASSUME NEW n \in Node, Proceed(n) PROVE ElectionInv'
  <2>1. CASE CountVotes(n)
    BY <2>1, CountVotesStep
  <2>2. CASE \E p \in Node : AskVote(n, p) \/ SendTo(n, p) \/ VoteTimesOut(n)
    BY <2>2, CallStep
  <2> QED  BY <1>3, <2>1, <2>2 DEF Proceed
<1>4. ASSUME NEW n \in Node, Handle(n) PROVE ElectionInv'
  <2>1. PICK m \in msgs : \/ HandleVote(n, m) \/ ReceiveVote(n, m)
                          \/ HandleAppend(n, m) \/ HandleBeat(n, m)
    BY <1>4 DEF Handle
  <2> QED  BY <2>1, HandleVoteStep, ReceiveVoteStep, ReplicationStep
<1>5. ASSUME NEW n \in Node, ApplyLate(n) \/ \E c \in Command : Propose(n, c)
      PROVE  ElectionInv'
  BY <1>5, ReplicationStep
<1>6. ASSUME NEW n \in Node, Restart(n) PROVE FALSE
  BY <1>6 DEF Restart, ElectionInv, ElectionTypes
<1> QED  BY <1>1, <1>2, <1>3, <1>4, <1>5, <1>6 DEF Next

\* However long messages take, votes given in an election are exclusive, in every
\* cluster whose nodes do not restart (votes are kept in memory only).
THEOREM VotesAreExclusive ==
  ASSUME MaxRestarts = 0
  PROVE  Spec => []VotesExclusive
<1>1. ElectionInv => VotesExclusive
  BY DEF ElectionInv
<1> QED  BY <1>1, InvariantInitially, InvariantKept, PTL DEF Spec

\* become_candidate elects at most one leader per term, in every cluster of odd
\* size whose nodes do not restart.
THEOREM OneLeader ==
  ASSUME MaxRestarts = 0, Cardinality(Node) % 2 = 1
  PROVE  Spec => []OneLeaderPerTerm
<1> QED  BY InvariantInitially, InvariantKept, InvariantSuffices, PTL DEF Spec

-----------------------------------------------------------------------------
\* The types of nodes and messages, in any cluster and with restarts

Done    == Seq(Command \cup {Skipped})
OneCall == [kind : {"none", "vote", "append", "beat"},
            todo : SUBSET Node, asked : Node \cup {NoNode}]

MessageTyped(m) ==
  /\ m.type \in {"vote", "reply"} => m.from \in Node /\ m.to \in Node /\ m.term \in 0..MaxTerm
  /\ m.type \in {"append", "beat"} => m.commit \in Nat
  /\ m.type = "append" => m.entries \in Seq(Entry)

\* Only who has been elected in a term leads, so that entries bear a term.
TypeInv ==
  /\ role \in [Node -> {"follower", "candidate", "leader"}]
  /\ term \in [Node -> 0..MaxTerm] /\ votedFor \in [Node -> Node \cup {NoNode}]
  /\ log \in [Node -> Seq(Entry)] /\ commit \in [Node -> Nat] /\ done \in [Node -> Done]
  /\ call \in [Node -> OneCall] /\ votes \in [Node -> SUBSET Node] /\ late \subseteq Node
  /\ \A m \in msgs : MessageTyped(m)
  /\ \A n \in Node : role[n] # "follower" \/ call[n].kind = "vote" => term[n] > 0

LEMMA TypeInvInit == Init => TypeInv
<1> SUFFICES ASSUME Init PROVE TypeInv
  OBVIOUS
<1>1. Free \in OneCall
  BY DEF Free, OneCall
<1>2. <<>> \in Seq(Entry) /\ <<>> \in Done /\ 0 \in 0..MaxTerm
  BY RaftAssumption DEF Done
<1>3. /\ log \in [Node -> Seq(Entry)] /\ done \in [Node -> Done] /\ call \in [Node -> OneCall]
      /\ term \in [Node -> 0..MaxTerm]
  BY <1>1, <1>2 DEF Init
<1>4. \A n \in Node : role[n] = "follower" /\ call[n].kind = "none"
  BY DEF Init, Free
<1> QED BY <1>3, <1>4 DEF Init, TypeInv

\* _apply_committed
LEMMA AppliedType ==
  ASSUME NEW n \in Node, done[n] \in Done, NEW l \in Seq(Entry), NEW c \in Nat
  PROVE  Applied(n, l, c) \in Done
<1> DEFINE d == done[n]
           end == Min2(c, 1 + IF Len(l) > Len(d) THEN Len(l) ELSE Len(d))
           more == [i \in 1..(end - Len(d)) |->
                      IF Len(d) + i <= Len(l) THEN l[Len(d) + i].cmd ELSE Skipped]
<1>1. CASE Len(d) >= c
  BY <1>1 DEF Applied
<1>2. CASE ~(Len(d) >= c)
  <2>1. Len(d) \in Nat /\ Len(l) \in Nat
    BY DEF Done
  <2>2. end \in Nat /\ end > Len(d)
    BY <1>2, <2>1 DEF Min2
  <2>3. Applied(n, l, c) = d \o more
    BY <1>2 DEF Applied
  <2> HIDE DEF end
  <2>4. ASSUME NEW i \in 1..(end - Len(d)), Len(d) + i <= Len(l)
        PROVE  l[Len(d) + i].cmd \in Command
    <3>1. Len(d) + i \in 1..Len(l)
      BY <2>1, <2>2, <2>4
    <3>2. l[Len(d) + i] \in Entry
      BY <3>1
    <3> QED BY <3>2 DEF Entry
  <2>5. \A i \in 1..(end - Len(d)) : more[i] \in Command \cup {Skipped}
    BY <2>4
  <2>6. more \in [1..(end - Len(d)) -> Command \cup {Skipped}]
    BY <2>5
  <2> HIDE DEF more
  <2>7. more \in Done
    BY <2>1, <2>2, <2>6, IsASeq DEF Done
  <2> QED BY <2>3, <2>7, ConcatProperties DEF Done
<1> QED BY <1>1, <1>2

\* append_entries: the entries are placed one after the other.
LEMMA StepByStep ==
  ASSUME NEW S, NEW b \in Nat, 0 \in S,
         \A k \in 0..b : k \in S /\ k + 1 <= b => k + 1 \in S
  PROVE  \A k \in 0..b : k \in S
<1> SUFFICES ASSUME NEW k \in 0..b, k \notin S PROVE FALSE
  OBVIOUS
<1> DEFINE Bad == {i \in 0..b : i \notin S}
<1>1. Bad \subseteq Nat /\ Bad # {}
  OBVIOUS
<1>2. PICK i \in Bad : \A j \in Bad : ~(<<j, i>> \in OpToRel(<, Nat))
  BY <1>1, WFMin, NatLessThanWellFounded
<1>3. \A j \in Bad : ~(j < i)
  BY <1>1, <1>2 DEF OpToRel
<1>4. i \in 0..b /\ i # 0 /\ i - 1 \in 0..b /\ i - 1 < i
  OBVIOUS
<1>5. i - 1 \in S
  BY <1>3, <1>4
<1> QED BY <1>4, <1>5

PlaceOne(p, e, k) ==
  CASE k > Len(p)                          -> Append(p, e)
    [] k <= Len(p) /\ p[k].term # e.term   -> Append(SubSeq(p, 1, k - 1), e)
    [] OTHER                               -> p

Unfolded(f, l, es, n) ==
  [i \in 0..n |-> IF i = 0 THEN l ELSE PlaceOne(f[i - 1], es[i], Len(es) + i)]

LEMMA PlacingExists ==
  ASSUME NEW l, NEW es, NEW n \in Nat
  PROVE  \E f : f = Unfolded(f, l, es, n)
<1> DEFINE Step(f, i) == IF i = 0 THEN l ELSE PlaceOne(f[i - 1], es[i], Len(es) + i)
           Defined == {k \in Nat : \E f : f = [i \in 0..k |-> Step(f, i)]}
<1>1. 0 \in Defined
  <2> DEFINE f == [i \in 0..0 |-> l]
  <2>1. f = [i \in 0..0 |-> Step(f, i)]
    OBVIOUS
  <2> QED BY <2>1
<1>2. ASSUME NEW k \in 0..n, k \in Defined PROVE k + 1 \in Defined
  <2>1. PICK f : f = [i \in 0..k |-> Step(f, i)]
    BY <1>2
  <2> DEFINE g == [i \in 0..(k + 1) |-> IF i = k + 1 THEN Step(f, i) ELSE f[i]]
  <2>2. ASSUME NEW i \in 0..(k + 1) PROVE g[i] = Step(g, i)
    <3>1. CASE i = 0
      BY <2>1, <3>1
    <3>2. CASE i # 0
      <4>1. i - 1 \in 0..k /\ g[i - 1] = f[i - 1]
        BY <3>2
      <4> QED BY <2>1, <3>2, <4>1
    <3> QED BY <3>1, <3>2
  <2>3. g = [i \in 0..(k + 1) |-> Step(g, i)]
    BY <2>2
  <2>4. k + 1 \in Nat
    OBVIOUS
  <2> HIDE DEF g
  <2> QED BY <2>3, <2>4
<1> HIDE DEF Defined
<1>3. n \in Defined
  BY <1>1, <1>2, StepByStep
<1> QED BY <1>3 DEF Defined, Unfolded

LEMMA PlaceOneType ==
  ASSUME NEW p \in Seq(Entry), NEW e \in Entry, NEW k \in Nat \ {0}
  PROVE  PlaceOne(p, e, k) \in Seq(Entry)
<1>1. CASE k > Len(p)
  BY <1>1 DEF PlaceOne
<1>2. CASE k <= Len(p) /\ p[k].term # e.term
  <2>1. SubSeq(p, 1, k - 1) \in Seq(Entry)
    BY <1>2
  <2> QED BY <1>2, <2>1 DEF PlaceOne
<1>3. CASE ~(k > Len(p)) /\ ~(k <= Len(p) /\ p[k].term # e.term)
  BY <1>3 DEF PlaceOne
<1> QED BY <1>1, <1>2, <1>3

LEMMA PlacedType ==
  ASSUME NEW l \in Seq(Entry), NEW es \in Seq(Entry)
  PROVE  Placed(l, es) \in Seq(Entry)
<1> DEFINE n == Len(es)
           f[i \in 0..n] ==
             IF i = 0 THEN l
             ELSE LET k == n + i IN
                  CASE k > Len(f[i - 1])                 -> Append(f[i - 1], es[i])
                    [] k <= Len(f[i - 1]) /\ f[i - 1][k].term # es[i].term
                                                         -> Append(SubSeq(f[i - 1], 1, k - 1), es[i])
                    [] OTHER                             -> f[i - 1]
<1>1. n \in Nat /\ \A i \in 1..n : es[i] \in Entry
  OBVIOUS
<1>2. \E g : g = Unfolded(g, l, es, n)
  <2> HIDE DEF f
  <2> QED BY <1>1, PlacingExists
<1>3. f = Unfolded(f, l, es, n)
  BY <1>2 DEF Unfolded, PlaceOne
<1>4. Placed(l, es) = f[n]
  BY DEF Placed
<1> HIDE DEF f, n
<1> DEFINE Good == {i \in 0..n : f[i] \in Seq(Entry)}
<1>5. 0 \in Good
  BY <1>1, <1>3 DEF Unfolded
<1>6. ASSUME NEW i \in 0..n, i \in Good, i + 1 <= n PROVE i + 1 \in Good
  <2>1. i + 1 \in 0..n /\ i + 1 # 0 /\ (i + 1) - 1 = i /\ es[i + 1] \in Entry
    BY <1>1, <1>6
  <2>2. f[i + 1] = PlaceOne(f[i], es[i + 1], n + (i + 1))
    BY <1>3, <2>1 DEF Unfolded, n
  <2>3. n + (i + 1) \in Nat \ {0}
    BY <1>1
  <2>4. f[i + 1] \in Seq(Entry)
    BY <1>6, <2>1, <2>2, <2>3, PlaceOneType
  <2> QED BY <2>1, <2>4
<1> HIDE DEF Good
<1>7. n \in Nat /\ n \in 0..n
  BY <1>1
<1>8. \A i \in 0..n : i \in Good
  BY <1>5, <1>6, <1>7, StepByStep
<1>9. n \in Good
  BY <1>7, <1>8
<1> QED BY <1>4, <1>9 DEF Good

LEMMA TypeBecomeCandidate ==
  ASSUME TypeInv, NEW n \in Node, BecomeCandidate(n)
  PROVE  TypeInv'
<1> USE DEF TypeInv
<1>1. Calls("vote", n) \in OneCall
  BY DEF Calls, OneCall
<1>2. term[n] + 1 \in 0..MaxTerm /\ term[n] + 1 > 0
  BY RaftAssumption DEF BecomeCandidate
<1>3. term' \in [Node -> 0..MaxTerm] /\ call' \in [Node -> OneCall]
  BY <1>1, <1>2 DEF BecomeCandidate
<1>4. /\ role' \in [Node -> {"follower", "candidate", "leader"}]
      /\ votedFor' \in [Node -> Node \cup {NoNode}] /\ votes' \in [Node -> SUBSET Node]
      /\ UNCHANGED <<log, commit, done, late, msgs>>
  BY DEF BecomeCandidate
<1>5. \A x \in Node : role'[x] # "follower" \/ call'[x].kind = "vote" => term'[x] > 0
  BY <1>2 DEF BecomeCandidate
<1>6. \A m \in msgs' : MessageTyped(m)'
  BY <1>4 DEF MessageTyped
<1> QED BY <1>3, <1>4, <1>5, <1>6

LEMMA TypeAskVote ==
  ASSUME TypeInv, NEW n \in Node, NEW p \in Node, AskVote(n, p)
  PROVE  TypeInv'
<1> USE DEF TypeInv
<1> DEFINE m == [type |-> "vote", from |-> n, to |-> p, term |-> term[n],
                 lastTerm |-> LastTerm(log[n])]
<1>1. /\ msgs' \subseteq msgs \cup {m}
      /\ call' = [call EXCEPT ![n].asked = p, ![n].todo = @ \ {p}]
      /\ UNCHANGED <<role, term, votedFor, log, commit, done, votes, late>>
  BY DEF AskVote
<1>2. m.type = "vote" /\ m.from = n /\ m.to = p /\ m.term = term[n]
  OBVIOUS
<1> HIDE DEF m
<1>3. MessageTyped(m)
  BY <1>2 DEF MessageTyped
<1>4. \A k \in msgs' : MessageTyped(k)
  BY <1>1, <1>3
<1>5. call' \in [Node -> OneCall]
  <2>1. call[n] \in OneCall /\ call[n].todo \ {p} \in SUBSET Node
    BY DEF OneCall
  <2>2. call' = [call EXCEPT ![n] = [call[n] EXCEPT !.asked = p, !.todo = call[n].todo \ {p}]]
    BY <1>1
  <2>3. [call[n] EXCEPT !.asked = p, !.todo = call[n].todo \ {p}] \in OneCall
    BY <2>1 DEF OneCall
  <2> QED BY <2>2, <2>3
<1>6. \A x \in Node : call'[x].kind = call[x].kind
  BY <1>1 DEF OneCall
<1> QED BY <1>1, <1>4, <1>5, <1>6

LEMMA TypeHandleVote ==
  ASSUME TypeInv, NEW n \in Node, NEW m \in msgs, HandleVote(n, m)
  PROVE  TypeInv'
<1> USE DEF TypeInv
<1> DEFINE newer == m.term > term[n]
           vote  == IF newer THEN NoNode ELSE votedFor[n]
           ok    == m.term >= term[n] /\ Grants(n, m, vote)
           r     == [type |-> "reply", from |-> n, to |-> m.from, term |-> m.term, granted |-> ok]
<1>1. m.type = "vote"
  BY DEF HandleVote
<1>2. m.from \in Node /\ m.to \in Node /\ m.term \in 0..MaxTerm
  BY <1>1 DEF MessageTyped
<1>3. /\ role' = IF newer THEN [role EXCEPT ![n] = "follower"] ELSE role
      /\ term' = IF newer THEN [term EXCEPT ![n] = m.term] ELSE term
      /\ votedFor' = [votedFor EXCEPT ![n] = IF ok THEN m.from ELSE vote]
      /\ msgs' \subseteq msgs \cup {r} /\ IsFree(n)
      /\ UNCHANGED <<log, commit, done, call, votes, late>>
  BY DEF HandleVote
<1>4. r.type = "reply" /\ r.from = n /\ r.to = m.from /\ r.term = m.term
  OBVIOUS
<1> HIDE DEF r, ok
<1>5. MessageTyped(r)
  BY <1>2, <1>4 DEF MessageTyped
<1>6. \A k \in msgs' : MessageTyped(k)
  BY <1>3, <1>5
<1>7. /\ role' \in [Node -> {"follower", "candidate", "leader"}]
      /\ term' \in [Node -> 0..MaxTerm] /\ votedFor' \in [Node -> Node \cup {NoNode}]
  BY <1>2, <1>3
<1>8. \A x \in Node : role'[x] # "follower" \/ call'[x].kind = "vote" => term'[x] > 0
  BY <1>2, <1>3 DEF IsFree
<1> QED BY <1>3, <1>6, <1>7, <1>8

LEMMA TypeReceiveVote ==
  ASSUME TypeInv, NEW n \in Node, NEW m \in msgs, ReceiveVote(n, m)
  PROVE  TypeInv'
<1> USE DEF TypeInv
<1>1. m.from \in Node
  BY DEF ReceiveVote, MessageTyped
<1>2. /\ call' = [call EXCEPT ![n].asked = NoNode] /\ msgs' \subseteq msgs
      /\ votes' = [votes EXCEPT ![n] = IF m.granted THEN @ \cup {m.from} ELSE @]
      /\ UNCHANGED <<role, term, votedFor, log, commit, done, late>>
  BY DEF ReceiveVote
<1>3. call' \in [Node -> OneCall]
  BY <1>2 DEF OneCall
<1>4. \A x \in Node : call'[x].kind = call[x].kind
  BY <1>2 DEF OneCall
<1>5. votes' \in [Node -> SUBSET Node]
  BY <1>1, <1>2
<1> QED BY <1>2, <1>3, <1>4, <1>5

LEMMA TypeVoteTimesOut ==
  ASSUME TypeInv, NEW n \in Node, VoteTimesOut(n)
  PROVE  TypeInv'
<1> USE DEF TypeInv
<1>1. /\ call' = [call EXCEPT ![n].asked = NoNode] /\ msgs' \subseteq msgs
      /\ UNCHANGED <<role, term, votedFor, log, commit, done, votes, late>>
  BY DEF VoteTimesOut
<1>2. call' \in [Node -> OneCall]
  BY <1>1 DEF OneCall
<1>3. \A x \in Node : call'[x].kind = call[x].kind
  BY <1>1 DEF OneCall
<1> QED BY <1>1, <1>2, <1>3

LEMMA TypeCountVotes ==
  ASSUME TypeInv, NEW n \in Node, CountVotes(n)
  PROVE  TypeInv'
<1> USE DEF TypeInv
<1>1. Calls("beat", n) \in OneCall /\ Free \in OneCall
  BY DEF Calls, Free, OneCall
<1>2. UNCHANGED <<term, votedFor, log, commit, done, votes, late, msgs>>
  BY DEF CountVotes
<1>3. /\ role' \in [Node -> {"follower", "candidate", "leader"}]
      /\ call' \in [Node -> OneCall]
  BY <1>1 DEF CountVotes
<1>4. term[n] > 0 /\ \A x \in Node \ {n} : role'[x] = role[x] /\ call'[x] = call[x]
  BY DEF CountVotes
<1> QED BY <1>2, <1>3, <1>4

LEMMA TypePropose ==
  ASSUME TypeInv, NEW n \in Node, NEW c \in Command, Propose(n, c)
  PROVE  TypeInv'
<1> USE DEF TypeInv
<1> DEFINE e == [term |-> term[n], cmd |-> c]
           l == Append(log[n], e)
<1>0. role[n] = "leader"
  BY DEF Propose
<1>1. term[n] \in 1..MaxTerm
  <2>1. term[n] \in 0..MaxTerm /\ term[n] > 0
    BY <1>0
  <2> HIDE DEF TypeInv
  <2> QED BY <2>1, RaftAssumption
<1>2. e \in Entry
  BY <1>1 DEF Entry
<1>3. /\ log' = [log EXCEPT ![n] = l]
      /\ \/ /\ commit' = [commit EXCEPT ![n] = Len(l)]
            /\ done' = [done EXCEPT ![n] = Applied(n, l, Len(l))]
         \/ UNCHANGED <<commit, done>>
      /\ call' = [call EXCEPT ![n] = Calls("append", n)] /\ role[n] = "leader"
      /\ UNCHANGED <<role, term, votedFor, votes, late, msgs>>
  BY DEF Propose
<1> HIDE DEF e
<1>4. l \in Seq(Entry) /\ Len(l) \in Nat
  BY <1>2
<1> HIDE DEF l
<1>5. Applied(n, l, Len(l)) \in Done
  BY <1>4, AppliedType
<1>6. Calls("append", n) \in OneCall /\ Calls("append", n).kind = "append"
  BY DEF Calls, OneCall
<1>7. log' \in [Node -> Seq(Entry)] /\ commit' \in [Node -> Nat] /\ done' \in [Node -> Done]
  BY <1>3, <1>4, <1>5
<1>8. call' \in [Node -> OneCall] /\ \A x \in Node : call'[x].kind = "vote" => call[x].kind = "vote"
  BY <1>3, <1>6
<1> QED BY <1>3, <1>7, <1>8

LEMMA TypeSendTo ==
  ASSUME TypeInv, NEW n \in Node, NEW p \in Node, SendTo(n, p)
  PROVE  TypeInv'
<1> USE DEF TypeInv
<1> DEFINE rest == call[n].todo \ {p}
           next == IF rest = {} THEN Free ELSE [call[n] EXCEPT !.todo = rest]
<1>1. MessageTyped(Request(n, p))
  <2>1. CASE call[n].kind = "append"
    <3> DEFINE m == [type |-> "append", from |-> n, to |-> p, entries |-> log[n],
                     commit |-> commit[n]]
    <3>1. m.type = "append" /\ m.commit = commit[n] /\ m.entries = log[n]
      OBVIOUS
    <3> HIDE DEF m
    <3>2. MessageTyped(m)
      BY <3>1 DEF MessageTyped
    <3> QED BY <2>1, <3>2 DEF Request, m
  <2>2. CASE call[n].kind # "append"
    <3> DEFINE m == [type |-> "beat", from |-> n, to |-> p, commit |-> commit[n]]
    <3>1. m.type = "beat" /\ m.commit = commit[n]
      OBVIOUS
    <3> HIDE DEF m
    <3>2. MessageTyped(m)
      BY <3>1 DEF MessageTyped
    <3> QED BY <2>2, <3>2 DEF Request, m
  <2> QED BY <2>1, <2>2
<1>2. /\ msgs' = msgs \cup {Request(n, p)} /\ call' = [call EXCEPT ![n] = next]
      /\ call[n].kind \in {"append", "beat"}
      /\ UNCHANGED <<role, term, votedFor, log, commit, done, votes, late>>
  BY DEF SendTo
<1>3. next \in OneCall /\ next.kind # "vote"
  <2>1. call[n] \in OneCall /\ rest \in SUBSET Node
    BY DEF OneCall
  <2> HIDE DEF rest, TypeInv
  <2>2. CASE rest = {}
    BY <2>2 DEF OneCall, Free
  <2>3. CASE rest # {}
    BY <1>2, <2>1, <2>3 DEF OneCall
  <2> QED BY <2>2, <2>3
<1> HIDE DEF next
<1>4. call' \in [Node -> OneCall] /\ \A x \in Node : call'[x].kind = "vote" => call[x].kind = "vote"
  BY <1>2, <1>3
<1>5. \A k \in msgs' : MessageTyped(k)
  BY <1>1, <1>2
<1> QED BY <1>2, <1>4, <1>5

LEMMA CommitUpToType ==
  ASSUME NEW n \in Node, commit[n] \in Nat, NEW l \in Seq(Entry), NEW c \in Nat
  PROVE  CommitUpTo(n, l, c) \in Nat
BY DEF CommitUpTo, Min2

LEMMA TypeHandleAppend ==
  ASSUME TypeInv, NEW n \in Node, NEW m \in msgs, HandleAppend(n, m)
  PROVE  TypeInv'
<1> USE DEF TypeInv
<1> DEFINE l == Placed(log[n], m.entries)
           c == CommitUpTo(n, l, m.commit)
<1>1. m.type = "append" /\ m.commit \in Nat /\ m.entries \in Seq(Entry)
  BY DEF HandleAppend, MessageTyped
<1>2. /\ msgs' \subseteq msgs
      /\ \/ /\ log' = [log EXCEPT ![n] = l] /\ commit' = [commit EXCEPT ![n] = c]
            /\ done' = IF m.commit > commit[n] THEN [done EXCEPT ![n] = Applied(n, l, c)] ELSE done
         \/ UNCHANGED <<log, commit, done>>
      /\ UNCHANGED <<role, term, votedFor, call, votes, late>>
  BY DEF HandleAppend
<1>3. l \in Seq(Entry)
  BY <1>1, PlacedType
<1> HIDE DEF l
<1>4. c \in Nat
  BY <1>1, <1>3, CommitUpToType
<1> HIDE DEF c
<1>5. Applied(n, l, c) \in Done
  BY <1>3, <1>4, AppliedType
<1>6. log' \in [Node -> Seq(Entry)] /\ commit' \in [Node -> Nat] /\ done' \in [Node -> Done]
  BY <1>2, <1>3, <1>4, <1>5
<1> QED BY <1>2, <1>6

LEMMA TypeHandleBeat ==
  ASSUME TypeInv, NEW n \in Node, NEW m \in msgs, HandleBeat(n, m)
  PROVE  TypeInv'
<1> USE DEF TypeInv
<1>1. m.commit \in Nat
  BY DEF HandleBeat, MessageTyped
<1>2. CommitUpTo(n, log[n], m.commit) \in Nat
  BY <1>1, CommitUpToType
<1>3. /\ msgs' \subseteq msgs /\ late' \subseteq late \cup {n}
      /\ commit' = [commit EXCEPT ![n] = CommitUpTo(n, log[n], m.commit)]
      /\ UNCHANGED <<role, term, votedFor, log, done, call, votes>>
  BY DEF HandleBeat
<1>4. commit' \in [Node -> Nat]
  BY <1>2, <1>3
<1> QED BY <1>3, <1>4

LEMMA TypeApplyLate ==
  ASSUME TypeInv, NEW n \in Node, ApplyLate(n)
  PROVE  TypeInv'
<1> USE DEF TypeInv
<1>1. Applied(n, log[n], commit[n]) \in Done
  BY AppliedType
<1>2. /\ late' \subseteq late /\ done' = [done EXCEPT ![n] = Applied(n, log[n], commit[n])]
      /\ UNCHANGED <<role, term, votedFor, log, commit, call, votes, msgs>>
  BY DEF ApplyLate
<1>3. done' \in [Node -> Done]
  BY <1>1, <1>2
<1> QED BY <1>2, <1>3

LEMMA TypeRestart ==
  ASSUME TypeInv, NEW n \in Node, Restart(n)
  PROVE  TypeInv'
<1> USE DEF TypeInv
<1>1. Free \in OneCall /\ Free.kind = "none" /\ <<>> \in Done /\ 0 \in 0..MaxTerm
  BY RaftAssumption DEF Free, OneCall, Done
<1>2. /\ role' = [role EXCEPT ![n] = "follower"] /\ term' = [term EXCEPT ![n] = 0]
      /\ votedFor' = [votedFor EXCEPT ![n] = NoNode]
      /\ commit' = [commit EXCEPT ![n] = 0] /\ done' = [done EXCEPT ![n] = <<>>]
      /\ call' = [call EXCEPT ![n] = Free] /\ late' \subseteq late
      /\ votes' = [votes EXCEPT ![n] = {}] /\ log' = log /\ msgs' \subseteq msgs
  BY DEF Restart
<1> HIDE DEF TypeInv
<1>3. /\ role' \in [Node -> {"follower", "candidate", "leader"}]
      /\ term' \in [Node -> 0..MaxTerm] /\ votedFor' \in [Node -> Node \cup {NoNode}]
      /\ commit' \in [Node -> Nat] /\ done' \in [Node -> Done]
      /\ call' \in [Node -> OneCall] /\ votes' \in [Node -> SUBSET Node]
  BY <1>1, <1>2 DEF TypeInv
<1>4. \A x \in Node : role'[x] # "follower" \/ call'[x].kind = "vote" => term'[x] > 0
  BY <1>1, <1>2 DEF TypeInv
<1> QED BY <1>2, <1>3, <1>4 DEF TypeInv

LEMMA TypeInvNext == TypeInv /\ [Next]_vars => TypeInv'
<1> SUFFICES ASSUME TypeInv, [Next]_vars PROVE TypeInv'
  OBVIOUS
<1>1. CASE UNCHANGED vars
  BY <1>1 DEF vars, TypeInv, MessageTyped
<1>2. CASE Next
  <2>1. PICK n \in Node :
          \/ BecomeCandidate(n) \/ Proceed(n) \/ Handle(n) \/ ApplyLate(n) \/ Restart(n)
          \/ \E c \in Command : Propose(n, c)
    BY <1>2 DEF Next
  <2>2. CASE BecomeCandidate(n)
    BY <2>2, TypeBecomeCandidate
  <2>3. CASE Proceed(n)
    BY <2>3, TypeAskVote, TypeSendTo, TypeVoteTimesOut, TypeCountVotes DEF Proceed
  <2>4. CASE Handle(n)
    BY <2>4, TypeHandleVote, TypeReceiveVote, TypeHandleAppend, TypeHandleBeat DEF Handle
  <2>5. CASE ApplyLate(n)
    BY <2>5, TypeApplyLate
  <2>6. CASE Restart(n)
    BY <2>6, TypeRestart
  <2>7. CASE \E c \in Command : Propose(n, c)
    BY <2>7, TypePropose
  <2> QED BY <2>1, <2>2, <2>3, <2>4, <2>5, <2>6, <2>7
<1> QED BY <1>1, <1>2

\* The state of the nodes and the messages keep their types, in any cluster, with
\* any restarts: what append_entries puts into a log are entries that a leader of
\* some term proposed, and what _apply_committed applies are their commands.
THEOREM TypesKept == Spec => []TypeOK
<1>1. TypeInv => TypeOK
  <2> SUFFICES ASSUME TypeInv PROVE TypeOK
    OBVIOUS
  <2>1. \A n \in Node : /\ call[n].todo \subseteq Node /\ votes[n] \subseteq Node
                        /\ call[n].kind \in {"none", "vote", "append", "beat"}
    BY DEF TypeInv, OneCall
  <2> QED BY <2>1 DEF TypeInv, TypeOK, Done
<1> QED BY <1>1, TypeInvInit, TypeInvNext, PTL DEF Spec

-----------------------------------------------------------------------------
\* The bridge between Raft and the coordinator: the inductive invariant

Task == [kind : Kind, stage : {"new", "waiting", "gathering"}]

Shape ==
  /\ leader \in BOOLEAN /\ hooked \in BOOLEAN /\ running \in BOOLEAN /\ loops \in BOOLEAN
  /\ unseen \in BOOLEAN
  /\ state \in {"detached", "standby", "active", "transitioning"}
  /\ wal \in {"none", "open", "closed"}
  /\ tasks \in Seq(Task)
  /\ elections \in Nat /\ forced \in Nat /\ faults \in Nat

IsNew(i) == tasks[i].stage = "new"
NoneNew  == \A i \in 1..Len(tasks) : ~IsNew(i)
LastNew(i) == IsNew(i) /\ \A j \in (i + 1)..Len(tasks) : ~IsNew(j)

Undisturbed == forced = 0 /\ faults = 0

\* The last task that has not begun does what the leadership asks for; when all
\* have begun, the coordinator has heard of it.
LastTaskDecides ==
  Undisturbed =>
    /\ hooked
    /\ ~unseen /\ NoneNew => (running <=> leader)
    /\ ~unseen => \A i \in 1..Len(tasks) : LastNew(i) => (tasks[i].kind = "promote" <=> leader)

FollowInv == Shape /\ LastTaskDecides

USE BridgeAssumption

-----------------------------------------------------------------------------
\* The tasks after one was added, or taken out

LEMMA AppendTask ==
  ASSUME NEW ts \in Seq(Task), NEW t \in Task
  PROVE  /\ Append(ts, t) \in Seq(Task) /\ Len(Append(ts, t)) = Len(ts) + 1
         /\ Append(ts, t)[Len(ts) + 1] = t
         /\ \A j \in 1..Len(ts) : Append(ts, t)[j] = ts[j]
OBVIOUS

LEMMA WithoutTask ==
  ASSUME tasks \in Seq(Task), NEW i \in 1..Len(tasks)
  PROVE  /\ Without(i) \in Seq(Task) /\ Len(Without(i)) = Len(tasks) - 1
         /\ \A j \in 1..(Len(tasks) - 1) :
              Without(i)[j] = IF j < i THEN tasks[j] ELSE tasks[j + 1]
<1> DEFINE A == SubSeq(tasks, 1, i - 1)
           B == SubSeq(tasks, i + 1, Len(tasks))
<1>1. /\ A \in Seq(Task) /\ Len(A) = i - 1 /\ \A j \in 1..(i - 1) : A[j] = tasks[j]
  OBVIOUS
<1>2. /\ B \in Seq(Task) /\ Len(B) = Len(tasks) - i
      /\ \A j \in 1..(Len(tasks) - i) : B[j] = tasks[i + j]
  OBVIOUS
<1> HIDE DEF A, B
<1>3. Without(i) = A \o B
  BY DEF Without, A, B
<1>4. A \o B \in Seq(Task) /\ Len(A \o B) = Len(tasks) - 1
  <2>1. A \o B \in Seq(Task) /\ Len(A \o B) = Len(A) + Len(B)
    BY <1>1, <1>2, ConcatProperties
  <2>2. Len(tasks) \in Nat /\ i \in Nat
    OBVIOUS
  <2>3. \A l, k \in Nat : (k - 1) + (l - k) = l - 1
    OBVIOUS
  <2> QED  BY <1>1, <1>2, <2>1, <2>2, <2>3
<1>5. ASSUME NEW j \in 1..(Len(tasks) - 1)
      PROVE  (A \o B)[j] = IF j < i THEN tasks[j] ELSE tasks[j + 1]
  <2>1. CASE j < i
    BY <1>1, <1>2, <2>1
  <2>2. CASE ~(j < i)
    <3>1. j - (i - 1) \in 1..(Len(tasks) - i) /\ i + (j - (i - 1)) = j + 1
      BY <2>2
    <3>2. (A \o B)[j] = B[j - (i - 1)]
      BY <1>1, <1>2, <2>2
    <3> QED  BY <1>2, <2>2, <3>1, <3>2
  <2> QED  BY <2>1, <2>2
<1> QED  BY <1>3, <1>4, <1>5

-----------------------------------------------------------------------------
\* Steps of the tasks: a task taken out, and perhaps one that has begun put at the end

TakenOut(i) ==
  /\ tasks' \in Seq(Task) /\ Len(tasks') >= Len(tasks) - 1
  /\ \A j \in 1..(Len(tasks) - 1) : tasks'[j] = IF j < i THEN tasks[j] ELSE tasks[j + 1]
  /\ \A j \in Len(tasks)..Len(tasks') : tasks'[j].stage # "new"

LEMMA TakeOut ==
  ASSUME tasks \in Seq(Task), NEW i \in 1..Len(tasks), NEW t \in Task, t.stage # "new",
         tasks' = Without(i) \/ tasks' = Append(Without(i), t)
  PROVE  TakenOut(i)
<1>1. /\ Without(i) \in Seq(Task) /\ Len(Without(i)) = Len(tasks) - 1 /\ Len(tasks) \in Nat
      /\ \A j \in 1..(Len(tasks) - 1) :
           Without(i)[j] = IF j < i THEN tasks[j] ELSE tasks[j + 1]
  BY WithoutTask
<1>2. CASE tasks' = Without(i)
  BY <1>1, <1>2 DEF TakenOut
<1>3. CASE tasks' = Append(Without(i), t)
  <2>1. /\ tasks' \in Seq(Task) /\ Len(tasks') = Len(tasks)
        /\ tasks'[Len(tasks)] = t
        /\ \A j \in 1..(Len(tasks) - 1) : tasks'[j] = Without(i)[j]
    BY <1>1, <1>3, AppendTask
  <2>2. \A j \in Len(tasks)..Len(tasks') : tasks'[j].stage # "new"
    BY <2>1
  <2> QED  BY <1>1, <2>1, <2>2 DEF TakenOut
<1> QED  BY <1>2, <1>3

\* A task that has not begun is the first of those that have not: when it was the
\* only one, the coordinator is left as it decides.
LEMMA BeginTask ==
  ASSUME FollowInv, NEW i \in 1..Len(tasks), IsNext(i, "new"), TakenOut(i),
         running' <=> tasks[i].kind = "promote",
         UNCHANGED <<leader, hooked, unseen, forced, faults>>
  PROVE  LastTaskDecides'
<1> SUFFICES ASSUME Undisturbed
             PROVE  /\ hooked
                    /\ ~unseen /\ NoneNew' => (running' <=> leader)
                    /\ ~unseen => \A k \in 1..Len(tasks') :
                         LastNew(k)' => (tasks'[k].kind = "promote" <=> leader)
  BY DEF LastTaskDecides, Undisturbed
<1>1. /\ hooked /\ Len(tasks) \in Nat /\ IsNew(i) /\ \A j \in 1..(i - 1) : ~IsNew(j)
      /\ ~unseen => \A k \in 1..Len(tasks) : LastNew(k) => (tasks[k].kind = "promote" <=> leader)
  BY DEF FollowInv, Shape, LastTaskDecides, IsNext, IsNew
<1>2. \A j \in (i + 1)..Len(tasks) : j - 1 \in 1..(Len(tasks) - 1) /\ tasks'[j - 1] = tasks[j]
  BY <1>1 DEF TakenOut
<1>3. ASSUME ~unseen, NoneNew' PROVE running' <=> leader
  <2>1. \A j \in (i + 1)..Len(tasks) : ~IsNew(j)
    BY <1>1, <1>2, <1>3 DEF NoneNew, IsNew, TakenOut
  <2>2. LastNew(i)
    BY <1>1, <2>1 DEF LastNew
  <2> QED  BY <1>1, <1>3, <2>2
<1>4. ASSUME ~unseen, NEW k \in 1..Len(tasks'), LastNew(k)'
      PROVE  tasks'[k].kind = "promote" <=> leader
  <2>1. tasks'[k].stage = "new" /\ \A j \in (k + 1)..Len(tasks') : tasks'[j].stage # "new"
    BY <1>4 DEF LastNew, IsNew
  <2>2. Len(tasks') \in Nat /\ k \in 1..(Len(tasks) - 1)
    BY <1>1, <2>1 DEF TakenOut
  <2>3. ~(k < i)
    BY <1>1, <2>1, <2>2 DEF TakenOut, IsNew
  <2>4. tasks'[k] = tasks[k + 1]
    BY <2>2, <2>3 DEF TakenOut
  <2>5. ASSUME NEW j \in (k + 2)..Len(tasks) PROVE ~IsNew(j)
    <3>1. j - 1 \in (k + 1)..Len(tasks') /\ j \in (i + 1)..Len(tasks)
      BY <1>1, <2>2, <2>3 DEF TakenOut
    <3> QED  BY <1>2, <2>1, <3>1 DEF IsNew
  <2>6. k + 1 \in 1..Len(tasks) /\ LastNew(k + 1)
    BY <1>1, <2>1, <2>2, <2>4, <2>5 DEF LastNew, IsNew
  <2> QED  BY <1>1, <1>4, <2>4, <2>6
<1> QED  BY <1>1, <1>3, <1>4

\* A task that goes on changes neither the coordinator nor what is yet to begin.
LEMMA ContinueTask ==
  ASSUME FollowInv, NEW i \in 1..Len(tasks), ~IsNew(i), TakenOut(i),
         UNCHANGED <<running, leader, hooked, unseen, forced, faults>>
  PROVE  LastTaskDecides'
<1> SUFFICES ASSUME Undisturbed
             PROVE  /\ hooked
                    /\ ~unseen /\ NoneNew' => (running <=> leader)
                    /\ ~unseen => \A k \in 1..Len(tasks') :
                         LastNew(k)' => (tasks'[k].kind = "promote" <=> leader)
  BY DEF LastTaskDecides, Undisturbed
<1>1. /\ hooked /\ Len(tasks) \in Nat
      /\ ~unseen /\ NoneNew => (running <=> leader)
      /\ ~unseen => \A k \in 1..Len(tasks) : LastNew(k) => (tasks[k].kind = "promote" <=> leader)
  BY DEF FollowInv, Shape, LastTaskDecides
<1>2. /\ \A j \in (i + 1)..Len(tasks) : j - 1 \in 1..(Len(tasks) - 1) /\ tasks'[j - 1] = tasks[j]
      /\ \A j \in 1..(i - 1) : j \in 1..(Len(tasks) - 1) /\ tasks'[j] = tasks[j]
  BY <1>1 DEF TakenOut
<1>3. ASSUME ~unseen, NoneNew' PROVE running <=> leader
  <2> SUFFICES ASSUME NEW j \in 1..Len(tasks) PROVE ~IsNew(j)
    BY <1>1, <1>3 DEF NoneNew
  <2>1. j \in 1..(i - 1) \/ j = i \/ j \in (i + 1)..Len(tasks)
    BY <1>1
  <2>2. \A m \in 1..(Len(tasks) - 1) : tasks'[m].stage # "new"
    BY <1>1, <1>3 DEF NoneNew, IsNew, TakenOut
  <2> QED  BY <1>2, <2>1, <2>2 DEF IsNew
<1>4. ASSUME ~unseen, NEW k \in 1..Len(tasks'), LastNew(k)'
      PROVE  tasks'[k].kind = "promote" <=> leader
  <2>1. tasks'[k].stage = "new" /\ \A j \in (k + 1)..Len(tasks') : tasks'[j].stage # "new"
    BY <1>4 DEF LastNew, IsNew
  <2>2. Len(tasks') \in Nat /\ k \in 1..(Len(tasks) - 1)
    BY <1>1, <2>1 DEF TakenOut
  <2>3. PICK q \in 1..Len(tasks) : /\ q # i /\ tasks'[k] = tasks[q]
                                   /\ q = IF k < i THEN k ELSE k + 1
    BY <1>1, <2>2 DEF TakenOut
  <2>4. ASSUME NEW j \in (q + 1)..Len(tasks) PROVE ~IsNew(j)
    <3>1. CASE j < i
      <4>1. j \in 1..(i - 1) /\ j \in (k + 1)..Len(tasks')
        BY <1>1, <2>2, <2>3, <3>1 DEF TakenOut
      <4> QED  BY <1>2, <2>1, <4>1 DEF IsNew
    <3>2. CASE j > i
      <4>1. j \in (i + 1)..Len(tasks) /\ j - 1 \in (k + 1)..Len(tasks')
        BY <1>1, <2>2, <2>3, <3>2 DEF TakenOut
      <4> QED  BY <1>2, <2>1, <4>1 DEF IsNew
    <3> QED  BY <3>1, <3>2
  <2>5. LastNew(q)
    BY <2>1, <2>3, <2>4 DEF LastNew, IsNew
  <2> QED  BY <1>1, <1>4, <2>3, <2>5
<1> QED  BY <1>1, <1>3, <1>4

\* A task that a callback of Raft has added is the last one.
LEMMA AddTask ==
  ASSUME FollowInv, NEW k \in Kind, tasks' = Append(tasks, At(k, "new")),
         hooked' = hooked, forced' = forced, faults' = faults,
         ~unseen' => (k = "promote" <=> leader')
  PROVE  tasks' \in Seq(Task) /\ LastTaskDecides'
<1>1. tasks \in Seq(Task) /\ At(k, "new") \in Task /\ Len(tasks) \in Nat
  BY DEF FollowInv, Shape, Task, At
<1>2. /\ tasks' \in Seq(Task) /\ Len(tasks') = Len(tasks) + 1
      /\ tasks'[Len(tasks) + 1] = At(k, "new")
  BY <1>1, AppendTask
<1>3. ~NoneNew'
  BY <1>1, <1>2 DEF NoneNew, IsNew, At
<1>4. ASSUME NEW i \in 1..Len(tasks'), LastNew(i)'
      PROVE  tasks'[i].kind = k
  <2>1. i = Len(tasks) + 1
    BY <1>1, <1>2, <1>4 DEF LastNew, IsNew, At
  <2> QED  BY <1>2, <2>1 DEF At
<1> QED  BY <1>2, <1>3, <1>4 DEF FollowInv, LastTaskDecides, Undisturbed

-----------------------------------------------------------------------------
\* Every step keeps the invariant

LEMMA RaftCallbacks ==
  ASSUME FollowInv, NEW c \in Caller, LeaderElected(c) \/ StepDown(c)
  PROVE  FollowInv'
<1>1. /\ c \in {"loop", "handler", "main"} /\ leader' \in BOOLEAN
      /\ unseen' = (hooked /\ c # "loop") /\ unseen' \in BOOLEAN
      /\ elections' \in {elections, elections + 1}
      /\ UNCHANGED <<hooked, running, wal, loops, forced, faults>>
  BY DEF LeaderElected, StepDown, OffLoop, coordinator, counts
<1>2. elections' \in Nat
  BY <1>1 DEF FollowInv, Shape
<1>3. CASE hooked /\ c = "loop"
  <2>1. PICK k \in Kind : tasks' = Append(tasks, At(k, "new")) /\ (k = "promote" <=> leader')
    <3>1. CASE LeaderElected(c)
      BY <1>3, <3>1 DEF LeaderElected, Kind
    <3>2. CASE StepDown(c)
      BY <1>3, <3>2 DEF StepDown, OffLoop, Kind
    <3> QED  BY <3>1, <3>2
  <2>2. tasks' \in Seq(Task) /\ LastTaskDecides'
    BY <1>1, <2>1, AddTask
  <2>3. state' = "transitioning"
    BY <1>3 DEF LeaderElected, StepDown, OffLoop
  <2> QED  BY <1>1, <1>2, <2>2, <2>3 DEF FollowInv, Shape
<1>4. CASE ~(hooked /\ c = "loop")
  <2>1. tasks' = tasks /\ state' \in {state, "standby", "transitioning"}
    BY <1>1, <1>4 DEF LeaderElected, StepDown, OffLoop
  <2>2. LastTaskDecides'
    BY <1>1, <1>4, <2>1 DEF FollowInv, LastTaskDecides, Undisturbed
  <2> QED  BY <1>1, <1>2, <2>1, <2>2 DEF FollowInv, Shape
<1> QED  BY <1>3, <1>4

LEMMA TaskStep ==
  ASSUME FollowInv, RunTask
  PROVE  FollowInv'
<1>1. tasks \in Seq(Task) /\ DOMAIN tasks = 1..Len(tasks)
  BY DEF FollowInv, Shape
<1>2. PICK i \in 1..Len(tasks) :
        Promote(i) \/ PromoteFails(i) \/ Promoted(i) \/ Stop(i) \/ StopEnds(i)
  BY <1>1 DEF RunTask
<1>3. tasks[i] \in Task /\ tasks[i].kind \in Kind
  <2>1. tasks[i] \in Task
    BY <1>1
  <2> QED  BY <2>1 DEF Task
<1>4. /\ At("promote", "waiting") \in Task /\ At("promote", "waiting").stage # "new"
      /\ At(tasks[i].kind, "gathering") \in Task /\ At(tasks[i].kind, "gathering").stage # "new"
  BY <1>3 DEF Task, At, Kind
<1>5. CASE Promote(i)
  <2>1. /\ IsNext(i, "new") /\ tasks[i].kind = "promote" /\ running' = TRUE
        /\ tasks' = Append(Without(i), At("promote", "waiting"))
        /\ wal' \in {wal, "open"} /\ loops' \in {loops, TRUE}
        /\ UNCHANGED <<leader, hooked, unseen, state, elections, forced, faults>>
    <3>1. /\ IsNext(i, "new") /\ tasks[i].kind = "promote"
          /\ tasks' = Append(Without(i), At("promote", "waiting")) /\ running' = TRUE
          /\ IF running THEN wal' = wal /\ loops' = loops ELSE wal' = "open" /\ loops' = TRUE
          /\ UNCHANGED <<leader, hooked, unseen, state, elections, forced, faults>>
      BY <1>5 DEF Promote, Started, counts
    <3> QED  BY <3>1
  <2>2. TakenOut(i)
    BY <1>1, <1>4, <2>1, TakeOut
  <2>3. LastTaskDecides'
    BY <2>1, <2>2, BeginTask
  <2> QED  BY <2>1, <2>2, <2>3 DEF FollowInv, Shape, TakenOut
<1>6. CASE PromoteFails(i)
  <2>1. /\ running' = TRUE /\ faults' = faults + 1 /\ state' = "standby" /\ tasks' = Without(i)
        /\ UNCHANGED <<leader, hooked, unseen, wal, loops, elections, forced>>
    BY <1>6 DEF PromoteFails, StartRaises
  <2>2. TakenOut(i)
    BY <1>1, <1>4, <2>1, TakeOut
  <2>3. LastTaskDecides'
    BY <2>1 DEF FollowInv, Shape, LastTaskDecides, Undisturbed
  <2> QED  BY <2>1, <2>2, <2>3 DEF FollowInv, Shape, TakenOut
<1>7. CASE Promoted(i)
  <2>1. /\ ~IsNew(i) /\ state' = "active" /\ tasks' = Without(i)
        /\ UNCHANGED <<leader, hooked, unseen, running, wal, loops, elections, forced, faults>>
    BY <1>7 DEF Promoted, IsNext, IsNew, coordinator, counts
  <2>2. TakenOut(i)
    BY <1>1, <1>4, <2>1, TakeOut
  <2>3. LastTaskDecides'
    BY <2>1, <2>2, ContinueTask
  <2> QED  BY <2>1, <2>2, <2>3 DEF FollowInv, Shape, TakenOut
<1>8. CASE Stop(i)
  <2>1. /\ IsNext(i, "new") /\ tasks[i].kind # "promote" /\ running' = FALSE
        /\ tasks' = Without(i) \/ tasks' = Append(Without(i), At(tasks[i].kind, "gathering"))
        /\ wal' \in {wal, "none", "closed"} /\ loops' \in {loops, FALSE}
        /\ state' \in {state, "standby"}
        /\ UNCHANGED <<leader, hooked, unseen, elections, forced, faults>>
    BY <1>8 DEF Stop, Stopped, Closed, counts
  <2>2. TakenOut(i)
    BY <1>1, <1>4, <2>1, TakeOut
  <2>3. LastTaskDecides'
    BY <2>1, <2>2, BeginTask
  <2> QED  BY <2>1, <2>2, <2>3 DEF FollowInv, Shape, TakenOut
<1>9. CASE StopEnds(i)
  <2>1. /\ ~IsNew(i) /\ tasks' = Without(i) /\ loops' = FALSE
        /\ wal' \in {"none", "closed"} /\ state' \in {state, "standby"}
        /\ UNCHANGED <<leader, hooked, unseen, running, elections, forced, faults>>
    BY <1>9 DEF StopEnds, Closed, IsNext, IsNew, counts
  <2>2. TakenOut(i)
    BY <1>1, <1>4, <2>1, TakeOut
  <2>3. LastTaskDecides'
    BY <2>1, <2>2, ContinueTask
  <2> QED  BY <2>1, <2>2, <2>3 DEF FollowInv, Shape, TakenOut
<1> QED  BY <1>2, <1>5, <1>6, <1>7, <1>8, <1>9

LEMMA BridgeCalls ==
  ASSUME FollowInv, Attach \/ Detach \/ ForcePromotion \/ ForceDemotion
  PROVE  FollowInv'
<1>1. /\ forced' = forced + 1 /\ forced' # 0 /\ forced' \in Nat
      /\ elections' = elections /\ elections' \in Nat
      /\ leader' = leader /\ unseen' = unseen /\ unseen' \in BOOLEAN /\ leader' \in BOOLEAN
  BY DEF Attach, Detach, ForcePromotion, ForceDemotion, FollowInv, Shape
<1>2. LastTaskDecides'
  BY <1>1 DEF LastTaskDecides, Undisturbed
<1>3. /\ At("stop", "new") \in Task /\ At("promote", "waiting") \in Task
      /\ At("demote", "gathering") \in Task
  BY DEF Task, At, Kind
<1>4. /\ tasks' \in {tasks, Append(tasks, At("stop", "new")),
                     Append(tasks, At("promote", "waiting")),
                     Append(tasks, At("demote", "gathering"))}
      /\ hooked' \in {hooked, TRUE, FALSE} /\ running' \in {running, TRUE, FALSE}
      /\ loops' \in {loops, TRUE, FALSE} /\ wal' \in {wal, "none", "open", "closed"}
      /\ state' \in {state, "standby", "detached"} /\ faults' \in {faults, faults + 1}
  <2>1. CASE Attach
    BY <2>1 DEF Attach, coordinator
  <2>2. CASE Detach
    BY <2>2 DEF Detach, coordinator
  <2>3. CASE ForcePromotion
    BY <2>3 DEF ForcePromotion, Started, StartRaises
  <2>4. CASE ForceDemotion
    BY <2>4 DEF ForceDemotion, Stopped, Closed
  <2> QED  BY <2>1, <2>2, <2>3, <2>4
<1>5. tasks' \in Seq(Task)
  <2>1. tasks \in Seq(Task)
    BY DEF FollowInv, Shape
  <2> QED  BY <1>3, <1>4, <2>1, AppendTask
<1>6. /\ hooked' \in BOOLEAN /\ running' \in BOOLEAN /\ loops' \in BOOLEAN
      /\ wal' \in {"none", "open", "closed"}
      /\ state' \in {"detached", "standby", "active", "transitioning"}
  BY <1>4 DEF FollowInv, Shape
<1>7. faults' \in Nat
  BY <1>4 DEF FollowInv, Shape
<1> QED  BY <1>1, <1>2, <1>5, <1>6, <1>7 DEF FollowInv, Shape

\* However fast leadership comes and goes, and wherever the tasks of the bridge give way to
\* each other, once they have run the coordinator runs on the leader and nowhere else, if
\* nobody forced it, it could be started, and the last change of leadership came on the
\* event loop (_on_leader_elected, _on_step_down, _promote_coordinator, _demote_coordinator).
THEOREM BridgeCorrect == BridgeSpec => []BridgeInv
<1>1. BridgeInit => FollowInv
  <2> SUFFICES ASSUME BridgeInit PROVE FollowInv
    OBVIOUS
  <2>1. tasks = <<>> /\ Len(tasks) = 0 /\ tasks \in Seq(Task)
    BY DEF BridgeInit
  <2>2. Shape
    BY <2>1 DEF BridgeInit, Shape
  <2>3. LastTaskDecides
    BY <2>1, \A i : i \notin 1..0 DEF BridgeInit, LastTaskDecides
  <2> QED  BY <2>2, <2>3 DEF FollowInv
<1>2. FollowInv /\ [BridgeNext]_bridgeVars => FollowInv'
  <2>1. ASSUME FollowInv, UNCHANGED bridgeVars PROVE FollowInv'
    BY <2>1 DEF FollowInv, Shape, LastTaskDecides, Undisturbed, NoneNew, LastNew, IsNew,
                bridgeVars, coordinator, counts
  <2> QED  BY <2>1, RaftCallbacks, TaskStep, BridgeCalls DEF BridgeNext
<1>3. FollowInv => BridgeInv
  <2> SUFFICES ASSUME FollowInv PROVE BridgeInv
    OBVIOUS
  <2>1. \A i \in DOMAIN tasks : tasks[i] \in Task
    BY DEF FollowInv, Shape
  <2>2. BridgeTypeOK
    BY <2>1 DEF FollowInv, Shape, BridgeTypeOK, Task
  <2>3. CoordinatorFollowsLeader
    BY DEF FollowInv, LastTaskDecides, CoordinatorFollowsLeader, Settled, Undisturbed, NoneNew
  <2> QED  BY <2>2, <2>3 DEF BridgeInv
<1> QED  BY <1>1, <1>2, <1>3, PTL DEF BridgeSpec

===============================================================================
