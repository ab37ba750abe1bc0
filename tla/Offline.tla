------------------------------- MODULE Offline -------------------------------
(***************************************************************************)
(* Offline writes and reconnection of a hybrid Raft node                    *)
(* (OfflineManager, StateCRDT and reconnect of engine/raft_consensus.py).   *)
(*                                                                         *)
(* "away" is the node that goes offline, "home" the node object it comes    *)
(* back to.  Both live in one process: reconnect copies the dictionary of   *)
(* home's states, not the states, so both then share NodeState objects.     *)
(* Other threads use both nodes while away comes back.  Elections,          *)
(* replication and commitment by votes are the subject of module Raft.      *)
(***************************************************************************)
EXTENDS Naturals, Sequences, FiniteSets

CONSTANTS
  Slug,        \* names of runs
  RunState,    \* states of runs that commands name
  Unset,       \* the state of a NodeState() without arguments
  Archived,    \* "archived"
  Transitions, \* the configured transitions, as a set of pairs of states
  Given,       \* the commands that are given
  MaxAtHome,   \* bound: commands given to home
  MaxAway,     \* bound: commands given to away
  MaxTurns,    \* bound: elections won by home, and restarts of home
  MaxTrips     \* bound: times that away goes offline

ASSUME OfflineAssumption ==
  /\ Unset \notin RunState /\ Archived \notin RunState /\ Unset # Archived
  /\ Transitions \subseteq RunState \X RunState
  /\ Given \subseteq [type : {"create", "transition", "archive"}, slug : Slug, to : RunState,
                       id : {0}]
  /\ MaxAtHome \in Nat /\ MaxAway \in Nat /\ MaxTurns \in Nat /\ MaxTrips \in Nat

VARIABLES
  alone,     \* home is its own majority: it has at most one peer
  leads,     \* home's role is LEADER
  homeLog,   \* home's log, also on disk
  applied,   \* how many entries each node has applied: last_applied + 1
  sm,        \* state_machine of both nodes, and the slugs whose object they share
  snapshot,  \* home's snapshot file
  offline,   \* is_offline
  pending,   \* operations of the offline manager
  sync,      \* go_online or reconnect under way
  excused,   \* offline writes that a reconnect was refused, or that came while it ran
  outside,   \* home's states were changed outside its log: see HomeFollowsLog
  given, turns, trips

offlineVars == <<alone, leads, homeLog, applied, sm, snapshot, offline, pending, sync,
                 excused, outside, given, turns, trips>>

NodeState == [state : RunState \cup {Unset, Archived}, version : Nat]
NoState == [state |-> Unset, version |-> 0]

\* A dictionary without the slug
Missing == [state |-> Archived, version |-> 0]
RunKnown(s) == s # Missing

\* id 0 marks a command that was not written offline.
Command == [type : {"create", "transition", "archive"}, slug : Slug, to : RunState, id : Nat]
Awake == [kind |-> "none", step |-> "none", i |-> 0]

OfflineInit ==
  /\ alone \in BOOLEAN /\ leads = FALSE /\ homeLog = <<>>
  /\ applied = [home |-> 0, away |-> 0]
  /\ sm = [home |-> [s \in Slug |-> Missing], away |-> [s \in Slug |-> Missing], shared |-> {}]
  /\ snapshot = [s \in Slug |-> Missing]
  /\ offline = FALSE /\ pending = <<>> /\ sync = Awake
  /\ excused = {} /\ outside = FALSE
  /\ given = [home |-> 0, away |-> 0] /\ turns = 0 /\ trips = 0

-----------------------------------------------------------------------------
\* DistributedStateMachine._apply_command.  A transition changes the object in place,
\* the others put a new one into the node's dictionary.

\* self._states.get(slug, NodeState())
StateOf(states, slug) == IF RunKnown(states[slug]) THEN states[slug] ELSE NoState

Other(node) == IF node = "home" THEN "away" ELSE "home"

ApplyCommand(m, node, c) ==
  LET new == [state   |-> IF c.type = "archive" THEN Archived ELSE c.to,
              version |-> IF c.type = "create" THEN 1 ELSE StateOf(m[node], c.slug).version + 1]
      both == c.type = "transition" /\ c.slug \in m.shared
  IN  [m EXCEPT ![node] = [m[node] EXCEPT ![c.slug] = new],
                ![Other(node)] = IF both THEN [m[Other(node)] EXCEPT ![c.slug] = new] ELSE @,
                !.shared = IF c.type = "transition" THEN @ ELSE @ \ {c.slug}]

\* _apply_committed: the entries from the first one not applied to the last
ApplyCommitted(m, node, log, from) ==
  LET upto[k \in from..Len(log)] ==
        IF k = from THEN m ELSE ApplyCommand(upto[k - 1], node, log[k])
  IN  IF from < Len(log) THEN upto[Len(log)] ELSE m

\* Pure replay of a log
Replayed(n) ==
  ApplyCommitted([home |-> [s \in Slug |-> Missing], away |-> [s \in Slug |-> Missing],
                  shared |-> {}], "home", SubSeq(homeLog, 1, n), 0).home

\* DistributedStateMachine.propose at home, as it is called when home leads
Propose(c) ==
  /\ homeLog' = Append(homeLog, c)
  /\ sm' = IF alone THEN ApplyCommitted(sm, "home", homeLog', applied.home) ELSE sm
  /\ applied' = [applied EXCEPT !.home = IF alone THEN Len(homeLog') ELSE @]

HomeApplies(c) ==
  /\ leads /\ given.home < MaxAtHome
  /\ given' = [given EXCEPT !.home = @ + 1]
  /\ Propose(c)
  /\ UNCHANGED <<alone, leads, snapshot, offline, pending, sync, excused, outside, turns, trips>>

HomeWins ==
  /\ ~leads /\ turns < MaxTurns
  /\ leads' = TRUE /\ turns' = turns + 1
  /\ UNCHANGED <<alone, homeLog, applied, sm, snapshot, offline, pending, sync, excused, outside,
                 given, trips>>

HomeStepsDown ==
  /\ leads /\ leads' = FALSE
  /\ UNCHANGED <<alone, homeLog, applied, sm, snapshot, offline, pending, sync, excused, outside,
                 given, turns, trips>>

\* A new node object on home's files, while away is not coming back to the old one
HomeRestarts ==
  /\ turns < MaxTurns /\ sync = Awake /\ turns' = turns + 1
  /\ leads' = FALSE /\ applied' = [applied EXCEPT !.home = 0]
  /\ sm' = [sm EXCEPT !.home = snapshot, !.shared = {}]
  /\ outside' = TRUE
  /\ UNCHANGED <<alone, homeLog, snapshot, offline, pending, sync, excused, given, trips>>

-----------------------------------------------------------------------------
\* Away: HybridConsensusNode.apply and the offline manager

GoOffline ==
  /\ ~offline /\ sync = Awake /\ trips < MaxTrips
  /\ offline' = TRUE /\ trips' = trips + 1
  /\ UNCHANGED <<alone, leads, homeLog, applied, sm, snapshot, pending, sync, excused, outside,
                 given, turns>>

\* apply_pending: only a transition changes the local state, and it is optimistic.
AwayApplies(c) ==
  /\ offline /\ given.away < MaxAway
  /\ given' = [given EXCEPT !.away = @ + 1]
  /\ LET op == [c EXCEPT !.id = given.away + 1]
         known == [sm EXCEPT !.away[c.slug] = StateOf(sm.away, c.slug)]
     IN  /\ pending' = Append(pending, [cmd |-> op, applied |-> FALSE])
         /\ sm' = IF c.type = "transition" THEN ApplyCommand(known, "away", op) ELSE known
         /\ excused' = IF sync = Awake THEN excused ELSE excused \cup {op.id}
  /\ outside' = (outside \/ (c.type = "transition" /\ c.slug \in sm.shared))
  /\ UNCHANGED <<alone, leads, homeLog, applied, snapshot, offline, sync, turns, trips>>

-----------------------------------------------------------------------------
\* StateCRDT

\* _find_path finds a path just if there is one.
Reaches(a, b) ==
  LET within[k \in 0..Cardinality(RunState)] ==
        IF k = 0 THEN {a}
        ELSE within[k - 1] \cup {y \in RunState : \E x \in within[k - 1] : <<x, y>> \in Transitions}
  IN  b \in within[Cardinality(RunState)]

\* Variant: any path between the two decides for the other's state.
MergeEitherWay(local, remote) ==
  IF remote.version # local.version
  THEN IF remote.version > local.version THEN "remote" ELSE "local"
  ELSE IF Reaches(local.state, remote.state) \/ Reaches(remote.state, local.state)
       THEN "remote" ELSE "local"

\* merge: which of the two it returns
Merge(local, remote) ==
  IF remote.version # local.version
  THEN IF remote.version > local.version THEN "remote" ELSE "local"
  ELSE IF remote.state # local.state /\ Reaches(local.state, remote.state)
       THEN "remote" ELSE "local"

MergedValue(local, remote) == IF Merge(local, remote) = "remote" THEN remote ELSE local

\* provide_merge at home: the object that merge returned becomes home's.
ProvideMerge(slug, which) ==
  IF leads
  THEN /\ sm' = IF which = "remote" THEN sm
                ELSE [sm EXCEPT !.home[slug] = sm.away[slug], !.shared = @ \cup {slug}]
       /\ snapshot' = sm'.home
  ELSE UNCHANGED <<sm, snapshot>>

-----------------------------------------------------------------------------
\* OfflineManager.go_online: each pending operation is proposed or else merged.  What it
\* sent is marked and stays in the list.

GoOnline ==
  /\ offline /\ sync = Awake /\ offline' = FALSE
  /\ sync' = [kind |-> "online", step |-> "send", i |-> 1]
  /\ UNCHANGED <<alone, leads, homeLog, applied, sm, snapshot, pending, excused, outside,
                 given, turns, trips>>

OpOf(kind, step) == sync.kind = kind /\ sync.step = step /\ sync.i <= Len(pending)
NextOp == sync' = [sync EXCEPT !.step = "send", !.i = @ + 1]
\* Variant: what was sent is not marked.
MarkNothing == pending' = pending

Mark == pending' = [pending EXCEPT ![sync.i].applied = TRUE]

\* One round of the loop that proposes, in both procedures
SendOp ==
  /\ OpOf(sync.kind, "send") /\ sync.kind # "none"
  /\ IF pending[sync.i].applied THEN NextOp /\ UNCHANGED <<pending, homeLog, sm, applied, excused>>
     ELSE IF leads THEN NextOp /\ Mark /\ Propose(pending[sync.i].cmd) /\ excused' = excused
     ELSE /\ IF sync.kind = "online" THEN sync' = [sync EXCEPT !.step = "merge"] /\ excused' = excused
             ELSE NextOp /\ excused' = excused \cup {pending[sync.i].cmd.id}
          /\ UNCHANGED <<pending, homeLog, sm, applied>>
  /\ UNCHANGED <<alone, leads, snapshot, offline, outside, given, turns, trips>>

MergeOp ==
  /\ OpOf("online", "merge") /\ NextOp
  /\ LET s == pending[sync.i].cmd.slug
         l == sm.away[s] r == sm.home[s]
     IN  /\ IF RunKnown(l) /\ RunKnown(r) THEN ProvideMerge(s, Merge(l, r)) ELSE UNCHANGED <<sm, snapshot>>
         /\ outside' = (outside \/ leads)
  /\ UNCHANGED <<alone, leads, homeLog, applied, offline, pending, excused, given, turns, trips>>

OnlineEnds ==
  /\ sync.kind = "online" /\ sync.i > Len(pending) /\ sync' = Awake
  /\ UNCHANGED <<alone, leads, homeLog, applied, sm, snapshot, offline, pending, excused, outside,
                 given, turns, trips>>

-----------------------------------------------------------------------------
\* HybridConsensusNode.reconnect.  is_offline holds to its end.

\* Step 1: home's log becomes away's, and all of it is applied there.
Reconnect ==
  /\ sync = Awake
  /\ sm' = ApplyCommitted(sm, "away", homeLog, applied.away)
  /\ applied' = [applied EXCEPT !.away = IF @ < Len(homeLog) THEN Len(homeLog) ELSE @]
  /\ sync' = [kind |-> "reconnect", step |-> "send", i |-> 1]
  /\ outside' = (outside \/ (sm.shared # {} /\ applied.away < Len(homeLog)))
  /\ UNCHANGED <<alone, leads, homeLog, snapshot, offline, pending, excused, given, turns, trips>>

\* Step 2 is SendOp.
SentAll ==
  /\ sync.kind = "reconnect" /\ sync.step = "send" /\ sync.i > Len(pending)
  /\ sync' = [sync EXCEPT !.step = "resolve", !.i = 1]
  /\ UNCHANGED <<alone, leads, homeLog, applied, sm, snapshot, offline, pending, excused, outside,
                 given, turns, trips>>

\* Variant: what away has is provided although home's is newer.
ResolvesBackwards(local, remote) ==
  /\ RunKnown(local) /\ RunKnown(remote) /\ local.version # remote.version
  /\ MergedValue(local, remote) # remote

\* Steps 3 and 4: is there a conflict that home must be told of?
Resolves(local, remote) ==
  /\ RunKnown(local) /\ RunKnown(remote) /\ local.version # remote.version
  /\ MergedValue(local, remote) # local

ResolveOp ==
  /\ OpOf("reconnect", "resolve")
  /\ sync' = [sync EXCEPT !.i = @ + 1]
  /\ LET s == pending[sync.i].cmd.slug
         l == sm.away[s] r == sm.home[s]
     IN  IF Resolves(l, r) THEN ProvideMerge(s, Merge(l, r)) ELSE UNCHANGED <<sm, snapshot>>
  /\ UNCHANGED <<alone, leads, homeLog, applied, offline, pending, excused, outside,
                 given, turns, trips>>

\* Step 5: a shallow copy of home's states, and the list is cleared.
ReconnectEnds ==
  /\ sync.kind = "reconnect" /\ sync.step = "resolve" /\ sync.i > Len(pending)
  /\ sm' = [sm EXCEPT !.away = sm.home, !.shared = {s \in Slug : RunKnown(sm.home[s])}]
  /\ pending' = <<>> /\ offline' = FALSE /\ sync' = Awake
  /\ UNCHANGED <<alone, leads, homeLog, applied, snapshot, excused, outside, given, turns, trips>>

OfflineNext ==
  \/ \E c \in Given : HomeApplies(c) \/ AwayApplies(c)
  \/ HomeWins \/ HomeStepsDown \/ HomeRestarts
  \/ GoOffline \/ GoOnline \/ SendOp \/ MergeOp \/ OnlineEnds
  \/ Reconnect \/ SentAll \/ ResolveOp \/ ReconnectEnds

OfflineSpec == OfflineInit /\ [][OfflineNext]_offlineVars

-----------------------------------------------------------------------------
\* Properties

\* Logs, states and the procedure under way keep their types.
OfflineTypeOK ==
  /\ homeLog \in Seq(Command)
  /\ \A s \in Slug : sm.home[s] \in NodeState /\ sm.away[s] \in NodeState
  /\ sm.shared \subseteq Slug
  /\ \A s \in sm.shared : sm.home[s] = sm.away[s]
  /\ \A k \in 1..Len(pending) : pending[k].cmd \in Command
  /\ sync.kind \in {"none", "online", "reconnect"} /\ sync.step \in {"none", "send", "merge", "resolve"}

\* "Reconnect: pending log -> Leader approval": an offline write is in home's log or still
\* to be sent, and never in the log twice, however go_online and reconnect are mixed and
\* home gains and loses leadership; only what a reconnect was refused, or what was written
\* while it ran, may be dropped.
OfflineWriteKeptOnce ==
  \A id \in 1..given.away :
    LET sent == {k \in 1..Len(homeLog) : homeLog[k].id = id}
        waiting == {k \in 1..Len(pending) : pending[k].cmd.id = id /\ ~pending[k].applied}
        copies == Cardinality(sent) + Cardinality(waiting)
    IN  copies <= 1 /\ (copies = 1 \/ id \in excused)

\* "State machine runs only on the leader": home's states are what its applied log says.
\* The merge of a reconnect never changes them.  The exceptions are a restart (the log is
\* applied again to the snapshot), writes to a shared object, and an election won between
\* the refusal of a go_online and its merge.
HomeFollowsLog == ~outside => sm.home = Replayed(applied.home)

\* "CRDT": two nodes that merge each other's state agree, unless the versions are equal and
\* neither state, or each of them, can be reached from the other.
MergeAgrees ==
  \A s \in Slug :
    LET l == sm.away[s] r == sm.home[s]
    IN  (l.version # r.version \/ Reaches(l.state, r.state) # Reaches(r.state, l.state))
        => MergedValue(l, r) = MergedValue(r, l)
=============================================================================
