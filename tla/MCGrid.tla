------------------------------- MODULE MCGrid -------------------------------
(* The grid around the task queue and the agreement between its nodes, one    *)
(* part at a time since they share no state: a coordinator under load, its    *)
(* queue under failing writes, with one task, the approval gate, the budget   *)
(* of the grid, the election on an external key (two refresh threads a node,  *)
(* or one and failures), and a node that works offline.                       *)
EXTENDS Coordinator, Oversight, Spending, Elector, Offline

\* The whole grid, for the theorems; the instance for TLC has one part run at a time.
GridSpec == CSpec /\ OversightSpec /\ SpendingSpec /\ ElectorSpec /\ OfflineSpec

\* Coordinator, gate, budget, election and offline node keep the types of their state.
GridTypeOK == CTypeOK /\ OversightTypeOK /\ SpendingTypeOK /\ ElectorTypeOK /\ OfflineTypeOK

\* Agents stop when they should: neither stale load figures nor crashed workers, which count
\* as free, give a node more to run than its workers, no pause is lost between sweep and
\* answer, and overspending pauses.
AgentsHeld == GridTypeOK /\ WithinCapacity /\ PauseNotLost /\ OverspendPauses

\* Nodes agree through failures: who leads by the key, what was written offline and
\* arrives at the leader once, and what a merge gives on either side.
AgreementKept ==
  ConsulLeaderHoldsKey /\ OfflineWriteKeptOnce /\ HomeFollowsLog /\ MergeAgrees

-----------------------------------------------------------------------------
CONSTANTS t1, t2, n2, tagA

VARIABLE part    \* the one that runs

\* t2 asks for the capability of n2.
MCPriority == [t \in Task |-> IF t = t1 THEN 1 ELSE 0]
MCAffinity == [t \in Task |-> IF t = t2 THEN tagA ELSE NoTag]
MCPrimaryCap == [n \in Node |-> tagA]

MCTransitions == {<<"draft", "review">>}
MCGiven ==
  [type : {"transition"}, slug : Slug, to : {"review"}, id : {0}]
    \union [type : {"create", "archive"}, slug : Slug, to : {"draft"}, id : {0}]

Faulty == INSTANCE TaskQueue WITH MaxFaults <- 2

\* Two refresh threads a node and no failures, or failures and one thread that runs.
FewFailures ==
  IF part = "failing" THEN \A n \in Elector : refresher'[n][2] = "none"
  ELSE failures' = 0 /\ crashes' = 0

OnePartInit ==
  /\ part \in {"load", "queue", "gate", "budget", "elector", "failing", "offline"}
  /\ CInit /\ OversightInit /\ SpendingInit /\ ElectorInit /\ OfflineInit
  /\ part \notin {"elector", "failing"} => backend = "etcd"
  /\ part # "offline" => alone

Rests(p, state) == IF part \in p THEN TRUE ELSE UNCHANGED state

OnePartNext ==
  /\ UNCHANGED part
  /\ Rests({"load", "queue"}, vars) /\ Rests({"gate"}, oversightVars) /\ Rests({"budget"}, spendingVars)
  /\ Rests({"elector", "failing"}, electorVars) /\ Rests({"offline"}, offlineVars)
  /\ \/ /\ part = "load" /\ CNext
        /\ worker'[n2][t2] # "crashed" /\ task'[t2].status # "CANCELLED"
     \/ /\ part = "queue" /\ Faulty!Next
        /\ used' \subseteq {t1} /\ UNCHANGED <<ctl, active, nodes, env>>
     \/ part = "gate" /\ OversightNext
     \/ part = "budget" /\ SpendingNext
     \/ part \in {"elector", "failing"} /\ ElectorNext /\ FewFailures
     \/ part = "offline" /\ OfflineNext

OnePartSpec ==
  OnePartInit /\ [][OnePartNext]_<<part, vars, oversightVars, spendingVars, electorVars, offlineVars>>
=============================================================================
