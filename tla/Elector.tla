------------------------------- MODULE Elector -------------------------------
(***************************************************************************)
(* Leader election on a key of etcd or Consul (engine/elector.py).          *)
(*                                                                         *)
(* A node's caller campaigns and resigns, one call after the other; each    *)
(* campaign that wins starts a thread that refreshes the key.  A request    *)
(* takes effect on the store before its answer arrives, and may fail for    *)
(* its sender: then it never takes effect, has taken effect, or does so     *)
(* later.  The key has no time to live: no lease is ever created.           *)
(***************************************************************************)
EXTENDS Naturals, FiniteSets

CONSTANTS
  Elector,        \* the nodes
  NoElector,      \* the key does not exist
  MaxRefreshers,  \* bound: refresh threads of a node
  MaxFailures,    \* bound: requests that fail for their sender
  MaxCrashes      \* bound: crashes of nodes

ASSUME ElectorAssumption ==
  /\ NoElector \notin Elector
  /\ MaxRefreshers \in Nat /\ MaxFailures \in Nat /\ MaxCrashes \in Nat

VARIABLES
  backend,    \* "etcd" or "consul", the same for all nodes
  key,        \* whose node_id the key holds
  amLeader,   \* _am_leader
  refreshing, \* _running
  caller,     \* what campaign() or resign() of a node waits for
  refresher,  \* the refresh threads of a node
  late,       \* requests whose senders gave up, still to take effect
  misused,    \* some node resigned that was not leader
  failures, crashes

electorVars == <<backend, key, amLeader, refreshing, caller, refresher, late, misused,
                 failures, crashes>>

Thread == 1..MaxRefreshers
Stage == {"none", "put", "won", "lost", "check", "delete", "asleep"}

ElectorInit ==
  /\ backend \in {"etcd", "consul"} /\ key = NoElector
  /\ amLeader = [n \in Elector |-> FALSE] /\ refreshing = [n \in Elector |-> FALSE]
  /\ caller = [n \in Elector |-> "none"]
  /\ refresher = [n \in Elector |-> [i \in Thread |-> "none"]]
  /\ late = {} /\ misused = FALSE /\ failures = 0 /\ crashes = 0

-----------------------------------------------------------------------------
\* The store.  etcd gets a plain put; Consul's ?cas=0 asks that there is no key.

\* Variant: Consul's put does not compare.
PlainPut(n) == [key |-> n, answer |-> "won"]

Put(n) ==
  IF backend = "etcd" \/ key = NoElector
  THEN [key |-> n, answer |-> "won"] ELSE [key |-> key, answer |-> "lost"]

\* What a request leaves behind when its sender gives up
GivenUp(kind, n) == late' \in {late, late \cup {<<kind, n>>}}

TakesEffectLate ==
  \E r \in late :
    /\ late' = late \ {r}
    /\ key' = IF r[1] = "delete" THEN NoElector ELSE Put(r[2]).key
    /\ UNCHANGED <<backend, amLeader, refreshing, caller, refresher, misused, failures, crashes>>

-----------------------------------------------------------------------------
\* campaign() and resign()

Campaign(n) ==
  /\ caller[n] = "none" /\ ~amLeader[n] /\ \E i \in Thread : refresher[n][i] = "none"
  /\ caller' = [caller EXCEPT ![n] = "put"]
  /\ UNCHANGED <<backend, key, amLeader, refreshing, refresher, late, misused, failures, crashes>>

CampaignPut(n) ==
  /\ caller[n] = "put"
  /\ key' = Put(n).key /\ caller' = [caller EXCEPT ![n] = Put(n).answer]
  /\ UNCHANGED <<backend, amLeader, refreshing, refresher, late, misused, failures, crashes>>

\* The answer arrives: Consul's refusal leaves _am_leader alone.
CampaignAnswered(n) ==
  /\ caller[n] \in {"won", "lost"}
  /\ amLeader' = [amLeader EXCEPT ![n] = @ \/ caller[n] = "won"]
  /\ caller' = [caller EXCEPT ![n] = "check"]
  /\ UNCHANGED <<backend, key, refreshing, refresher, late, misused, failures, crashes>>

CampaignFails(n) ==
  /\ caller[n] \in {"put", "won", "lost"} /\ failures < MaxFailures
  /\ IF caller[n] = "put" THEN GivenUp("put", n) ELSE late' = late
  /\ amLeader' = [amLeader EXCEPT ![n] = FALSE]
  /\ caller' = [caller EXCEPT ![n] = "check"] /\ failures' = failures + 1
  /\ UNCHANGED <<backend, key, refreshing, refresher, misused, crashes>>

\* The end of campaign(): _start_refresh_loop
StartRefreshLoop(n) ==
  /\ caller[n] = "check" /\ caller' = [caller EXCEPT ![n] = "none"]
  /\ IF amLeader[n]
     THEN /\ refreshing' = [refreshing EXCEPT ![n] = TRUE]
          /\ LET i == CHOOSE j \in Thread : refresher[n][j] = "none"
             IN  refresher' = [refresher EXCEPT ![n][i] = "check"]
     ELSE UNCHANGED <<refreshing, refresher>>
  /\ UNCHANGED <<backend, key, amLeader, late, misused, failures, crashes>>

\* etcd's lease is not known, so nothing is sent to it.
Resign(n) ==
  /\ caller[n] = "none"
  /\ amLeader' = [amLeader EXCEPT ![n] = FALSE]
  /\ refreshing' = [refreshing EXCEPT ![n] = FALSE]
  /\ caller' = [caller EXCEPT ![n] = IF backend = "consul" THEN "delete" ELSE "none"]
  /\ misused' = (misused \/ ~amLeader[n])
  /\ UNCHANGED <<backend, key, refresher, late, failures, crashes>>

ResignDelete(n) ==
  /\ caller[n] = "delete"
  /\ key' = NoElector /\ caller' = [caller EXCEPT ![n] = "none"]
  /\ UNCHANGED <<backend, amLeader, refreshing, refresher, late, misused, failures, crashes>>

ResignFails(n) ==
  /\ caller[n] = "delete" /\ failures < MaxFailures
  /\ GivenUp("delete", n)
  /\ caller' = [caller EXCEPT ![n] = "none"] /\ failures' = failures + 1
  /\ UNCHANGED <<backend, key, amLeader, refreshing, refresher, misused, crashes>>

-----------------------------------------------------------------------------
\* A refresh thread

RefresherAt(n, i, stage) == refresher' = [refresher EXCEPT ![n][i] = stage]

\* The loop's test; refreshing etcd without a lease sends nothing.
RefreshChecks(n, i) ==
  /\ refresher[n][i] \in {"check", "asleep"}
  /\ RefresherAt(n, i, IF ~refreshing[n] \/ ~amLeader[n] THEN "none"
               ELSE IF backend = "etcd" THEN "asleep" ELSE "put")
  /\ UNCHANGED <<backend, key, amLeader, refreshing, caller, late, misused, failures, crashes>>

RefreshPut(n, i) ==
  /\ refresher[n][i] = "put"
  /\ key' = Put(n).key /\ RefresherAt(n, i, Put(n).answer)
  /\ UNCHANGED <<backend, amLeader, refreshing, caller, late, misused, failures, crashes>>

RefreshAnswered(n, i) ==
  /\ refresher[n][i] \in {"won", "lost"}
  /\ amLeader' = [amLeader EXCEPT ![n] = @ \/ refresher[n][i] = "won"]
  /\ RefresherAt(n, i, "asleep")
  /\ UNCHANGED <<backend, key, refreshing, caller, late, misused, failures, crashes>>

RefreshFails(n, i) ==
  /\ refresher[n][i] \in {"put", "won", "lost"} /\ failures < MaxFailures
  /\ IF refresher[n][i] = "put" THEN GivenUp("put", n) ELSE late' = late
  /\ amLeader' = [amLeader EXCEPT ![n] = FALSE]
  /\ RefresherAt(n, i, "asleep") /\ failures' = failures + 1
  /\ UNCHANGED <<backend, key, refreshing, caller, misused, crashes>>

\* The process dies; what it had sent may still arrive.
ElectorCrash(n) ==
  /\ crashes < MaxCrashes /\ crashes' = crashes + 1
  /\ amLeader' = [amLeader EXCEPT ![n] = FALSE] /\ refreshing' = [refreshing EXCEPT ![n] = FALSE]
  /\ caller' = [caller EXCEPT ![n] = "none"]
  /\ refresher' = [refresher EXCEPT ![n] = [i \in Thread |-> "none"]]
  /\ \E sent \in SUBSET ({<<caller[n], n>>} \cup {<<refresher[n][i], n>> : i \in Thread}) :
       late' = late \cup {r \in sent : r[1] \in {"put", "delete"}}
  /\ UNCHANGED <<backend, key, misused, failures>>

RefreshStep(n, i) ==
  RefreshChecks(n, i) \/ RefreshPut(n, i) \/ RefreshAnswered(n, i) \/ RefreshFails(n, i)

ElectorNext ==
  \/ TakesEffectLate
  \/ \E n \in Elector :
       \/ Campaign(n) \/ CampaignPut(n) \/ CampaignAnswered(n) \/ CampaignFails(n)
       \/ StartRefreshLoop(n) \/ Resign(n) \/ ResignDelete(n) \/ ResignFails(n)
       \/ ElectorCrash(n) \/ \E i \in Thread : RefreshStep(n, i)

ElectorSpec == ElectorInit /\ [][ElectorNext]_electorVars

-----------------------------------------------------------------------------
\* Properties

\* Keys, flags and threads keep their types.
ElectorTypeOK ==
  /\ key \in Elector \cup {NoElector}
  /\ amLeader \in [Elector -> BOOLEAN] /\ refreshing \in [Elector -> BOOLEAN]
  /\ caller \in [Elector -> Stage] /\ refresher \in [Elector -> [Thread -> Stage]]
  /\ late \subseteq {"put", "delete"} \X Elector

\* "Only one node succeeds (the leader)": on Consul, as long as nobody resigns who is not
\* leader, a node that thinks it leads is the one the key names, whatever requests fail,
\* arrive late or cross a resignation, and whoever crashes.
ConsulLeaderHoldsKey ==
  backend = "consul" /\ ~misused => \A n \in Elector : amLeader[n] => key = n
=============================================================================
