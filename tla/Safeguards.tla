----------------------------- MODULE Safeguards -----------------------------
(***************************************************************************)
(* What guards the engine while it runs: the costs it records               *)
(* (engine/cost.py), the budget that limits them (engine/budget.py), the    *)
(* levels of service (engine/degradation.py), the event bus between         *)
(* profiles with its protection against cycles and the invariants checked   *)
(* at run time (engine/safety.py), and the health check that reads them all *)
(* (engine/runtime.py).  They share one event loop.                         *)
(*                                                                         *)
(* Sums of money are counted in units; a validator's sampling rate 2^-k is  *)
(* the number k of its halvings, which max(rate, 0.1) stops at 4.           *)
(***************************************************************************)
EXTENDS Naturals, FiniteSets, Bags

CONSTANTS
  BusType,        \* types of events on the bus
  Trace,          \* trace ids
  Subscriber,     \* handlers, each of which is subscribed at most once to a type
  ReEmits,        \* the types a handler emits when it gets an event
  MaxHops,        \* MAX_HOPS
  Checked,        \* validators
  Watched,        \* invariants whose violations somebody resolves
  SoftLimit, HardLimit, \* the limits of "total_cost", "llm_calls" and "storage"
  DefaultCalls,   \* the soft limit of calls where none is configured
  LlmFailures,    \* threshold "consecutive_llm_failures"
  MaxEmits,       \* bound: events from outside
  MaxUse,         \* bound: what is recorded of each kind
  MaxOverrides    \* bound: manual changes of the level, resets and new configurations

Limit == {"total_cost", "llm_calls", "storage"}
MaxHalvings == 4

ASSUME SafeguardsAssumption ==
  /\ ReEmits \in [Subscriber -> SUBSET BusType]
  /\ SoftLimit \in [Limit -> Nat] /\ HardLimit \in [Limit -> Nat]
  /\ DefaultCalls \in Nat
  /\ MaxHops \in Nat \ {0} /\ LlmFailures \in Nat
  /\ MaxEmits \in Nat /\ MaxUse \in Nat /\ MaxOverrides \in Nat

VARIABLES
  subscribers,  \* subscribers of the bus
  seenTraces,   \* _seen_traces
  hasCycles,    \* cycle_warnings is not empty
  handlers,     \* the tasks that call a subscriber, as a bag
  used,         \* what the cost tracker has recorded
  limits,       \* budget limits with what they last saw; no limit is configured: {}
  warned,       \* warnings_sent
  halvings,     \* validator_sampling
  level,        \* current_level
  diskFull,     \* the disk is used above its threshold
  violated,     \* names of the invariants with an unresolved violation
  emits, overrides

busVars == <<subscribers, seenTraces, hasCycles, handlers, emits>>
budgetVars == <<used, limits, warned, halvings>>
guardVars == <<busVars, budgetVars, level, diskFull, violated, overrides>>

Configured == [l \in Limit |-> 0]

SafeguardsInit ==
  /\ subscribers = [b \in BusType |-> {}] /\ seenTraces = {} /\ hasCycles = FALSE
  /\ handlers = EmptyBag /\ emits = 0
  /\ used = [l \in Limit |-> 0] /\ limits = Configured /\ warned = {}
  /\ halvings = [v \in Checked |-> 0]
  /\ level = "full" /\ diskFull = FALSE /\ violated = {} /\ overrides = 0

-----------------------------------------------------------------------------
\* EventBus

Subscribe(b, h) ==
  /\ h \notin subscribers[b]
  /\ subscribers' = [subscribers EXCEPT ![b] = @ \cup {h}]
  /\ UNCHANGED <<seenTraces, hasCycles, handlers, emits, budgetVars, level, diskFull, violated,
                 overrides>>

Unsubscribe(b, h) ==
  /\ h \in subscribers[b]
  /\ subscribers' = [subscribers EXCEPT ![b] = @ \ {h}]
  /\ UNCHANGED <<seenTraces, hasCycles, handlers, emits, budgetVars, level, diskFull, violated,
                 overrides>>

\* Variant: the hop count is not checked.
EmitsAnyHop(bus, e) ==
  IF <<e.trace, e.type>> \in bus.seen
  THEN [bus EXCEPT !.cycles = TRUE]
  ELSE [bus EXCEPT !.seen = @ \cup {<<e.trace, e.type>>},
                   !.tasks = @ (+) SetToBag({[handler |-> h, event |-> e] : h \in subscribers[e.type]})]

\* emit: what the bus becomes
Emitted(bus, e) ==
  IF e.hop >= MaxHops \/ <<e.trace, e.type>> \in bus.seen
  THEN [bus EXCEPT !.cycles = TRUE]
  ELSE [bus EXCEPT !.seen = @ \cup {<<e.trace, e.type>>},
                   !.tasks = @ (+) SetToBag({[handler |-> h, event |-> e] : h \in subscribers[e.type]})]

BusNow == [seen |-> seenTraces, cycles |-> hasCycles, tasks |-> handlers]
BusBecomes(bus) == seenTraces' = bus.seen /\ hasCycles' = bus.cycles /\ handlers' = bus.tasks

Emit(t, b) ==
  /\ emits < MaxEmits /\ emits' = emits + 1
  /\ BusBecomes(Emitted(BusNow, [trace |-> t, type |-> b, hop |-> 0]))
  /\ UNCHANGED <<subscribers, budgetVars, level, diskFull, violated, overrides>>

\* _safe_call: the handler passes the event on, one hop further (counted up to MaxHops),
\* or raises first.
SafeCall(k) ==
  /\ BagIn(k, handlers)
  /\ LET left == [BusNow EXCEPT !.tasks = @ (-) SetToBag({k})]
     IN  \/ BusBecomes([left EXCEPT !.cycles = TRUE])
         \/ /\ ReEmits[k.handler] = {}
            /\ BusBecomes(left)
         \/ \E b \in ReEmits[k.handler] :
              BusBecomes(Emitted(left, [trace |-> k.event.trace, type |-> b,
                                        hop |-> IF k.event.hop < MaxHops THEN k.event.hop + 1
                                                ELSE MaxHops]))
  /\ UNCHANGED <<subscribers, emits, budgetVars, level, diskFull, violated, overrides>>

-----------------------------------------------------------------------------
\* CostTracker: record_llm; record_compute and record_network; record_storage

RecordLlm(cost) ==
  /\ used["llm_calls"] < MaxUse /\ used["total_cost"] + cost <= MaxUse
  /\ used' = [used EXCEPT !["llm_calls"] = @ + 1, !["total_cost"] = @ + cost]
  /\ UNCHANGED <<busVars, limits, warned, halvings, level, diskFull, violated, overrides>>

RecordCompute ==
  /\ used["total_cost"] < MaxUse
  /\ used' = [used EXCEPT !["total_cost"] = @ + 1]
  /\ UNCHANGED <<busVars, limits, warned, halvings, level, diskFull, violated, overrides>>

RecordStorage ==
  /\ used["storage"] < MaxUse
  /\ used' = [used EXCEPT !["storage"] = @ + 1]
  /\ UNCHANGED <<busVars, limits, warned, halvings, level, diskFull, violated, overrides>>

-----------------------------------------------------------------------------
\* BudgetEnforcer

Exceeded(l, bound) == l \in DOMAIN limits /\ limits[l] >= bound[l]

\* status() looks at the tracker; nothing else does.
UpdateFromTracker ==
  /\ limits' = [l \in DOMAIN limits |-> used[l]]
  /\ UNCHANGED <<busVars, used, warned, halvings, level, diskFull, violated, overrides>>

SoftCalls == IF "llm_calls" \in DOMAIN limits THEN SoftLimit["llm_calls"] ELSE DefaultCalls

\* check_validator
BudgetAction(tier) ==
  IF \E l \in Limit : Exceeded(l, HardLimit) THEN "stop"
  ELSE IF \E l \in Limit : Exceeded(l, SoftLimit) THEN "warn"
  ELSE IF used["llm_calls"] > SoftCalls /\ tier > 1 THEN "slow" ELSE "proceed"

\* check_validator, then apply_action with its answer
CheckValidator(v, tier) ==
  /\ warned' = warned \cup {l \in Limit : Exceeded(l, SoftLimit) /\ ~Exceeded(l, HardLimit)}
  /\ halvings' = [halvings EXCEPT ![v] =
                    IF BudgetAction(tier) = "slow" /\ @ < MaxHalvings THEN @ + 1 ELSE @]
  /\ level' = IF BudgetAction(tier) = "stop" THEN "survival" ELSE level
  /\ UNCHANGED <<busVars, used, limits, diskFull, violated, overrides>>

\* reset() for a new run leaves no limit, configure() makes new ones
BudgetReset ==
  /\ overrides < MaxOverrides /\ overrides' = overrides + 1
  /\ limits' \in {<<>>, Configured} /\ warned' = {}
  /\ halvings' = [v \in Checked |-> 0]
  /\ UNCHANGED <<busVars, used, level, diskFull, violated>>

-----------------------------------------------------------------------------
\* DegradationManager

\* The names of the health checks that fail; "consecutive failures" are all calls.
FailedChecks ==
  {c \in {"disk_usage", "llm_api", "budget"} :
     \/ c = "disk_usage" /\ diskFull
     \/ c = "llm_api" /\ used["llm_calls"] >= LlmFailures
     \/ c = "budget" /\ Exceeded("total_cost", HardLimit)}

\* Variant: a check without a metric is not critical.
EvaluatesMetrics(l) ==
  CASE l = "full" /\ FailedChecks \ {"budget"} # {} -> "degraded"
    [] l = "degraded" /\ FailedChecks \cap {"disk_usage", "budget"} # {} -> "survival"
    [] l = "degraded" /\ FailedChecks = {} -> "full"
    [] OTHER -> l

\* evaluate: metric and threshold of the budget check are both 0, so it is critical.
Evaluated(l) ==
  CASE l = "full" /\ FailedChecks # {} -> "degraded"
    [] l = "degraded" /\ FailedChecks \cap {"disk_usage", "budget"} # {} -> "survival"
    [] l = "degraded" /\ FailedChecks = {} -> "full"
    [] OTHER -> l

ManualLevel(l) ==
  /\ overrides < MaxOverrides /\ overrides' = overrides + 1
  /\ level' = l
  /\ UNCHANGED <<busVars, budgetVars, diskFull, violated>>

DiskChanges ==
  /\ overrides < MaxOverrides /\ overrides' = overrides + 1
  /\ diskFull' = ~diskFull
  /\ UNCHANGED <<busVars, budgetVars, level, violated>>

-----------------------------------------------------------------------------
\* RuntimeSafetyMonitor

\* The invariants whose check cannot be called: only bus and degradation are given.
Uncallable == {"state_exists", "valid_transition", "no_state_leak", "monotonic_progress",
               "budget_respected", "event_count_reasonable", "no_orphan_events",
               "cache_fresh", "drift_not_exploding"}

\* A round of _health_checker: evaluate, then check_all; a cycle resets the traces.
HealthCheck ==
  /\ level' = Evaluated(level)
  /\ violated' = violated \cup Uncallable
                 \cup (IF hasCycles THEN {"cross_profile_no_cycle"} ELSE {})
  /\ seenTraces' = IF hasCycles THEN {} ELSE seenTraces
  /\ UNCHANGED <<subscribers, hasCycles, handlers, emits, budgetVars, diskFull, overrides>>

ResolveViolation(name) ==
  /\ name \in violated /\ overrides < MaxOverrides /\ overrides' = overrides + 1
  /\ violated' = violated \ {name}
  /\ UNCHANGED <<busVars, budgetVars, level, diskFull>>

\* A handler that is due is called; what a handler does is to pass events on.
SomeCall == \E k \in BagToSet(handlers) : SafeCall(k)

BusNext ==
  \/ \E b \in BusType, h \in Subscriber : Subscribe(b, h) \/ Unsubscribe(b, h)
  \/ \E t \in Trace, b \in BusType : Emit(t, b)
  \/ SomeCall
  \/ \E name \in Watched : ResolveViolation(name)

BudgetNext ==
  \/ \E c \in {0, 1} : RecordLlm(c)
  \/ RecordCompute \/ RecordStorage \/ UpdateFromTracker \/ BudgetReset
  \/ \E v \in Checked, tier \in 1..2 : CheckValidator(v, tier)
  \/ \E l \in {"full", "degraded", "survival"} : ManualLevel(l)
  \/ DiskChanges

SafeguardsNext == BusNext \/ BudgetNext \/ HealthCheck

\* The event loop runs the handlers, and the health checker its rounds.
SafeguardsFairness == WF_guardVars(SomeCall) /\ WF_guardVars(HealthCheck)

SafeguardsSpec == SafeguardsInit /\ [][SafeguardsNext]_guardVars /\ SafeguardsFairness

-----------------------------------------------------------------------------
\* Properties

\* The parts keep their types.
SafeguardsTypeOK ==
  /\ subscribers \in [BusType -> SUBSET Subscriber]
  /\ IsABag(handlers) /\ \A k \in BagToSet(handlers) : k.event.hop \in 0..MaxHops
  /\ DOMAIN limits \in {{}, Limit} /\ warned \subseteq Limit
  /\ level \in {"full", "degraded", "survival"}

\* "Hop count: max 5 hops, then it is stopped": once nothing new is emitted from outside,
\* the bus comes to rest, although every health check after a warning forgets the
\* duplicates that were seen and subscribers pass events on in a circle.
BusDrains == <>[](handlers = EmptyBag)

\* "Hard limit -> STOP + Degrade to SURVIVAL": a hard limit of the cost that the budget has
\* seen ends in survival by the health checks alone, although a full service has to be
\* degraded first, unless somebody sets the level or resets the budget.
HardLimitEnds ==
  Exceeded("total_cost", HardLimit) ~> (level = "survival" \/ overrides = MaxOverrides)
=============================================================================
