------------------------------- MODULE Spending -------------------------------
(***************************************************************************)
(* The budget controller of the agent grid                                  *)
(* (agent_runtime/budget_controller.py).                                    *)
(*                                                                         *)
(* Threads record costs, and the thread of the HTTP server resets.  Only    *)
(* the lists of costs are changed under the lock: the level is computed     *)
(* and written after it is given back.  Weekly and monthly sums are         *)
(* computed and not used.  No callback is registered in the engine.         *)
(***************************************************************************)
EXTENDS Naturals, FiniteSets

CONSTANTS
  Recorder,    \* threads that record costs
  CostTask,    \* ids of tasks
  HourLimit, DayLimit, TaskLimit,  \* thresholds, in units of a cost
  SoftHour, SoftDay, WarnHour,     \* soft_ratio, and half of it, of the first two
  MaxCosts     \* bound: costs recorded

ASSUME SpendingAssumption ==
  /\ HourLimit \in Nat \ {0} /\ DayLimit \in Nat \ {0} /\ TaskLimit \in Nat \ {0}
  /\ WarnHour \in 0..SoftHour /\ SoftHour \in 0..HourLimit /\ SoftDay \in 0..DayLimit
  /\ MaxCosts \in Nat

VARIABLES
  hour, day,   \* the recorded costs of the last hour and day
  ofTask,      \* _task_costs
  level, budgetPaused,
  evaluating,  \* what a thread in _evaluate_level has decided
  crossed,     \* an evaluation overlapped another or a reset, and none has followed alone
  costs        \* calls of record_cost since the start

spendingVars == <<hour, day, ofTask, level, budgetPaused, evaluating, crossed, costs>>

Level == {"normal", "warning", "critical", "exhausted"}
Evaluation == {"none", "recorded"} \cup Level

SpendingInit ==
  /\ hour = 0 /\ day = 0 /\ ofTask = [t \in CostTask |-> 0]
  /\ level = "normal" /\ budgetPaused = FALSE
  /\ evaluating = [r \in Recorder |-> "none"] /\ crossed = FALSE /\ costs = 0

NobodyEvaluates == \A r \in Recorder : evaluating[r] = "none"

OverHard == hour >= HourLimit \/ day >= DayLimit \/ \E t \in CostTask : ofTask[t] >= TaskLimit

-----------------------------------------------------------------------------
\* record_cost, as far as the lock goes
RecordCost(r, t, cost) ==
  /\ evaluating[r] = "none" /\ costs < MaxCosts
  /\ hour' = hour + cost /\ day' = day + cost
  /\ ofTask' = [ofTask EXCEPT ![t] = @ + cost]
  /\ evaluating' = [evaluating EXCEPT ![r] = "recorded"]
  /\ crossed' = ~NobodyEvaluates /\ costs' = costs + 1
  /\ UNCHANGED <<level, budgetPaused>>

\* Variant: only what goes beyond a hard limit exhausts the budget.
DecidedBeyond ==
  IF hour > HourLimit \/ day > DayLimit \/ \E t \in CostTask : ofTask[t] > TaskLimit
  THEN "exhausted" ELSE "critical"

\* The windows are summed up, and compared.
Decided ==
  CASE OverHard -> "exhausted"
    [] ~OverHard /\ (hour >= SoftHour \/ day >= SoftDay) -> "critical"
    [] ~OverHard /\ hour < SoftHour /\ day < SoftDay /\ hour >= WarnHour -> "warning"
    [] OTHER -> "normal"

Decide(r) ==
  /\ evaluating[r] = "recorded"
  /\ evaluating' = [evaluating EXCEPT ![r] = Decided]
  /\ UNCHANGED <<hour, day, ofTask, level, budgetPaused, crossed, costs>>

\* Only a normal level takes the pause back.
PausedAfter(l) == l = "exhausted" \/ (l # "normal" /\ budgetPaused)

EvaluateLevel(r) ==
  /\ evaluating[r] \in Level
  /\ level' = evaluating[r] /\ budgetPaused' = PausedAfter(evaluating[r])
  /\ evaluating' = [evaluating EXCEPT ![r] = "none"]
  /\ UNCHANGED <<hour, day, ofTask, crossed, costs>>

\* Costs leave the windows; what a task has cost does not age.
TimePasses ==
  /\ \E h \in 0..hour, d \in 0..day :
       /\ h <= d /\ <<h, d>> # <<hour, day>> /\ hour' = h /\ day' = d
  /\ UNCHANGED <<ofTask, level, budgetPaused, evaluating, crossed, costs>>

\* reset, on request of POST /api/v1/human/budget/reset
ResetBudget ==
  /\ hour' = 0 /\ day' = 0 /\ ofTask' = [t \in CostTask |-> 0]
  /\ level' = "normal" /\ budgetPaused' = FALSE
  /\ crossed' = ~NobodyEvaluates
  /\ UNCHANGED <<evaluating, costs>>

SpendingNext ==
  \/ \E r \in Recorder : \/ \E t \in CostTask, cost \in {1, 2} : RecordCost(r, t, cost)
                         \/ Decide(r) \/ EvaluateLevel(r)
  \/ TimePasses \/ ResetBudget

SpendingSpec == SpendingInit /\ [][SpendingNext]_spendingVars

-----------------------------------------------------------------------------
\* Properties

\* Sums, level and evaluations keep their types, and an hour is part of a day.
SpendingTypeOK ==
  /\ hour \in 0..day /\ day \in 0..(2 * MaxCosts) /\ ofTask \in [CostTask -> 0..(2 * MaxCosts)]
  /\ level \in Level /\ budgetPaused \in BOOLEAN
  /\ evaluating \in [Recorder -> Evaluation]

\* "enforces thresholds with ... hard (pause) gates": once nobody evaluates, costs that
\* reach a hard limit have paused the agents.  An evaluation that overlapped another, or
\* a reset, may miss it; the next evaluation that runs alone puts it right.
OverspendPauses == NobodyEvaluates /\ ~crossed /\ OverHard => budgetPaused
=============================================================================
