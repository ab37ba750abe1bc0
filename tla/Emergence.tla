------------------------------ MODULE Emergence -------------------------------
(***************************************************************************)
(* How a rejected draft becomes a skill: the engine counts the rejections  *)
(* of a run and plans a remediation (src/engine/runtime.py, autofix.py),   *)
(* records a drift event for each plan (aidetect.py), and the warm agent's *)
(* periodic check turns a recurring drift into a skill file that is        *)
(* promoted after enough successful fixes (skillforge.py).                 *)
(***************************************************************************)
EXTENDS Naturals, FiniteSets, Sequences, SequencesExt, Integers

CONSTANTS
  Draft,          \* runs under review
  MaxHistory,     \* max_history of the collector
  Promotion,      \* PROMOTION_THRESHOLD
  MaxRejections,  \* bound: rejections of one run
  MaxFixes,       \* bound: fixes recorded
  MaxReboots      \* bound: restarts of the engine

ASSUME EmergenceAssumption ==
  /\ {MaxHistory, Promotion} \subseteq Nat \ {0}
  /\ {MaxRejections, MaxFixes, MaxReboots} \subseteq Nat

\* rejection_count + 1 >= 3; min_occurrences; is_ready and min_confidence.
RejectionLimit == 3
MinOccurrences == 3
SkillReady == 650000

VARIABLES
  rejected,   \* [Draft -> Nat]: rejection_count, in the snapshot on disk
  drifts,     \* self._events: the runs of the drift events, oldest first
  byRun,      \* [Draft -> Nat]: length of each list of _index_by_run
  skill,      \* the skill file: "none", "T3" or "T2"
  fixes,      \* success_count of the skill's SkillFixStats
  earned,     \* successes recorded since the file was written (ghost)
  fixed,      \* fixes recorded in all (bound)
  reboots

emergenceVars == <<rejected, drifts, byRun, skill, fixes, earned, fixed, reboots>>

-----------------------------------------------------------------------------
\* DriftPatternCollector.record with its eviction: the indices are cleaned of
\* the evicted event.
Recorded(d) == Append(drifts, d)

Overflows(d) == Len(Recorded(d)) > MaxHistory

\* Variant: the event that was just recorded is taken for the evicted one.
ReindexedRun(d) ==
  LET added == [byRun EXCEPT ![d] = @ + 1] IN
  IF Overflows(d) THEN [added EXCEPT ![d] = @ - 1] ELSE added

Reindexed(d) ==
  LET added == [byRun EXCEPT ![d] = @ + 1] IN
  IF Overflows(d) THEN [added EXCEPT ![Head(Recorded(d))] = @ - 1] ELSE added

RecordDrift(d) ==
  /\ drifts' = IF Overflows(d) THEN Tail(Recorded(d)) ELSE Recorded(d)
  /\ byRun' = Reindexed(d)

\* Variant: every rejection is planned for.
AlwaysPlanned(n) == TRUE

\* draft_review -> drafting, then _check_auto_remediation: the third rejection
\* of a run and every one after it is planned for and recorded as a drift (the
\* message always matches the pattern for repeated rejections, and drift_count
\* of the RuntimeState built on the spot is 0).
Planned(n) == n >= RejectionLimit

Reject(d) ==
  /\ rejected[d] < MaxRejections
  /\ rejected' = [rejected EXCEPT ![d] = @ + 1]
  /\ IF Planned(rejected[d] + 1) THEN RecordDrift(d) ELSE UNCHANGED <<drifts, byRun>>
  /\ UNCHANGED <<skill, fixes, earned, fixed, reboots>>

\* _calculate_confidence in millionths; all events have one severity, so the
\* trend is stable.
Least(a, b) == IF a < b THEN a ELSE b

Confidence(n, u) ==
  (350000 * Least(n, 8)) \div 8 + 50000 * Least(u, 4)
    + (250000 * Least(n, 3 * u)) \div (3 * u) + 200000

Candidate ==
  LET n == Len(drifts)  u == Cardinality(ToSet(drifts)) IN
  n >= MinOccurrences /\ Confidence(n, u) >= SkillReady

\* Variant: the statistics survive a new draft.
StatsKept == fixes

SavedStats == 0

\* check_emergence: the draft is saved over whatever is there, at tier T3 and
\* with fresh statistics.
CheckEmergence ==
  /\ Candidate
  /\ skill' = "T3" /\ fixes' = SavedStats /\ earned' = 0
  /\ UNCHANGED <<rejected, drifts, byRun, fixed, reboots>>

\* record_fix_result: statistics are made for an unknown skill too, and a
\* promotion rewrites the file only if it exists.
RecordFix(success) ==
  /\ fixed < MaxFixes
  /\ fixed' = fixed + 1
  /\ LET n == IF success THEN fixes + 1 ELSE fixes IN
     /\ fixes' = n
     /\ earned' = IF success /\ skill # "none" THEN earned + 1 ELSE earned
     /\ skill' = IF n >= Promotion /\ skill # "none" THEN "T2" ELSE skill
  /\ UNCHANGED <<rejected, drifts, byRun, reboots>>

\* The engine restarts: events and statistics were in memory.
Reboot ==
  /\ reboots < MaxReboots
  /\ reboots' = reboots + 1
  /\ drifts' = <<>> /\ byRun' = [d \in Draft |-> 0] /\ fixes' = 0
  /\ UNCHANGED <<rejected, skill, earned, fixed>>

-----------------------------------------------------------------------------
EmergenceInit ==
  /\ rejected = [d \in Draft |-> 0] /\ drifts = <<>> /\ byRun = [d \in Draft |-> 0]
  /\ skill = "none" /\ fixes = 0 /\ earned = 0 /\ fixed = 0 /\ reboots = 0

EmergenceNext ==
  \/ \E d \in Draft : Reject(d)
  \/ CheckEmergence
  \/ \E success \in BOOLEAN : RecordFix(success)
  \/ Reboot

-----------------------------------------------------------------------------
\* Histories, indices and the skill keep their types.
EmergenceTypeOK ==
  /\ rejected \in [Draft -> 0..MaxRejections]
  /\ drifts \in Seq(Draft) /\ Len(drifts) <= MaxHistory
  /\ byRun \in [Draft -> Nat]
  /\ skill \in {"none", "T3", "T2"}
  /\ {fixes, earned, fixed} \subseteq 0..MaxFixes /\ reboots \in 0..MaxReboots

\* The list kept for a run has exactly the events of that run that are still
\* in the history (record evicts from the history and from two indices, and
\* finds the evicted event at the head of each).
IndexAgrees ==
  \A d \in Draft : byRun[d] = Cardinality({i \in DOMAIN drifts : drifts[i] = d})

\* A skill is written only for something that went wrong again and again: at
\* least three rejections, over all runs, came after the second of their run
\* (runtime counts rejections, the detector counts events and weighs them).
SkillNeedsRejections ==
  skill # "none" =>
    Cardinality({e \in Draft \X (RejectionLimit..MaxRejections) : e[2] <= rejected[e[1]]})
      >= MinOccurrences

\* A skill at tier T2 has had PROMOTION_THRESHOLD successful fixes since its file
\* was written, through rewrites of the file and restarts that forget the
\* statistics (save_skill, record_fix_result, _promote_skill).
PromotionEarned == skill = "T2" => earned >= Promotion

-----------------------------------------------------------------------------
(* Automatic remediation (engine/autofix.py): an error message is matched to  *)
(* a signature, the signature gives a plan, and a plan is executed unless its *)
(* signature is in its cooldown. An execution awaits its actions and pauses   *)
(* between them, so that executions for one signature overlap; the cooldown   *)
(* is looked at when an execution begins and set when it ends. Time is        *)
(* counted in minutes.                                                        *)

CONSTANTS
  ErrorText,     \* the messages: the patterns a message spells out
  MaxPlans,      \* bound: the plans made
  Handled,       \* the types of action that were given a handler
  MaxMinutes     \* bound: the clock
ASSUME RemediationAssumption == MaxMinutes \in Nat /\ MaxPlans \in Nat

VARIABLES
  minute,      \* the clock
  cooldown,    \* _cooldowns: until when a signature rests (0: never set)
  attempt      \* each plan and what became of its execution (the counts that
               \* only the statistics show, _history and _results, are left out)

Attempt == 1..MaxPlans       \* the plans, in the order they are made
remediationVars == <<minute, cooldown, attempt>>

SignatureOf(class, patterns) == [class |-> class, patterns |-> patterns]

\* create_default_patterns, in its order
Names == <<"connection_timeout", "rate_limit", "state_invalid", "state_machine_stuck",
  "memory_pressure", "disk_full", "validation_failed", "dependency_down", "config_error",
  "hitl_user_timeout", "hitl_repeated_rejection", "hitl_drift_escalation", "hitl_chain_loop">>
DefaultPatterns == [
  connection_timeout |-> SignatureOf("transient",
    {"timeout", "connection refused", "connection reset", "network unreachable"}),
  rate_limit |-> SignatureOf("transient", {"rate limit", "too many requests", "429", "throttled"}),
  state_invalid |-> SignatureOf("state",
    {"invalid state", "state not found", "transition not allowed", "illegal state"}),
  state_machine_stuck |-> SignatureOf("state",
    {"stuck in loop", "max iterations", "infinite loop", "timeout in state"}),
  memory_pressure |-> SignatureOf("resource",
    {"out of memory", "memory error", "cannot allocate", "oom"}),
  disk_full |-> SignatureOf("resource", {"disk full", "no space left", "disk quota", "write failed"}),
  validation_failed |-> SignatureOf("validation",
    {"validation failed", "invalid format", "schema error", "validation error"}),
  dependency_down |-> SignatureOf("dependency",
    {"service unavailable", "503", "dependency failed", "upstream"}),
  config_error |-> SignatureOf("config",
    {"config error", "invalid config", "configuration error", "missing config"}),
  hitl_user_timeout |-> SignatureOf("timeout",
    {"hitl timeout", "awaiting_input", "pause state", "user timeout"}),
  hitl_repeated_rejection |-> SignatureOf("state",
    {"repeated rejection", "changes_requested", "draft_review to drafting", "re-entry loop"}),
  hitl_drift_escalation |-> SignatureOf("validation",
    {"drift_count >=", "drift escalation", "excessive drift", "drift threshold"}),
  hitl_chain_loop |-> SignatureOf("state",
    {"hitl loop", "chain loop guard", "max hitl steps", "hitl loop limit"})]
Signature == Range(Names)

\* A message contains what it spells out and the patterns inside those.
Inside == ("timeout in state" :> {"timeout"}) @@ ("hitl timeout" :> {"timeout"})
          @@ ("user timeout" :> {"timeout"}) @@ ("hitl loop limit" :> {"hitl loop"})
Contained(text) == text \union UNION {Inside[p] : p \in text \cap DOMAIN Inside}

\* FailureMatcher.match: in hundredths, twice the share of the patterns that the
\* message contains, 1.00 at most; best_match: the first of the highest.
MatchConfidence(text, s) ==
  LET share == (200 * Cardinality(Contained(text) \cap DefaultPatterns[s].patterns))
               \div Cardinality(DefaultPatterns[s].patterns)
  IN IF share > 100 THEN 100 ELSE share
Matches(text) == {i \in DOMAIN Names : MatchConfidence(text, Names[i]) > 0}
BestMatch(text) ==
  Names[CHOOSE i \in Matches(text) : \A j \in Matches(text) :
          LET ci == MatchConfidence(text, Names[i])  cj == MatchConfidence(text, Names[j])
          IN ci > cj \/ (ci = cj /\ i <= j)]

\* _generate_actions: the types of the actions, in the order they are tried
ActionsFor(class) ==
  CASE class = "transient"  -> <<"backoff", "retry">>
    [] class = "state"      -> <<"rollback", "reset">>
    [] class = "resource"   -> <<"cleanup", "reset">>
    [] class = "validation" -> <<"retry">>
    [] class = "dependency" -> <<"backoff", "escalate">>
    [] class = "config"     -> <<"reconfigure", "escalate">>
    [] OTHER                -> <<"escalate">>

\* create_plan: executed without approval when confident and transient. One
\* pattern in four is confident enough.
AutoExecute(text, s) ==
  MatchConfidence(text, s) >= 50 /\ DefaultPatterns[s].class \in {"transient", "timeout"}

NoAttempt == [of |-> "", auto |-> FALSE, at |-> "new", next |-> 1, status |-> "none",
              began |-> 0, ended |-> 0]

RemediationInit ==
  /\ minute = 0 /\ cooldown = [s \in Signature |-> 0]
  /\ attempt = [a \in Attempt |-> NoAttempt]

\* Cooldowns and attempts keep their types.
RemediationTypeOK ==
  /\ minute \in 0..MaxMinutes /\ cooldown \in [Signature -> 0..(MaxMinutes + 5)]
  /\ attempt \in [Attempt ->
       [of : Signature \union {""}, auto : BOOLEAN,
        at : {"new", "planned", "acting", "resting", "over"}, next : 1..2,
        status : {"none", "running", "success", "failed", "skipped"},
        began : 0..MaxMinutes, ended : 0..MaxMinutes]]
-----------------------------------------------------------------------------
\* A message that matches nothing gives no plan.
CreatePlan(a, text) ==
  /\ attempt[a].at = "new" /\ (\A b \in 1..(a - 1) : attempt[b].at # "new")
  /\ Matches(text) # {}
  /\ LET s == BestMatch(text) IN
       attempt' = [attempt EXCEPT ![a] = [NoAttempt EXCEPT !.of = s, !.at = "planned",
                                                           !.auto = AutoExecute(text, s)]]
  /\ UNCHANGED <<minute, cooldown>>

PlanOf(a) == ActionsFor(DefaultPatterns[attempt[a].of].class)

\* Variant: the two rests are swapped.
RestForSwapped(ok) == IF ok THEN 1 ELSE 5

\* Five minutes after a success, one after a failure.
RestFor(ok) == IF ok THEN 5 ELSE 1

\* The end of execute. A plan that was escalated is reported as failed: the
\* final status overwrites the other.
Finished(a, ok) ==
  /\ attempt' = [attempt EXCEPT ![a].at = "over", ![a].next = 1, ![a].ended = minute,
                                ![a].status = IF ok THEN "success" ELSE "failed"]
  /\ cooldown' = [cooldown EXCEPT ![attempt[a].of] = minute + RestFor(ok)]

\* execute: in its cooldown, or not automatic: skipped. Otherwise the first
\* action begins, unless that is to escalate.
ExecutePlan(a) ==
  /\ attempt[a].at = "planned"
  /\ IF minute < cooldown[attempt[a].of] \/ ~attempt[a].auto
       THEN /\ attempt' = [attempt EXCEPT ![a] = [NoAttempt EXCEPT !.at = "over",
                                                                       !.status = "skipped"]]
            /\ UNCHANGED cooldown
       ELSE IF Head(PlanOf(a)) = "escalate"
              THEN Finished(a, FALSE)
              ELSE /\ attempt' = [attempt EXCEPT ![a].at = "acting", ![a].began = minute,
                                                 ![a].status = "running"]
                   /\ UNCHANGED cooldown
  /\ UNCHANGED minute

\* The action ended, in time or by its time limit. One without a handler does
\* not succeed; after a failure execute pauses.
ActionEnds(a, ok) ==
  /\ attempt[a].at = "acting" /\ (ok => PlanOf(a)[attempt[a].next] \in Handled)
  /\ IF ok THEN Finished(a, TRUE)
           ELSE attempt' = [attempt EXCEPT ![a].at = "resting"] /\ UNCHANGED cooldown
  /\ UNCHANGED minute

\* The pause is over: the next action, if there is one and it is not to escalate.
PauseOver(a) ==
  /\ attempt[a].at = "resting"
  /\ LET n == attempt[a].next + 1 IN
       IF n > Len(PlanOf(a)) \/ PlanOf(a)[Len(PlanOf(a))] = "escalate"
         THEN Finished(a, FALSE)
         ELSE attempt' = [attempt EXCEPT ![a].at = "acting", ![a].next = n] /\ UNCHANGED cooldown
  /\ UNCHANGED minute

\* Time passes; while nothing runs or rests, nothing depends on it.
MinutePasses ==
  /\ minute < MaxMinutes /\ minute' = minute + 1
  /\ \/ \E a \in Attempt : attempt[a].at \in {"acting", "resting"}
     \/ \E s \in Signature : minute < cooldown[s]
  /\ UNCHANGED <<cooldown, attempt>>

RemediationNext ==
  \/ \E a \in Attempt, text \in ErrorText : CreatePlan(a, text)
  \/ \E a \in Attempt : ExecutePlan(a) \/ PauseOver(a) \/ \E ok \in BOOLEAN : ActionEnds(a, ok)
  \/ MinutePasses
-----------------------------------------------------------------------------
(* No execution for a signature begins to act within five minutes of one that *)
(* succeeded, however executions are planned and interleaved, unless a third  *)
(* that was already under way failed after the success and put its own        *)
(* minute in the place of the five.                                           *)
SuccessRests ==
  [][\A b \in Attempt :
       attempt[b].at = "planned" /\ attempt'[b].at = "acting"
         => \A a \in Attempt :
              \/ attempt[a].status # "success" \/ attempt[a].of # attempt[b].of
              \/ minute >= attempt[a].ended + 5
              \/ \E c \in Attempt :
                   /\ attempt[c].of = attempt[b].of /\ attempt[c].status = "failed"
                   /\ attempt[c].began <= attempt[a].ended
                   /\ attempt[c].ended >= attempt[a].ended]_remediationVars
===============================================================================
