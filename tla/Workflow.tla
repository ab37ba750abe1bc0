------------------------------- MODULE Workflow -------------------------------
(***************************************************************************)
(* The life of one run under the engines that drive it: AsyncEngine         *)
(* (engine/runtime.py), which also watches timeouts, and the synchronous    *)
(* ProdinamikEngine (engine/engine.py) of the command line.  Engines share  *)
(* the run on disk; an operation is one step here, and module RunManager    *)
(* shows what happens inside one.                                           *)
(*                                                                         *)
(* Time is what a timeout sees of it: a moment is "fresh" until Tick makes  *)
(* it "old", longer ago than the timeout of the state it belongs to.        *)
(***************************************************************************)
EXTENDS Naturals, FiniteSets, Sequences

CONSTANTS
  Profiles,     \* profiles by name, as in module Profiles
  Async, Sync   \* engines of the two kinds

ASSUME WorkflowAssumption ==
  /\ Async \cap Sync = {}
  /\ \A p \in DOMAIN Profiles :
       Profiles[p].edges \in Seq([from : STRING, to : STRING, cond : STRING,
                                    human : BOOLEAN])

MaxLoop == 5       \* MAX_HITL_LOOP, where the count stops to matter
MaxIterations == 5 \* the largest number a condition compares iterations with

VARIABLES
  profile,  \* the run's profile
  status,   \* "none", "active" or "archived"
  state,    \* RunMeta.state
  iters,    \* RunMeta.iteration_count
  since,    \* RunMeta.updated_at
  tracked,  \* _state_entry_time of each AsyncEngine
  loop,     \* hitl_loop_count of the run's name in the snapshot
  told,     \* what the last call reported
  mixed     \* history: a synchronous engine created or moved the run

vars == <<profile, status, state, iters, since, tracked, loop, told, mixed>>
P == Profiles[profile]

StatesOf(q) == {q.initial} \cup q.pause \cup q.terminal
                 \cup {q.edges[i].from : i \in DOMAIN q.edges}
                 \cup {q.edges[i].to : i \in DOMAIN q.edges}
StatesIn  == [p \in DOMAIN Profiles |-> StatesOf(Profiles[p])]
Here      == StatesIn[profile]
AllTimed  == UNION {Profiles[p].timed : p \in DOMAIN Profiles}
UpTo(n, max) == IF n < max THEN n ELSE max

-----------------------------------------------------------------------------
\* StateMachine

\* Conditions on fields of the RuntimeState that always have their defaults
OnDefaults == {"drift_detected", "drift_count > 0", "consecutive_failures >= 3",
               "max_iterations_exceeded", "reentry_count > 0", "reentry_count >= 2",
               "reentry_count >= 3"}

\* _evaluate_condition, on the RuntimeState that update_state and the engines
\* build: the flags handed in, the iteration count, and the defaults of all other
\* fields.  An unknown name holds, "iteration_count % 5" being one.
Holds(cond, flags, n) ==
  CASE cond \in {"human_approved", "changes_requested", "manual_unblock",
                 "project_abandoned"} -> cond \in flags
    [] cond = "iterations >= 4" -> n >= 4
    [] cond = "iteration_count >= 5 AND iteration_count % 5 == 0" -> n >= 5
    [] cond \in OnDefaults -> FALSE
    [] OTHER -> TRUE

Matching(q, from, to) ==
  {i \in DOMAIN q.edges : q.edges[i].from = from /\ q.edges[i].to = to}
First(I) == CHOOSE i \in I : \A j \in I : i <= j
Condition(q, from, to) == q.edges[First(Matching(q, from, to))].cond
RequiresHuman(q, from, to) == q.edges[First(Matching(q, from, to))].human

\* can_transition; the reentry_count it compares with max_reentries is always 0, and
\* nothing overrides requires_human.
Allowed(q, from, to, flags, n) ==
  /\ from \notin q.terminal
  /\ Matching(q, from, to) # {} /\ ~RequiresHuman(q, from, to)
  /\ from = to /\ to \in DOMAIN q.reentries => q.reentries[to] > 0
  /\ Holds(Condition(q, from, to), flags, n)

\* is_pause_state and get_hitl_questions
Paused(q, s) == s \in q.pause \/ s \in q.asks \/ s \in DOMAIN q.asksIf
HasQuestions(q, s, n) ==
  s \in q.asks \/ (s \in DOMAIN q.asksIf /\ Holds(q.asksIf[s], {}, n))

\* Variant: iterations are not counted.
CountedNever(s, n) == n

\* Leaving the state "iteration" counts, its self-loop included.
Counted(s, n) == IF s = "iteration" THEN UpTo(n + 1, MaxIterations) ELSE n

-----------------------------------------------------------------------------
Init ==
  /\ profile \in DOMAIN Profiles
  /\ status = "none" /\ state = P.initial /\ iters = 0 /\ since = "fresh"
  /\ tracked = [e \in Async |-> [s \in AllTimed |-> "none"]]
  /\ loop = 0 /\ told = "none" /\ mixed = FALSE

\* Variant: an entry once made is kept.
TrackFirst(tr, e, s, time) ==
  IF e \in Async /\ s \in AllTimed
  THEN [tr EXCEPT ![e][s] = IF @ = "none" THEN time ELSE @] ELSE tr

\* _track_entry; entries of states without a timeout are never read.
Track(tr, e, s, time) ==
  IF e \in Async /\ s \in AllTimed THEN [tr EXCEPT ![e][s] = time] ELSE tr

Enter(e, s, tr) ==
  /\ state' = s /\ since' = "fresh"
  /\ tracked' = Track(tr, e, s, "fresh")
  /\ mixed' = (mixed \/ e \in Sync)

Create(e) ==
  /\ status # "active"
  /\ status' = "active" /\ iters' = 0 /\ told' = "none"
  /\ Enter(e, P.initial, tracked)
  /\ UNCHANGED <<profile, loop>>

\* What update_state decides, and what _do_transition then changes.
Accepts(to, flags) ==
  status = "active" /\ Allowed(P, state, to, flags, Counted(state, iters))

DoTransition(e, to, tr) ==
  /\ Enter(e, to, tr)
  /\ iters' = Counted(state, iters)
  /\ UNCHANGED <<profile, status>>

Stay == UNCHANGED <<profile, status, state, iters, since, mixed>>

Asked(s, n) == IF HasQuestions(P, s, n) THEN "awaiting" ELSE "moved"

\* transition_with_hitl, with the chain-loop guard of the AsyncEngine; a plain
\* transition differs in what it reports only.
Transition(e, to) ==
  /\ Accepts(to, {})
  /\ DoTransition(e, to, tracked)
  /\ told' = IF e \in Async /\ Paused(P, to) /\ loop >= MaxLoop THEN "bypassed"
             ELSE Asked(to, iters')
  /\ UNCHANGED loop

TransitionRefused(e, to) ==
  /\ status # "none" /\ ~Accepts(to, {})
  /\ told' = "refused"
  /\ Stay /\ UNCHANGED <<tracked, loop>>

\* Variant: every answer counts as an approval.
FlagsBlunt(e, q, from, to) == {"human_approved"}

\* The flags an answer sets: in resume_run those the transition's condition
\* names, in resume always human_approved.
Flags(e, q, from, to) ==
  IF e \in Sync THEN {"human_approved"}
  ELSE IF Matching(q, from, to) = {} THEN {}
  ELSE {"human_approved", "changes_requested"} \cap {Condition(q, from, to)}

AcceptsAnswer(e, to) == Accepts(to, Flags(e, P, state, to))

\* evaluate_resume_transition: "" is an answer nothing is mapped to.
AnswersTo(s) == {""} \cup (IF s \in DOMAIN P.answers THEN P.answers[s] ELSE {})

CountAnswer(e) == loop' = IF e \in Async THEN UpTo(loop + 1, MaxLoop) ELSE loop

\* resume_run and resume, on an answer that leads to state `to'.
Resume(e, to) ==
  /\ Paused(P, state) /\ to \in AnswersTo(state) \ {""} /\ AcceptsAnswer(e, to)
  /\ DoTransition(e, to, tracked)
  /\ CountAnswer(e)
  /\ told' = IF Paused(P, to) THEN Asked(to, iters') ELSE "moved"

\* An answer that nothing is mapped to is recorded; resume means to, but raises at the
\* name datetime, which its module lacks.  Or the transition an answer asks for is
\* refused.  An archived run is still found.
ResumeInPlace(e, to) ==
  /\ status # "none" /\ Paused(P, state) /\ to \in AnswersTo(state)
  /\ to # "" => ~AcceptsAnswer(e, to)
  /\ CountAnswer(e)
  /\ told' = IF to # "" THEN "failed" ELSE IF e \in Async THEN "recorded" ELSE "raised"
  /\ Stay /\ UNCHANGED tracked

NotPaused(e) ==
  /\ status # "none" /\ ~Paused(P, state)
  /\ told' = "not_paused"
  /\ Stay /\ UNCHANGED <<tracked, loop>>

-----------------------------------------------------------------------------
\* _check_timeouts

\* Variant: without an entry the run is skipped.
EnteredIfTracked(e) == tracked[e][state]

Entered(e) == IF tracked[e][state] = "none" THEN since ELSE tracked[e][state]

Policy == IF state \in DOMAIN P.policy THEN P.policy[state] ELSE "proceed"

\* Variant: going on after a timeout counts as an approval.
ProceedApproved(i) == Accepts(P.edges[i].to, {"human_approved"})

ProceedAllowed(i) == Accepts(P.edges[i].to, {})

\* "proceed": the first transition elsewhere that is accepted
Proceed ==
  LET I == {i \in DOMAIN P.edges : /\ P.edges[i].from = state /\ P.edges[i].to # state
                                   /\ ProceedAllowed(i)}
  IN  IF I = {} THEN "" ELSE P.edges[First(I)].to

\* Variant: a run is cancelled whether its profile knows the state or not.
AbortUnchecked == "cancelled"

Abort == IF Accepts("cancelled", {"project_abandoned"}) THEN "cancelled"
         ELSE IF Accepts("archived", {}) THEN "archived" ELSE ""

\* Where an overdue run goes, "" for nowhere
TimeoutTarget(e) ==
  IF state \in P.pause
  THEN CASE Policy = "proceed" -> Proceed
         [] Policy = "abort"   -> Abort
         [] Policy = "default" -> IF AcceptsAnswer(e, P.fallback[state])
                                  THEN P.fallback[state] ELSE ""
         [] OTHER              -> ""  \* "hold"
  ELSE IF state \in DOMAIN P.onTimeout /\ Accepts(P.onTimeout[state], {})
       THEN P.onTimeout[state] ELSE ""

Watched == status = "active" /\ state \in P.timed

IsOverdue(e) == Entered(e) = "old"

Poll(e) ==
  /\ Watched /\ ~IsOverdue(e)
  /\ tracked' = Track(tracked, e, state, Entered(e))
  /\ Stay /\ UNCHANGED <<loop, told>>

Timeout(e) ==
  LET to == TimeoutTarget(e)
      tr == Track(tracked, e, state, Entered(e))
  IN  /\ Watched /\ IsOverdue(e)
      /\ told' = "timeout"
      /\ loop' = IF state \in P.pause /\ Policy = "default" THEN UpTo(loop + 1, MaxLoop)
                 ELSE loop
      /\ IF to = "" THEN Stay /\ tracked' = tr ELSE DoTransition(e, to, tr)

\* _cleanup_state_entries, from the health checker.  _do_transition's own call
\* never happens: it compares str() of an Enum member with "TERMINAL".
HealthCheck(e) ==
  /\ status # "active"
  /\ tracked' = [tracked EXCEPT ![e] = [s \in AllTimed |-> "none"]]
  /\ Stay /\ UNCHANGED <<loop, told>>

\* A new process: its entry times are gone, the run is as it was.
Restart(e) ==
  /\ tracked' = [tracked EXCEPT ![e] = [s \in AllTimed |-> "none"]]
  /\ Stay /\ UNCHANGED <<loop, told>>

\* RunManager.archive_run
Archive ==
  /\ status = "active"
  /\ status' = "archived" /\ told' = "none"
  /\ UNCHANGED <<profile, state, iters, since, tracked, loop, mixed>>

Older(t) == IF t = "fresh" THEN "old" ELSE t
Tick ==
  /\ since' = "old"
  /\ tracked' = [e \in Async |-> [s \in AllTimed |-> Older(tracked[e][s])]]
  /\ UNCHANGED <<profile, status, state, iters, loop, told, mixed>>

Next ==
  \/ \E e \in Async \cup Sync :
       \/ Create(e) \/ NotPaused(e)
       \/ \E to \in Here : Transition(e, to) \/ TransitionRefused(e, to)
       \/ \E to \in AnswersTo(state) : Resume(e, to) \/ ResumeInPlace(e, to)
  \/ \E e \in Async : Poll(e) \/ Timeout(e) \/ HealthCheck(e) \/ Restart(e)
  \/ Archive
  \/ Tick

\* Time passes, and the watcher of every AsyncEngine polls again and again.
Fairness == WF_vars(Tick) /\ \A e \in Async : WF_vars(Poll(e) \/ Timeout(e))

Spec == Init /\ [][Next]_vars /\ Fairness

-----------------------------------------------------------------------------
\* Properties

\* The run stays in the states of its profile.
TypeOK ==
  /\ profile \in DOMAIN Profiles /\ status \in {"none", "active", "archived"}
  /\ state \in Here /\ iters \in 0..MaxIterations /\ since \in {"fresh", "old"}
  /\ tracked \in [Async -> [AllTimed -> {"none", "fresh", "old"}]]
  /\ loop \in 0..MaxLoop /\ mixed \in BOOLEAN
  /\ told \in {"none", "moved", "awaiting", "bypassed", "refused", "recorded", "raised",
               "failed", "not_paused", "timeout"}

\* The flags an answer can set
AnswerFlags == {"human_approved", "changes_requested"}

\* States that the profile's header lets only a person open, where every way
\* there asks for human_approved.
Guarded(q) == {s \in q.approval : \A i \in DOMAIN q.edges :
                 q.edges[i].to = s => q.edges[i].cond = "human_approved"}

\* The profile itself keeps to that: it does not begin in such a state, and no answer
\* that a timeout gives by default leads to one.
ApprovalAsked(q) ==
  /\ q.initial \notin Guarded(q)
  /\ \A s \in DOMAIN q.policy : q.policy[s] = "default" => q.fallback[s] \notin Guarded(q)

\* Such a state is entered by an answer, never by a transition of the agent or by
\* the timeout watcher.
ApprovedByHuman ==
  [][state' # state /\ state' \in Guarded(P) =>
       \E e \in Async \cup Sync : Resume(e, state')]_vars

\* The states, with iteration counts, from which a run can be brought to a terminal
\* state by transitions and by answers to the engines there are.
Steps(q, s, n) ==
  LET m == Counted(s, n)
      Given(t) == IF s \in DOMAIN q.answers /\ t \in q.answers[s]
                  THEN {Flags(e, q, s, t) : e \in Async \cup Sync} \cup {{}} ELSE {{}}
  IN  {<<t, m>> : t \in {t \in StatesOf(q) : \E F \in Given(t) : Allowed(q, s, t, F, m)}}

Finishing(q) ==
  LET Pair == StatesOf(q) \X (0..MaxIterations)
      Edge == UNION {{<<x, y>> : y \in Steps(q, x[1], x[2])} : x \in Pair}
      Back[k \in Nat] ==
        IF k = 0 THEN {x \in Pair : x[1] \in q.terminal}
        ELSE LET B == Back[k - 1]
             IN  B \cup {e[1] : e \in {e \in Edge : e[2] \in B}}
  IN  Back[Cardinality(StatesOf(q)) + MaxIterations]

FinishingRuns ==
  UNION {{<<p, x>> : x \in Finishing(Profiles[p])} : p \in DOMAIN Profiles}

\* A state left only on what the RuntimeState never says
DeadEnd(q, s) ==
  s \notin q.terminal /\ \A i \in DOMAIN q.edges :
    q.edges[i].from = s => q.edges[i].cond \in OnDefaults

\* Wherever a run got to, transitions and answers can still bring it to a terminal
\* state of its profile, unless every way out of its state asks for drift or
\* failures, which no engine reports to the state machine.
CanFinish == <<profile, <<state, iters>>>> \in FinishingRuns \/ DeadEnd(P, state)

\* resume_run: an answer that resume_transitions maps to a state brings an active
\* run there ("determine the next state by resume_transitions and make the
\* transition"), if there is a transition that some answer can open.
AnswerHonoured ==
  [][\A e \in Async, to \in AnswersTo(state) \ {""} :
       ResumeInPlace(e, to) => ~\E F \in SUBSET AnswerFlags : Accepts(to, F)]_vars

\* The timeout of a state strikes when the run has been in the state that long,
\* not because the run was in it some other time, as long as the engine that
\* watches is the only one to move the run.
TimeoutNotEarly ==
  [][~mixed => \A e \in Async : Timeout(e) => since = "old"]_vars

\* A run whose time in a state is up, and which the state's timeout policy can
\* move, is moved on, restarts of the engine or not.
OverdueMovesOn ==
  (Watched /\ since = "old" /\ \E e \in Async : TimeoutTarget(e) # "")
    ~> (since = "fresh" \/ status # "active")

\* A run keeps its types and can still get to an end of its profile.
WorkflowInv == TypeOK /\ CanFinish
=============================================================================
