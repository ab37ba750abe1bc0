---------------------------- MODULE WorkflowProofs ----------------------------
(***************************************************************************)
(* Proofs about Workflow, for any profiles and any engines on them.  What    *)
(* depends on the transitions a profile has, CanFinish, is left to TLC.      *)
(***************************************************************************)
EXTENDS Workflow, TLAPS, WellFoundedInduction

USE WorkflowAssumption

-----------------------------------------------------------------------------
\* Transitions that the state machine allows

\* The first transition of a set is one of them.
LEMMA FirstIsOne ==
  ASSUME NEW p \in DOMAIN Profiles, NEW I \in SUBSET DOMAIN Profiles[p].edges, I # {}
  PROVE  First(I) \in I
<1>1. I \in SUBSET Nat
  <2>1. Profiles[p].edges \in Seq([from : STRING, to : STRING, cond : STRING,
                                      human : BOOLEAN])
    OBVIOUS
  <2>2. DOMAIN Profiles[p].edges = 1..Len(Profiles[p].edges)
    BY <2>1
  <2> QED  BY <2>2
<1>2. PICK i \in I : \A j \in I : <<j, i>> \notin OpToRel(<, Nat)
  BY <1>1, WFMin, NatLessThanWellFounded
<1>3. \A j \in I : i <= j
  <2> SUFFICES ASSUME NEW j \in I PROVE i <= j
    OBVIOUS
  <2>1. j \in Nat /\ i \in Nat
    BY <1>1
  <2>2. ~(j < i)
    BY <1>2, <2>1 DEF OpToRel
  <2> QED  BY <2>1, <2>2
<1> QED  BY <1>3 DEF First

LEMMA AllowedIsEdge ==
  ASSUME NEW to, NEW F, Accepts(to, F)
  PROVE  /\ Matching(P, state, to) # {} /\ to \in StatesOf(P)
         /\ status = "active"
BY DEF Accepts, Allowed, Matching, StatesOf

\* Every way to a guarded state asks for human_approved.
LEMMA GuardedNeedsApproval ==
  ASSUME profile \in DOMAIN Profiles, NEW to, NEW F, Accepts(to, F), to \in Guarded(P)
  PROVE  "human_approved" \in F
<1> DEFINE I == Matching(P, state, to)
<1>1. I \in SUBSET DOMAIN P.edges /\ I # {} /\ \A i \in I : P.edges[i].to = to
  BY DEF Accepts, Allowed, Matching
<1>2. First(I) \in I
  BY <1>1, FirstIsOne DEF P
<1>3. Condition(P, state, to) = "human_approved"
  BY <1>1, <1>2 DEF Guarded, Condition
<1>4. Holds("human_approved", F, Counted(state, iters))
  BY <1>3 DEF Accepts, Allowed
<1> QED  BY <1>4 DEF Holds, OnDefaults

\* Where a timeout leads is somewhere the state machine allows, and only an answer given
\* by default may count as an approval.
LEMMA TimeoutIsAccepted ==
  ASSUME profile \in DOMAIN Profiles, NEW e \in Async, TimeoutTarget(e) # ""
  PROVE  \E F : /\ Accepts(TimeoutTarget(e), F)
                /\ \/ "human_approved" \notin F
                   \/ Policy = "default" /\ TimeoutTarget(e) = P.fallback[state]
<1> DEFINE to == TimeoutTarget(e)
<1>1. CASE state \in P.pause /\ Policy = "proceed"
  <2> DEFINE I == {i \in DOMAIN P.edges : /\ P.edges[i].from = state /\ P.edges[i].to # state
                                          /\ ProceedAllowed(i)}
  <2>1. to = Proceed
    BY <1>1 DEF TimeoutTarget
  <2>2. I # {} /\ to = P.edges[First(I)].to
    BY <2>1 DEF Proceed
  <2>3. First(I) \in I
    BY <2>2, FirstIsOne DEF P
  <2>4. Accepts(to, {})
    BY <2>2, <2>3 DEF ProceedAllowed
  <2> QED  BY <2>4
<1>2. CASE state \in P.pause /\ Policy = "abort"
  <2>1. to = Abort
    BY <1>2 DEF TimeoutTarget
  <2>2. Accepts(to, {"project_abandoned"}) \/ Accepts(to, {})
    BY <2>1 DEF Abort
  <2> QED  BY <2>2
<1>3. CASE state \in P.pause /\ Policy = "default"
  <2>1. to = P.fallback[state] /\ AcceptsAnswer(e, to)
    BY <1>3 DEF TimeoutTarget
  <2> QED  BY <1>3, <2>1 DEF AcceptsAnswer
<1>4. CASE state \in P.pause /\ Policy \notin {"proceed", "abort", "default"}
  BY <1>4 DEF TimeoutTarget
<1>5. CASE state \notin P.pause
  <2>1. to = P.onTimeout[state] /\ Accepts(to, {})
    BY <1>5 DEF TimeoutTarget
  <2> QED  BY <2>1
<1> QED  BY <1>1, <1>2, <1>3, <1>4, <1>5

-----------------------------------------------------------------------------
\* Types

Tracking == [Async -> [AllTimed -> {"none", "fresh", "old"}]]

LEMMA HereIs ==
  ASSUME profile \in DOMAIN Profiles
  PROVE  Here = StatesOf(P)
BY DEF Here, StatesIn, P

LEMMA CountTypes ==
  ASSUME iters \in 0..MaxIterations, loop \in 0..MaxLoop, NEW s, NEW e
  PROVE  Counted(s, iters) \in 0..MaxIterations /\ UpTo(loop + 1, MaxLoop) \in 0..MaxLoop
BY DEF Counted, UpTo, MaxIterations, MaxLoop

LEMMA TrackTypes ==
  ASSUME NEW tr \in Tracking, NEW e, NEW s, NEW time \in {"none", "fresh", "old"}
  PROVE  Track(tr, e, s, time) \in Tracking
BY DEF Track, Tracking

\* Every operation that moves the run leaves it in a state of its profile.
LEMMA EnterTypes ==
  ASSUME TypeOK, profile' = profile, NEW e \in Async \cup Sync, NEW s \in StatesOf(P),
         NEW tr \in Tracking, Enter(e, s, tr)
  PROVE  /\ profile' \in DOMAIN Profiles /\ state' \in Here' /\ since' \in {"fresh", "old"}
         /\ tracked' \in Tracking /\ mixed' \in BOOLEAN
<1>1. profile \in DOMAIN Profiles /\ Here = StatesOf(P) /\ Here' = Here
  BY HereIs DEF TypeOK, Here
<1>2. state' = s /\ since' = "fresh" /\ tracked' = Track(tr, e, s, "fresh")
      /\ mixed' = (mixed \/ e \in Sync)
  BY DEF Enter
<1>3. tracked' \in Tracking
  BY <1>2, TrackTypes
<1>4. mixed' \in BOOLEAN
  BY <1>2
<1> QED  BY <1>1, <1>2, <1>3, <1>4

LEMMA StayTypes ==
  ASSUME TypeOK, Stay, loop' \in 0..MaxLoop, tracked' \in Tracking,
         told' \in {"none", "moved", "awaiting", "bypassed", "refused", "recorded", "raised", "failed",
                    "not_paused", "timeout"}
  PROVE  TypeOK'
BY DEF TypeOK, Stay, Tracking, Here

LEMMA MoveTypes ==
  ASSUME TypeOK, NEW e \in Async \cup Sync, NEW to, NEW F, Accepts(to, F),
         NEW tr \in Tracking, DoTransition(e, to, tr), loop' \in 0..MaxLoop,
         told' \in {"none", "moved", "awaiting", "bypassed", "refused", "recorded", "raised", "failed",
                    "not_paused", "timeout"}
  PROVE  TypeOK'
<1>1. /\ Enter(e, to, tr) /\ iters' = Counted(state, iters) /\ profile' = profile
      /\ status' = status
  BY DEF DoTransition
<1>2. to \in StatesOf(P)
  BY AllowedIsEdge
<1>3. /\ profile' \in DOMAIN Profiles /\ state' \in Here' /\ since' \in {"fresh", "old"}
      /\ tracked' \in Tracking /\ mixed' \in BOOLEAN
  BY <1>1, <1>2, EnterTypes
<1>4. iters' \in 0..MaxIterations
  BY <1>1, CountTypes DEF TypeOK
<1> QED  BY <1>1, <1>3, <1>4 DEF TypeOK, Tracking

LEMMA Untracked ==
  ASSUME TypeOK, NEW e \in Async
  PROVE  /\ tracked \in Tracking /\ tracked[e] \in [AllTimed -> {"none", "fresh", "old"}]
         /\ [tracked EXCEPT ![e] = [s \in AllTimed |-> "none"]] \in Tracking
         /\ Watched => Entered(e) \in {"none", "fresh", "old"} /\ state \in AllTimed
         /\ Watched => Track(tracked, e, state, Entered(e)) \in Tracking
<1>1. tracked \in Tracking /\ tracked[e] \in [AllTimed -> {"none", "fresh", "old"}]
  BY DEF TypeOK, Tracking
<1>2. [tracked EXCEPT ![e] = [s \in AllTimed |-> "none"]] \in Tracking
  BY <1>1 DEF Tracking
<1>3. Watched => state \in AllTimed
  BY DEF Watched, AllTimed, P, TypeOK
<1>4. Watched => Entered(e) \in {"none", "fresh", "old"}
  BY <1>1, <1>3 DEF Entered, TypeOK
<1>5. Watched => Track(tracked, e, state, Entered(e)) \in Tracking
  BY <1>1, <1>4, TrackTypes
<1> QED  BY <1>1, <1>2, <1>3, <1>4, <1>5

LEMMA NextTypes ==
  ASSUME TypeOK, [Next]_vars
  PROVE  TypeOK'
<1>1. /\ tracked \in Tracking /\ profile \in DOMAIN Profiles
      /\ loop \in 0..MaxLoop /\ UpTo(loop + 1, MaxLoop) \in 0..MaxLoop
      /\ \A s, n : Asked(s, n) \in {"awaiting", "moved"}
  BY CountTypes DEF TypeOK, Tracking, Asked
<1>2. ASSUME NEW e \in Async \cup Sync, Create(e) PROVE TypeOK'
  <2>1. P.initial \in StatesOf(P)
    BY DEF StatesOf
  <2>2. profile' = profile /\ Enter(e, P.initial, tracked)
    BY <1>2 DEF Create
  <2>3. /\ profile' \in DOMAIN Profiles /\ state' \in Here' /\ since' \in {"fresh", "old"}
        /\ tracked' \in Tracking /\ mixed' \in BOOLEAN
    BY <1>1, <2>1, <2>2, EnterTypes
  <2>4. status' = "active" /\ iters' = 0 /\ told' = "none" /\ loop' = loop
    BY <1>2 DEF Create
  <2>5. 0 \in 0..MaxIterations
    BY DEF MaxIterations
  <2> QED  BY <1>1, <2>3, <2>4, <2>5 DEF TypeOK, Tracking
<1>3. ASSUME NEW e \in Async \cup Sync, NEW to, Transition(e, to) PROVE TypeOK'
  <2>1. /\ Accepts(to, {}) /\ DoTransition(e, to, tracked) /\ loop' = loop
        /\ told' \in {"bypassed", "awaiting", "moved"}
    BY <1>1, <1>3 DEF Transition
  <2> QED  BY <1>1, <2>1, MoveTypes
<1>4. ASSUME NEW e \in Async \cup Sync, NEW to, Resume(e, to) PROVE TypeOK'
  <2>1. /\ Accepts(to, Flags(e, P, state, to)) /\ DoTransition(e, to, tracked)
        /\ loop' \in 0..MaxLoop /\ told' \in {"awaiting", "moved"}
    BY <1>1, <1>4 DEF Resume, AcceptsAnswer, CountAnswer
  <2> QED  BY <1>1, <2>1, MoveTypes
<1>5. ASSUME NEW e \in Async \cup Sync, NEW to,
             TransitionRefused(e, to) \/ ResumeInPlace(e, to) \/ NotPaused(e)
      PROVE  TypeOK'
  <2>1. /\ Stay /\ tracked' = tracked /\ loop' \in 0..MaxLoop
        /\ told' \in {"refused", "recorded", "raised", "failed", "not_paused"}
    BY <1>1, <1>5 DEF TransitionRefused, ResumeInPlace, NotPaused, CountAnswer
  <2> QED  BY <1>1, <2>1, StayTypes
<1>6. ASSUME NEW e \in Async, Poll(e) \/ HealthCheck(e) \/ Restart(e) PROVE TypeOK'
  <2>1. Stay /\ tracked' \in Tracking /\ loop' = loop /\ told' = told
    BY <1>6, Untracked DEF Poll, HealthCheck, Restart
  <2> QED  BY <1>1, <2>1, StayTypes DEF TypeOK
<1>7. ASSUME NEW e \in Async, Timeout(e) PROVE TypeOK'
  <2>1. Track(tracked, e, state, Entered(e)) \in Tracking
    BY <1>7, Untracked DEF Timeout
  <2>2. told' = "timeout" /\ loop' \in 0..MaxLoop
    BY <1>1, <1>7 DEF Timeout
  <2>3. CASE TimeoutTarget(e) = ""
    BY <1>7, <2>1, <2>2, <2>3, StayTypes DEF Timeout
  <2>4. CASE TimeoutTarget(e) # ""
    <3>1. PICK F : Accepts(TimeoutTarget(e), F)
      BY <1>1, <2>4, TimeoutIsAccepted
    <3>2. DoTransition(e, TimeoutTarget(e), Track(tracked, e, state, Entered(e)))
      BY <1>7, <2>4 DEF Timeout
    <3> QED  BY <2>1, <2>2, <3>1, <3>2, MoveTypes
  <2> QED  BY <2>3, <2>4
<1>8. CASE Archive
  BY <1>8 DEF Archive, TypeOK, Here
<1>9. CASE Tick
  <2>1. tracked' \in Tracking
    BY <1>1, <1>9 DEF Tick, Tracking, Older
  <2> QED  BY <1>9, <2>1 DEF Tick, TypeOK, Here, Tracking
<1>10. CASE UNCHANGED vars
  BY <1>10 DEF vars, TypeOK, Here
<1> QED  BY <1>2, <1>3, <1>4, <1>5, <1>6, <1>7, <1>8, <1>9, <1>10 DEF Next

LEMMA InitTypes == Init => TypeOK
<1> SUFFICES ASSUME Init PROVE TypeOK
  OBVIOUS
<1>1. profile \in DOMAIN Profiles /\ state = P.initial /\ Here = StatesOf(P)
  BY HereIs DEF Init
<1>2. state \in Here
  BY <1>1 DEF StatesOf
<1>3. tracked \in [Async -> [AllTimed -> {"none", "fresh", "old"}]]
  BY DEF Init
<1>4. iters \in 0..MaxIterations /\ loop \in 0..MaxLoop
  <2>1. iters = 0 /\ loop = 0
    BY DEF Init
  <2> QED  BY <2>1 DEF MaxIterations, MaxLoop
<1>5. mixed \in BOOLEAN
  BY DEF Init
<1> QED  BY <1>1, <1>2, <1>3, <1>4, <1>5 DEF Init, TypeOK

\* Whatever the engines are asked, and in whatever order they and the timeout watchers act
\* on the run, it stays in the states of its profile (_do_transition, resume_run,
\* _check_timeouts).
THEOREM RunStaysInProfile == Spec => []TypeOK
BY InitTypes, NextTypes, PTL DEF Spec

-----------------------------------------------------------------------------
\* What a step may not do

\* Whatever the profile says of its transitions, a state that only a person may open is
\* entered by an answer and by nothing else, if every way there asks for human_approved,
\* the profile does not begin there, and no default answer of a timeout leads there
\* (transition_with_hitl, resume_run, _check_timeouts).
THEOREM OnlyPeopleApprove ==
  ASSUME \A p \in DOMAIN Profiles : ApprovalAsked(Profiles[p])
  PROVE  Spec => ApprovedByHuman
<1> DEFINE Approved == state' # state /\ state' \in Guarded(P) =>
                         \E e \in Async \cup Sync : Resume(e, state')
<1>1. ASSUME TypeOK, [Next]_vars PROVE Approved
  <2> SUFFICES ASSUME state' # state, state' \in Guarded(P)
               PROVE  \E e \in Async \cup Sync : Resume(e, state')
    OBVIOUS
  <2>1. profile \in DOMAIN Profiles /\ ApprovalAsked(P)
    BY <1>1 DEF TypeOK, P
  <2>2. ASSUME NEW e \in Async \cup Sync PROVE ~Create(e)
    BY <2>1 DEF Create, Enter, ApprovalAsked
  <2>3. ASSUME NEW e \in Async \cup Sync, NEW to PROVE ~Transition(e, to)
    <3> SUFFICES ASSUME Transition(e, to) PROVE FALSE
      OBVIOUS
    <3>1. Accepts(to, {}) /\ state' = to
      BY DEF Transition, DoTransition, Enter
    <3> QED  BY <2>1, <3>1, GuardedNeedsApproval
  <2>4. ASSUME NEW e \in Async, Timeout(e) PROVE FALSE
    <3>1. TimeoutTarget(e) # "" /\ state' = TimeoutTarget(e)
      BY <2>4 DEF Timeout, Stay, DoTransition, Enter
    <3>2. PICK F : /\ Accepts(TimeoutTarget(e), F)
                   /\ \/ "human_approved" \notin F
                      \/ Policy = "default" /\ TimeoutTarget(e) = P.fallback[state]
      BY <2>1, <3>1, TimeoutIsAccepted
    <3>3. "human_approved" \in F
      BY <2>1, <3>1, <3>2, GuardedNeedsApproval
    <3>4. state \in DOMAIN P.policy /\ P.policy[state] = "default"
      BY <3>2, <3>3 DEF Policy
    <3> QED  BY <2>1, <3>1, <3>2, <3>3, <3>4 DEF ApprovalAsked
  <2>5. ASSUME NEW e \in Async \cup Sync, NEW to,
               TransitionRefused(e, to) \/ ResumeInPlace(e, to) \/ NotPaused(e)
        PROVE  FALSE
    BY <2>5 DEF TransitionRefused, ResumeInPlace, NotPaused, Stay
  <2>6. ASSUME NEW e \in Async, Poll(e) \/ HealthCheck(e) \/ Restart(e) PROVE FALSE
    BY <2>6 DEF Poll, HealthCheck, Restart, Stay
  <2>7. ~(Archive \/ Tick \/ UNCHANGED vars)
    BY DEF Archive, Tick, vars
  <2>8. PICK e \in Async \cup Sync, to \in AnswersTo(state) : Resume(e, to)
    BY <1>1, <2>2, <2>3, <2>4, <2>5, <2>6, <2>7 DEF Next
  <2>9. state' = to
    BY <2>8 DEF Resume, DoTransition, Enter
  <2> QED  BY <2>8, <2>9
<1>2. TypeOK /\ [Next]_vars => [Approved]_vars
  BY <1>1
<1> QED  BY <1>2, RunStaysInProfile, PTL DEF Spec, ApprovedByHuman

\* An AsyncEngine refuses an answer that the profile maps to a state only if no answer at
\* all could open the transition: resume_run sets the flag that the transition's own
\* condition names.
THEOREM AnswersAreHonoured == Spec => AnswerHonoured
<1> DEFINE Honoured == \A e \in Async, to \in AnswersTo(state) \ {""} :
                         ResumeInPlace(e, to) => ~\E F \in SUBSET AnswerFlags : Accepts(to, F)
<1>1. Honoured
  <2> SUFFICES ASSUME NEW e \in Async, NEW to \in AnswersTo(state) \ {""}, ResumeInPlace(e, to),
                      NEW F \in SUBSET AnswerFlags, Accepts(to, F)
               PROVE  FALSE
    OBVIOUS
  <2> DEFINE c == Condition(P, state, to)
             G == Flags(e, P, state, to)
             n == Counted(state, iters)
  <2>1. ~Accepts(to, G)
    BY DEF ResumeInPlace, AcceptsAnswer
  <2>2. e \notin Sync /\ Matching(P, state, to) # {}
    BY AllowedIsEdge
  <2>3. G = {"human_approved", "changes_requested"} \cap {c}
    BY <2>2 DEF Flags
  <2>4. Holds(c, F, n)
    BY DEF Accepts, Allowed
  <2> HIDE DEF c, G, n
  <2>5. Holds(c, G, n)
    BY <2>3, <2>4 DEF Holds, AnswerFlags, OnDefaults
  <2> QED  BY <2>1, <2>5 DEF Accepts, Allowed, c, G, n
<1> QED  BY <1>1, PTL DEF Spec, AnswerHonoured

-----------------------------------------------------------------------------
\* The timeout of a state does not strike early

OneWatcher == \A d, e \in Async : d = e

\* Unless another kind of engine moved the run, what the watcher remembers of the run's
\* state is of this stay in it.
EntryIsCurrent ==
  ~mixed => \A e \in Async :
    state \in AllTimed /\ tracked[e][state] = "old" => since = "old"

LEMMA EntryNext ==
  ASSUME OneWatcher, TypeOK, EntryIsCurrent, [Next]_vars
  PROVE  EntryIsCurrent'
<1>1. tracked \in Tracking /\ profile \in DOMAIN Profiles
  BY DEF TypeOK, Tracking
<1>2. ASSUME NEW e \in Async \cup Sync, NEW s, NEW tr \in Tracking, Enter(e, s, tr)
      PROVE  EntryIsCurrent'
  <2> SUFFICES ASSUME ~mixed', NEW d \in Async, state' \in AllTimed
               PROVE  tracked'[d][state'] # "old"
    BY DEF EntryIsCurrent
  <2>1. e = d /\ state' = s
    BY <1>2 DEF Enter, OneWatcher
  <2>2. tracked' = [tr EXCEPT ![d][s] = "fresh"]
    BY <1>2, <2>1 DEF Enter, Track
  <2>3. tracked'[d][s] = "fresh"
    BY <2>1, <2>2 DEF Tracking
  <2> QED  BY <2>1, <2>3
<1>3. ASSUME Stay, tracked' = tracked PROVE EntryIsCurrent'
  BY <1>3 DEF Stay, EntryIsCurrent
<1>4. ASSUME NEW e \in Async, Stay, Watched, tracked' = Track(tracked, e, state, Entered(e))
      PROVE  EntryIsCurrent'
  <2> SUFFICES ASSUME ~mixed, NEW d \in Async, state \in AllTimed, tracked'[d][state] = "old"
               PROVE  since = "old"
    BY <1>4 DEF EntryIsCurrent, Stay
  <2>1. tracked' = [tracked EXCEPT ![d][state] = Entered(d)]
    BY <1>4 DEF Track, OneWatcher
  <2>2. Entered(d) = "old"
    BY <1>1, <2>1 DEF Tracking
  <2> QED  BY <2>2 DEF Entered, EntryIsCurrent
<1>5. ASSUME NEW e \in Async, Stay, tracked' = [tracked EXCEPT ![e] = [s \in AllTimed |-> "none"]]
      PROVE  EntryIsCurrent'
  <2> SUFFICES ASSUME NEW d \in Async, state \in AllTimed
               PROVE  tracked'[d][state] = "none"
    BY <1>5 DEF EntryIsCurrent, Stay
  <2> QED  BY <1>1, <1>5 DEF Tracking, OneWatcher
<1>6. ASSUME NEW e \in Async \cup Sync, Create(e) PROVE EntryIsCurrent'
  BY <1>1, <1>2, <1>6 DEF Create
<1>7. ASSUME NEW e \in Async \cup Sync, NEW to, Transition(e, to) \/ Resume(e, to)
      PROVE  EntryIsCurrent'
  BY <1>1, <1>2, <1>7 DEF Transition, Resume, DoTransition
<1>8. ASSUME NEW e \in Async \cup Sync, NEW to,
             TransitionRefused(e, to) \/ ResumeInPlace(e, to) \/ NotPaused(e)
      PROVE  EntryIsCurrent'
  BY <1>3, <1>8 DEF TransitionRefused, ResumeInPlace, NotPaused
<1>9. ASSUME NEW e \in Async, Poll(e) \/ HealthCheck(e) \/ Restart(e) PROVE EntryIsCurrent'
  BY <1>4, <1>5, <1>9 DEF Poll, HealthCheck, Restart
<1>10. ASSUME NEW e \in Async, Timeout(e) PROVE EntryIsCurrent'
  <2>1. Track(tracked, e, state, Entered(e)) \in Tracking
    BY <1>10, Untracked DEF Timeout
  <2>2. CASE TimeoutTarget(e) = ""
    BY <1>4, <1>10, <2>2 DEF Timeout
  <2>3. CASE TimeoutTarget(e) # ""
    BY <1>2, <1>10, <2>1, <2>3 DEF Timeout, DoTransition
  <2> QED  BY <2>2, <2>3
<1>11. CASE Archive \/ Tick \/ UNCHANGED vars
  BY <1>11 DEF Archive, Tick, vars, EntryIsCurrent
<1> QED  BY <1>6, <1>7, <1>8, <1>9, <1>10, <1>11 DEF Next

\* A timeout strikes only when the run has been in its state that long, through restarts,
\* answers and other lives of the run, if one AsyncEngine is the only one to move the run
\* (_state_entry_time, _track_entry, _check_timeouts).
THEOREM TimeoutsAreNotEarly ==
  ASSUME OneWatcher
  PROVE  Spec => TimeoutNotEarly
<1> DEFINE InTime == ~mixed => \A e \in Async : Timeout(e) => since = "old"
<1>1. Init => EntryIsCurrent
  BY DEF Init, EntryIsCurrent
<1>2. TypeOK /\ EntryIsCurrent /\ [Next]_vars => EntryIsCurrent'
  BY EntryNext
<1>3. ASSUME TypeOK, EntryIsCurrent PROVE InTime
  <2> SUFFICES ASSUME ~mixed, NEW e \in Async, Timeout(e) PROVE since = "old"
    OBVIOUS
  <2>1. state \in AllTimed /\ Entered(e) = "old"
    BY <1>3, Untracked DEF Timeout, IsOverdue
  <2> QED  BY <1>3, <2>1 DEF Entered, EntryIsCurrent
<1>4. TypeOK /\ EntryIsCurrent /\ [Next]_vars => [InTime]_vars
  BY <1>3
<1> QED  BY <1>1, <1>2, <1>4, RunStaysInProfile, PTL DEF Spec, TimeoutNotEarly

===============================================================================
