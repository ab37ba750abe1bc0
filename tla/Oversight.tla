------------------------------ MODULE Oversight ------------------------------
(***************************************************************************)
(* Human oversight of agent tasks: the approval gate, the escalation queue  *)
(* and the requests that answer them (agent_runtime/approval_gate.py,       *)
(* agent_runtime/human_loop.py, the human-loop API of engine/server.py).    *)
(*                                                                         *)
(* The agents' event loop pauses tasks, escalates failed ones and sweeps    *)
(* the stale pauses; the thread of the HTTP server answers, one request at  *)
(* a time.  The gate has no lock.  No callback is registered in the engine. *)
(***************************************************************************)
EXTENDS Naturals, Sequences, FiniteSets

CONSTANTS
  GateTask,        \* ids of tasks
  MaxPauses,       \* bound: calls of pause_task
  MaxEscalations   \* bound: calls of escalate

ASSUME OversightAssumption == MaxPauses \in Nat /\ MaxEscalations \in Nat

VARIABLES
  pauses,      \* the PausedTask objects, in the order of their creation
  waiting,     \* _paused: the object of each paused task, 0 if there is none
  sweep,       \* auto_approve_stale under way: objects to look at, and the stale one found
  request,     \* the request the server handles
  escalations, \* the EscalatedItem objects
  escalated    \* _queue

oversightVars == <<pauses, waiting, sweep, request, escalations, escalated>>

Answer == {"approved", "rejected"}
NoSweep == [todo |-> {}, found |-> 0]
NoRequest == [answer |-> "none", object |-> 0]

OversightInit ==
  /\ pauses = <<>> /\ waiting = [t \in GateTask |-> 0]
  /\ sweep = NoSweep /\ request = NoRequest
  /\ escalations = <<>> /\ escalated = {}

-----------------------------------------------------------------------------
\* The agents' event loop

\* pause_task: a task that is paused already gets a new object in place of the old one.
\* The timeout is the call's or the gate's; either may be missing.
PauseTask(t, timeout) ==
  /\ Len(pauses) < MaxPauses /\ sweep = NoSweep
  /\ pauses' = Append(pauses, [task |-> t, timeout |-> timeout, stale |-> FALSE,
                               status |-> "pending", resolved |-> 0, audited |-> 0])
  /\ waiting' = [waiting EXCEPT ![t] = Len(pauses')]
  /\ UNCHANGED <<sweep, request, escalations, escalated>>

\* age_seconds exceeds the timeout
GrowsStale(p) ==
  /\ pauses[p].timeout /\ ~pauses[p].stale
  /\ pauses' = [pauses EXCEPT ![p].stale = TRUE]
  /\ UNCHANGED <<waiting, sweep, request, escalations, escalated>>

\* auto_approve_stale takes the list of what is paused ...
SweepStarts ==
  /\ sweep = NoSweep
  /\ sweep' = [todo |-> {waiting[t] : t \in GateTask} \ {0}, found |-> 0]
  /\ sweep'.todo # {}
  /\ UNCHANGED <<pauses, waiting, request, escalations, escalated>>

\* Variant: what is looked at is approved, stale or not.
FoundAny(p) == p

\* ... looks at one after the other ...
Found(p) == IF pauses[p].stale THEN p ELSE 0

SweepLooks(p) ==
  /\ p \in sweep.todo /\ sweep.found = 0
  /\ sweep' = [todo |-> sweep.todo \ {p}, found |-> Found(p)]
  /\ UNCHANGED <<pauses, waiting, request, escalations, escalated>>

\* Variant: an answered pause is not put on the list of resolved ones.
EndedUnlisted(p, status) == [pauses EXCEPT ![p].status = status]

\* What every answer does to the object: it is put on the list of resolved ones.
Ended(p, status) == [pauses EXCEPT ![p].status = status, ![p].resolved = @ + 1]

\* ... and approves a stale one, even if its task was taken out of the dictionary since.
\* It makes no entry in the audit log.
SweepApproves ==
  LET p == sweep.found IN
  /\ p # 0
  /\ waiting' = [waiting EXCEPT ![pauses[p].task] = 0]
  /\ pauses' = Ended(p, "timeout")
  /\ sweep' = [sweep EXCEPT !.found = 0]
  /\ UNCHANGED <<request, escalations, escalated>>

\* HumanLoopManager.escalate, as the coordinator calls it for a task without retries
Escalate(t) ==
  /\ Len(escalations) < MaxEscalations
  /\ escalations' = Append(escalations, [task |-> t, status |-> "pending"])
  /\ escalated' = escalated \cup {Len(escalations')}
  /\ UNCHANGED <<pauses, waiting, sweep, request>>

-----------------------------------------------------------------------------
\* The thread of the server

\* _api_human_approve, _api_human_reject with the id of a task: approve_task and
\* reject_task take the object out of the dictionary; without one the answer is 404.
Takes(t, answer) ==
  /\ request = NoRequest /\ waiting[t] # 0
  /\ request' = [answer |-> answer, object |-> waiting[t]]
  /\ waiting' = [waiting EXCEPT ![t] = 0]
  /\ UNCHANGED <<pauses, sweep, escalations, escalated>>

\* ... and write the answer into it.
Answers ==
  LET p == request.object IN
  /\ request # NoRequest
  /\ pauses' = [Ended(p, request.answer) EXCEPT ![p].audited = @ + 1]
  /\ request' = NoRequest
  /\ UNCHANGED <<waiting, sweep, escalations, escalated>>

\* Variant: a reviewed item stays in the queue.
ReviewsInPlace(e, answer) ==
  /\ escalations' = [escalations EXCEPT ![e].status = answer]
  /\ UNCHANGED escalated

\* HumanLoopManager.approve and reject, on an item that is found in the queue
Reviews(e, answer) ==
  /\ escalations' = [escalations EXCEPT ![e].status = answer]
  /\ escalated' = escalated \ {e}

\* The same requests with the id of an escalation, which the gate does not know
AnswersEscalation(e, answer) ==
  /\ request = NoRequest /\ e \in escalated
  /\ Reviews(e, answer)
  /\ UNCHANGED <<pauses, waiting, sweep, request>>

OversightNext ==
  \/ \E t \in GateTask : \/ \E timeout \in BOOLEAN : PauseTask(t, timeout)
                         \/ Escalate(t)
                         \/ \E a \in Answer : Takes(t, a)
  \/ \E p \in DOMAIN pauses : GrowsStale(p) \/ SweepLooks(p)
  \/ SweepStarts \/ SweepApproves \/ Answers
  \/ \E e \in DOMAIN escalations, a \in Answer : AnswersEscalation(e, a)

OversightSpec == OversightInit /\ [][OversightNext]_oversightVars

-----------------------------------------------------------------------------
\* Properties

\* Objects, queue and requests keep their types; what left the queue was reviewed.
OversightTypeOK ==
  /\ \A p \in DOMAIN pauses :
       /\ pauses[p].task \in GateTask /\ pauses[p].resolved \in 0..2
       /\ pauses[p].status \in Answer \cup {"pending", "timeout"}
  /\ \A t \in GateTask : waiting[t] # 0 => pauses[waiting[t]].task = t
  /\ \A e \in DOMAIN escalations : (escalations[e].status = "pending") <=> e \in escalated

\* "Pause running tasks for human review": a pause waits in the gate, is being answered, or
\* has an answer, whatever request the sweep of stale pauses meets; it is dropped only by
\* a later pause of the same task.
PauseNotLost ==
  \A p \in DOMAIN pauses :
    \/ waiting[pauses[p].task] = p
    \/ request.object = p
    \/ pauses[p].resolved > 0
    \/ \E q \in DOMAIN pauses : q > p /\ pauses[q].task = pauses[p].task

\* "Approve/Reject paused tasks", "Full audit trail": the answer of a person to a pause
\* that was not stale is in the audit log once and is never changed, although gate and
\* sweep share the objects without a lock.
HumanAnswerStands ==
  [][\A p \in DOMAIN pauses :
       pauses[p].status \in Answer /\ ~pauses[p].stale =>
         pauses'[p].status = pauses[p].status /\ pauses'[p].audited = 1]_oversightVars
=============================================================================
