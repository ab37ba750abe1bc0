------------------------------ MODULE TaskQueue ------------------------------
(***************************************************************************)
(* The coordinator's task queue (engine/agent_runtime/task_queue.py): a    *)
(* priority heap in memory backed by a write-ahead log.                     *)
(*                                                                         *)
(* Every operation is a coroutine without a suspension point of its own    *)
(* (the WAL lock is never contended), so it is one atomic step: the change *)
(* in memory together with the entry it appends.  A crash between the two  *)
(* loses the memory anyway and equals a crash before the operation.        *)
(*                                                                         *)
(* The log is represented by what _replay_wal would rebuild from it:       *)
(* appending an entry is one replay step on that image.  A failed write is *)
(* logged and swallowed by the code; the entry is then missing.            *)
(***************************************************************************)
EXTENDS Naturals, FiniteSets

CONSTANTS
  Task,            \* task identifiers (uuid4 in submit_task)
  Node,            \* worker node identifiers
  NoNode,          \* the empty assigned_node
  Tag,             \* capability tags
  NoTag,           \* the empty affinity
  Priority,        \* [Task -> Nat], 0 is the most urgent
  Affinity,        \* [Task -> Tag \cup {NoTag}]
  MaxRetries,      \* CoordinatorConfig.max_task_retries
  DefaultRetries,  \* the default of the dataclass field Task.max_retries
  MaxFaults        \* bound: WAL writes that fail

ASSUME QueueAssumption ==
  /\ NoNode \notin Node
  /\ NoTag \notin Tag
  /\ Priority \in [Task -> Nat]
  /\ Affinity \in [Task -> Tag \cup {NoTag}]
  /\ MaxRetries \in Nat
  /\ DefaultRetries \in Nat
  /\ MaxFaults \in Nat

VARIABLES
  task,          \* _tasks: what the queue knows of each task
  heap,          \* _heap: the tasks that have at least one entry in it
  queuedIds,     \* _queued_ids
  activeIds,     \* _active_ids
  completedIds,  \* _completed_ids
  walTask,       \* _tasks as a replay of the log would rebuild it
  walActive,     \* _active_ids as a replay would rebuild it
  walDone,       \* _completed_ids as a replay would rebuild it
  walState,      \* "open", or how close() left the file
  faults,        \* number of failed writes so far
  dirty,         \* tasks one of whose entries never reached the log
  used           \* identifiers handed out so far: uuid4 never repeats one

memory == <<task, heap, queuedIds, activeIds, completedIds>>
log    == <<walTask, walActive, walDone, walState, faults, dirty>>
queue  == <<memory, log, used>>

Terminal == {"COMPLETED", "FAILED", "CANCELLED"}
Live     == {"QUEUED", "ASSIGNED"}
Status   == {"absent"} \cup Live \cup Terminal

\* payload stands for the fields a retry entry leaves out: context, tools,
\* max_steps and parent_task, either as submitted or reset to the defaults.
TaskRecord ==
  [status : Status, retries : Nat, max : Nat, node : Node \cup {NoNode},
   payload : {"submitted", "defaults"}]

Absent == [status |-> "absent", retries |-> 0, max |-> 0, node |-> NoNode,
           payload |-> "submitted"]

NewTask == [status |-> "QUEUED", retries |-> 0, max |-> MaxRetries,
            node |-> NoNode, payload |-> "submitted"]

\* The changes an operation makes to a task object
\* Variant: a give-up recorded with the status no reader expects
FinishedTimeout(r, s) == [r EXCEPT !.status = IF s = "FAILED" THEN "TIMEOUT" ELSE s]

\* Variant: an assignment that leaves assigned_node as it was
AssignedNowhere(r, n) == [r EXCEPT !.status = "ASSIGNED"]

Finished(r, s)   == [r EXCEPT !.status = s]
AssignedTo(r, n) == [r EXCEPT !.status = "ASSIGNED", !.node = n]
Requeued(r)      == [r EXCEPT !.status = "QUEUED", !.node = NoNode]
Retried(r)       == [r EXCEPT !.status = "QUEUED", !.node = NoNode,
                              !.retries = @ + 1]

StatusIs(S)  == {t \in Task : task[t].status \in S}
Known(t)     == task[t].status # "absent"
KnownToLog(t) == walTask[t].status # "absent"

-----------------------------------------------------------------------------
\* The log

\* The entries of the tasks in S are written, except those whose write fails:
\* W are the ones that reach the file.  A closed queue writes nothing.
Write(S, W) ==
  /\ W \subseteq S
  /\ IF walState = "open"
     THEN /\ W = S \/ faults < MaxFaults
          /\ faults' = IF W = S THEN faults ELSE faults + 1
     ELSE W = {} /\ faults' = faults
  /\ dirty' = dirty \cup (S \ W)
  /\ walState' = walState

\* An "enqueue" entry with the fields of r: the task object is built afresh.
LogEnqueue(W, r) ==
  /\ walTask' = [t \in Task |-> IF t \in W THEN r ELSE walTask[t]]
  /\ UNCHANGED <<walActive, walDone>>

\* Variant: a replay that skips acknowledgements
LogNoAcknowledge(W, n) == UNCHANGED <<walTask, walActive, walDone>>

LogAcknowledge(W, n) ==
  LET K == {t \in W : KnownToLog(t)}
  IN  /\ walTask' = [t \in Task |->
            IF t \in K THEN AssignedTo(walTask[t], n) ELSE walTask[t]]
      /\ walActive' = walActive \cup K
      /\ walDone' = walDone

\* Variant: a replay that leaves finished tasks among the active ones
LogFinishActive(W, s) ==
  LET K == {t \in W : KnownToLog(t)}
  IN  /\ walTask' = [t \in Task |->
            IF t \in K THEN Finished(walTask[t], s) ELSE walTask[t]]
      /\ walActive' = walActive
      /\ walDone' = walDone \cup K

\* "complete", "fail" and "cancel" entries differ in the status they leave.
LogFinish(W, s) ==
  LET K == {t \in W : KnownToLog(t)}
  IN  /\ walTask' = [t \in Task |->
            IF t \in K THEN Finished(walTask[t], s) ELSE walTask[t]]
      /\ walActive' = walActive \ K
      /\ walDone' = walDone \cup K

-----------------------------------------------------------------------------
\* Operations

Init ==
  /\ task = [t \in Task |-> Absent]
  /\ heap = {} /\ queuedIds = {} /\ activeIds = {} /\ completedIds = {}
  /\ walTask = [t \in Task |-> Absent]
  /\ walActive = {} /\ walDone = {}
  /\ walState = "open" /\ faults = 0 /\ dirty = {} /\ used = {}

\* The fields enqueue writes; retry_count is not among them.
EnqueueEntry(t) == [NewTask EXCEPT !.max = task[t].max, !.payload = task[t].payload]

\* The entry fail(retry=True) writes has task_id, goal, priority and affinity.
RetryEntry == [NewTask EXCEPT !.max = DefaultRetries, !.payload = "defaults"]

Enqueue(t) ==
  /\ t \notin used
  /\ used' = used \cup {t}
  /\ task' = [task EXCEPT ![t] = NewTask]
  /\ heap' = heap \cup {t}
  /\ queuedIds' = queuedIds \cup {t}
  /\ UNCHANGED <<activeIds, completedIds>>
  /\ \E W \in SUBSET {t} : Write({t}, W) /\ LogEnqueue(W, NewTask)

\* The QUEUED tasks dequeue(affinity) may return, in any order of priority.
Matches(t, a) == a = NoTag \/ Affinity[t] \in {NoTag, a}
\* Variant: a stale heap entry of a finished task is taken for a queued one
CandidatesStale(a) ==
  {t \in heap : task[t].status \in {"QUEUED", "COMPLETED"} /\ Matches(t, a)}
Candidates(a) == {t \in heap : task[t].status = "QUEUED" /\ Matches(t, a)}

\* t is the first candidate in heap order; among equal priorities the enqueue
\* time decides, which the model leaves open.
IsNext(t, a) == /\ t \in Candidates(a)
                /\ \A u \in Candidates(a) : Priority[t] <= Priority[u]

\* Variant: entries skipped for their affinity are not pushed back
HeapWithoutSkipped(t, h) ==
  /\ h \subseteq heap
  /\ {u \in heap : Priority[u] > Priority[t]} \subseteq h

\* h is a heap that dequeue leaves when it returns t: stale entries in front of
\* t are dropped, entries of other queued tasks are pushed back, entries behind
\* t are not looked at.  A second entry of t itself may remain.
HeapAfter(t, h) ==
  /\ h \subseteq heap
  /\ {u \in heap : Priority[u] > Priority[t]} \subseteq h
  /\ {u \in heap : task[u].status = "QUEUED"} \ {t} \subseteq h
  /\ \A u \in h : Priority[u] < Priority[t] => task[u].status = "QUEUED"

\* dequeue followed by acknowledge, as poll_tasks and the scheduler do it
Assign(t, n, a) ==
  /\ IsNext(t, a)
  /\ \E h \in SUBSET heap : HeapAfter(t, h) /\ heap' = h
  /\ task' = [task EXCEPT ![t] = AssignedTo(@, n)]
  /\ queuedIds' = queuedIds \ {t}
  /\ activeIds' = activeIds \cup {t}
  /\ UNCHANGED <<completedIds, used>>
  /\ \E W \in SUBSET {t} : Write({t}, W) /\ LogAcknowledge(W, n)

\* dequeue followed by enqueue, when the scheduler finds no node for t
PutBack(t) ==
  /\ IsNext(t, NoTag)
  /\ \E h \in SUBSET heap : HeapAfter(t, h) /\ heap' = h \cup {t}
  /\ queuedIds' = queuedIds \cup {t}
  /\ UNCHANGED <<task, activeIds, completedIds, used>>
  /\ \E W \in SUBSET {t} : Write({t}, W) /\ LogEnqueue(W, EnqueueEntry(t))

\* dequeue(a) returning None: the whole heap is popped, stale entries vanish
DequeueNone(a) ==
  /\ Candidates(a) = {}
  /\ heap' = {u \in heap : task[u].status = "QUEUED"}
  /\ UNCHANGED <<task, queuedIds, activeIds, completedIds, log, used>>

Complete(t) ==
  /\ Known(t)
  /\ task' = [task EXCEPT ![t] = Finished(@, "COMPLETED")]
  /\ activeIds' = activeIds \ {t}
  /\ completedIds' = completedIds \cup {t}
  /\ UNCHANGED <<heap, queuedIds, used>>
  /\ \E W \in SUBSET {t} : Write({t}, W) /\ LogFinish(W, "COMPLETED")

Retry(t) ==
  /\ task[t].retries < task[t].max
  /\ task' = [task EXCEPT ![t] = Retried(@)]
  /\ activeIds' = activeIds \ {t}
  /\ queuedIds' = queuedIds \cup {t}
  /\ heap' = heap \cup {t}
  /\ UNCHANGED <<completedIds, used>>
  /\ \E W \in SUBSET {t} : Write({t}, W) /\ LogEnqueue(W, RetryEntry)

\* r is the task object as the caller left it.
GiveUp(t, r) ==
  /\ task' = [task EXCEPT ![t] = Finished(r, "FAILED")]
  /\ activeIds' = activeIds \ {t}
  /\ completedIds' = completedIds \cup {t}
  /\ UNCHANGED <<heap, queuedIds, used>>
  /\ \E W \in SUBSET {t} : Write({t}, W) /\ LogFinish(W, "FAILED")

Fail(t, retry) ==
  /\ Known(t)
  /\ IF retry /\ task[t].retries < task[t].max THEN Retry(t) ELSE GiveUp(t, task[t])

CancelSet(S) ==
  /\ task' = [t \in Task |-> IF t \in S THEN Finished(task[t], "CANCELLED")
                                        ELSE task[t]]
  /\ queuedIds' = queuedIds \ S
  /\ activeIds' = activeIds \ S
  /\ completedIds' = completedIds \cup S
  /\ UNCHANGED <<heap, used>>
  /\ \E W \in SUBSET S : Write(S, W) /\ LogFinish(W, "CANCELLED")

Cancel(t) == Known(t) /\ CancelSet({t})

\* cancel_all(status_filter): terminal tasks are skipped; F is the filter
CancelAll(F) == StatusIs(Live \cap F) # {} /\ CancelSet(StatusIs(Live \cap F))

-----------------------------------------------------------------------------
\* Closing and reopening

\* _compact_wal: one "enqueue" entry per live task, retry_count included
Compacted(t) ==
  IF task[t].status \in Live THEN Requeued(task[t]) ELSE Absent

Close ==
  /\ \/ /\ walState' = "compacted"
        /\ walTask' = [t \in Task |-> Compacted(t)]
        /\ walActive' = {} /\ walDone' = {} /\ dirty' = {}
        /\ faults' = faults
     \/ /\ walState' = "closed"      \* the rewrite failed and was swallowed
        /\ walState # "compacted" /\ faults < MaxFaults
        /\ faults' = faults + 1
        /\ UNCHANGED <<walTask, walActive, walDone, dirty>>
  /\ UNCHANGED <<memory, used>>

\* A new TaskQueue object replays the file: after close() or after a crash,
\* which loses the memory of the old one whatever it was doing.
Reopen ==
  /\ task' = walTask
  /\ heap' = {t \in Task : KnownToLog(t)}
  /\ queuedIds' = {t \in Task : walTask[t].status = "QUEUED"}
  /\ activeIds' = walActive
  /\ completedIds' = walDone
  /\ walState' = "open" /\ dirty' = {}
  /\ UNCHANGED <<walTask, walActive, walDone, faults, used>>

Next ==
  \/ \E t \in Task : \/ Enqueue(t) \/ PutBack(t) \/ Complete(t) \/ Cancel(t)
                     \/ \E n \in Node, a \in Tag \cup {NoTag} : Assign(t, n, a)
                     \/ \E retry \in BOOLEAN : Fail(t, retry)
  \/ \E a \in Tag \cup {NoTag} : DequeueNone(a)
  \/ \E F \in {Live, {"QUEUED"}, {"ASSIGNED"}} : CancelAll(F)
  \/ Close
  \/ Reopen

Spec == Init /\ [][Next]_queue

-----------------------------------------------------------------------------
\* Properties

\* Every variable of the queue keeps its type, whatever sequence of calls,
\* failed writes and crashes it goes through.
TypeOK ==
  /\ task \in [Task -> TaskRecord] /\ walTask \in [Task -> TaskRecord]
  /\ heap \subseteq Task /\ queuedIds \subseteq Task
  /\ activeIds \subseteq Task /\ completedIds \subseteq Task
  /\ walActive \subseteq Task /\ walDone \subseteq Task
  /\ walState \in {"open", "compacted", "closed"}
  /\ faults \in Nat /\ dirty \subseteq Task /\ used \subseteq Task

\* No queued task is lost: dequeue will find an entry of it in the heap, and
\* queue_depth, which bounds the scheduler's loop, counts it.
NoQueuedTaskLost ==
  \A t \in Task : task[t].status = "QUEUED" => t \in heap /\ t \in queuedIds

\* The id sets behind queue_depth, active_count and the statistics agree with
\* the tasks' status: an assigned task is counted as active, an active one is
\* not finished, a finished one is recorded as such.
IdSetsFollowStatus ==
  /\ StatusIs({"ASSIGNED"}) \subseteq activeIds
  /\ activeIds \subseteq StatusIs(Live)
  /\ StatusIs(Terminal) \subseteq completedIds

\* What a replay of the log would make of t's status: the same status while
\* the log is open; once compacted, live tasks are queued again and finished
\* ones are forgotten.
StatusToRecover(t) ==
  IF walState = "compacted" THEN Compacted(t).status ELSE task[t].status

\* A crash at any moment loses nothing that was written: replaying the log
\* gives every task whose entries all reached it the status, and an assigned
\* task the node, that the queue has in memory.
CrashRecoversStatus ==
  \A t \in Task \ dirty :
    /\ walTask[t].status = StatusToRecover(t)
    /\ walTask[t].status = "ASSIGNED" => walTask[t].node = task[t].node

Ledger == INSTANCE TaskLedger WITH status  <- [t \in Task |-> task[t].status],
                                   unsaved <- dirty,
                                   shut    <- walState = "compacted"

\* The queue implements the ledger its users rely on: with heap, id sets and log
\* hidden, every call is one change of the statuses, and a crash at any moment
\* is a restart that keeps the status of each task whose entries were written.
ImplementsLedger == Ledger!Spec
=============================================================================
