------------------------------ MODULE GridProofs ------------------------------
(***************************************************************************)
(* Proofs about the grid, for any nodes, tasks, threads, commands, retries, *)
(* workers per node, failures, crashes and restarts.  The task queue keeps  *)
(* its tasks and implements its ledger; the coordinator's handlers use it   *)
(* as it allows, whatever interrupts them, and the registry's stale figures *)
(* do no harm.  Around the coordinators: the election on an external key,   *)
(* the budget, the approval gate and offline writes.                        *)
(***************************************************************************)
EXTENDS MCGrid, FiniteSetTheorems, SequenceTheorems, TLAPS

\* The id sets a replay rebuilds follow the statuses it rebuilds.  Without it
\* nothing is known of activeIds and completedIds after Reopen.
LogSetsFollowStatus ==
  \A t \in Task :
    /\ walTask[t].status = "ASSIGNED" => t \in walActive
    /\ t \in walActive => walTask[t].status \in Live
    /\ walTask[t].status \in Terminal => t \in walDone

\* The inductive invariant.
QueueInv ==
  /\ TypeOK
  /\ NoQueuedTaskLost
  /\ IdSetsFollowStatus
  /\ CrashRecoversStatus
  /\ LogSetsFollowStatus

USE QueueAssumption

LEMMA RecordTypes ==
  /\ Absent \in TaskRecord
  /\ NewTask \in TaskRecord
  /\ RetryEntry \in TaskRecord
BY DEF Absent, NewTask, RetryEntry, TaskRecord, Status, Live, Terminal

\* What the operations on a task object yield.
LEMMA FinishedRecord ==
  ASSUME NEW r \in TaskRecord, NEW s \in Terminal
  PROVE  Finished(r, s) \in TaskRecord
BY DEF TaskRecord, Finished, Status

LEMMA AssignedRecord ==
  ASSUME NEW r \in TaskRecord, NEW n \in Node
  PROVE  /\ AssignedTo(r, n) \in TaskRecord
         /\ AssignedTo(r, n).status = "ASSIGNED"
         /\ AssignedTo(r, n).node = n
BY DEF TaskRecord, AssignedTo, Status, Live

LEMMA RequeuedRecord ==
  ASSUME NEW r \in TaskRecord
  PROVE  Requeued(r) \in TaskRecord /\ Requeued(r).status = "QUEUED"
BY DEF TaskRecord, Requeued, Status, Live

LEMMA RetriedRecord ==
  ASSUME NEW r \in TaskRecord
  PROVE  Retried(r) \in TaskRecord
<1>1. r.retries + 1 \in Nat BY DEF TaskRecord
<1>2. QED BY <1>1 DEF TaskRecord, Retried, Status, Live

LEMMA EnqueueRecord ==
  ASSUME NEW r \in TaskRecord
  PROVE  [NewTask EXCEPT !.max = r.max, !.payload = r.payload] \in TaskRecord
BY DEF TaskRecord, Status, Live, NewTask

\* Replaying one more entry keeps the image of the log a table of tasks.
LEMMA LogFinishType ==
  ASSUME walTask \in [Task -> TaskRecord], NEW W, NEW s \in Terminal,
         LogFinish(W, s)
  PROVE  walTask' \in [Task -> TaskRecord]
<1>1. ASSUME NEW u \in Task PROVE walTask'[u] \in TaskRecord
  <2>1. Finished(walTask[u], s) \in TaskRecord BY FinishedRecord
  <2>2. QED BY <2>1 DEF LogFinish
<1>2. QED BY <1>1 DEF LogFinish

LEMMA LogAcknowledgeType ==
  ASSUME walTask \in [Task -> TaskRecord], NEW W, NEW n \in Node,
         LogAcknowledge(W, n)
  PROVE  /\ walTask' \in [Task -> TaskRecord]
         /\ \A u \in Task :
              IF u \in W /\ KnownToLog(u)
              THEN walTask'[u].status = "ASSIGNED" /\ walTask'[u].node = n
              ELSE walTask'[u] = walTask[u]
<1>1. ASSUME NEW u \in Task
      PROVE  /\ walTask'[u] \in TaskRecord
             /\ IF u \in W /\ KnownToLog(u)
                THEN walTask'[u].status = "ASSIGNED" /\ walTask'[u].node = n
                ELSE walTask'[u] = walTask[u]
  <2>1. /\ AssignedTo(walTask[u], n) \in TaskRecord
        /\ AssignedTo(walTask[u], n).status = "ASSIGNED"
        /\ AssignedTo(walTask[u], n).node = n
    BY AssignedRecord
  <2>2. QED BY <2>1 DEF LogAcknowledge
<1>2. QED BY <1>1 DEF LogAcknowledge

LEMMA InitInv == Init => QueueInv
BY RecordTypes DEF Init, QueueInv, TypeOK, NoQueuedTaskLost, IdSetsFollowStatus,
   CrashRecoversStatus, LogSetsFollowStatus, StatusIs, StatusToRecover, Absent,
   Live, Terminal

LEMMA EnqueueInv ==
  ASSUME QueueInv, NEW t \in Task, Enqueue(t) PROVE QueueInv'
<1> USE RecordTypes DEF QueueInv, Enqueue, Write, LogEnqueue
<1>1. TypeOK' BY DEF TypeOK
<1>2. NoQueuedTaskLost' BY DEF TypeOK, NoQueuedTaskLost
<1>3. IdSetsFollowStatus'
  BY DEF TypeOK, IdSetsFollowStatus, StatusIs, NewTask, Live, Terminal
<1>4. CrashRecoversStatus'
  BY DEF TypeOK, CrashRecoversStatus, StatusToRecover, Compacted, NewTask, Live
<1>5. LogSetsFollowStatus'
  BY DEF TypeOK, LogSetsFollowStatus, NewTask, Live, Terminal
<1> QED BY <1>1, <1>2, <1>3, <1>4, <1>5

LEMMA CompleteInv ==
  ASSUME QueueInv, NEW t \in Task, Complete(t) PROVE QueueInv'
<1> USE DEF QueueInv, Complete, Known, Write, KnownToLog
<1>1. TypeOK'
  <2>1. task' \in [Task -> TaskRecord]
    BY FinishedRecord DEF TypeOK, Terminal
  <2>2. walTask' \in [Task -> TaskRecord]
    BY LogFinishType DEF TypeOK, Terminal
  <2>3. QED BY <2>1, <2>2 DEF TypeOK, LogFinish
<1> USE DEF TypeOK, TaskRecord, Finished, LogFinish
<1>2. NoQueuedTaskLost' BY DEF NoQueuedTaskLost
<1>3. IdSetsFollowStatus' BY DEF IdSetsFollowStatus, StatusIs, Live, Terminal
<1>4. CrashRecoversStatus'
  BY DEF CrashRecoversStatus, StatusToRecover, Compacted, Live
<1>5. LogSetsFollowStatus' BY DEF LogSetsFollowStatus, Live, Terminal
<1> QED BY <1>1, <1>2, <1>3, <1>4, <1>5

LEMMA GiveUpInv ==
  ASSUME QueueInv, NEW t \in Task, NEW r \in TaskRecord, Known(t), GiveUp(t, r)
  PROVE  QueueInv'
<1> USE DEF QueueInv, GiveUp, Known, Write, KnownToLog
<1>1. TypeOK'
  <2>1. task' \in [Task -> TaskRecord]
    BY FinishedRecord DEF TypeOK, Terminal
  <2>2. walTask' \in [Task -> TaskRecord]
    BY LogFinishType DEF TypeOK, Terminal
  <2>3. QED BY <2>1, <2>2 DEF TypeOK, LogFinish
<1> USE DEF TypeOK, TaskRecord, Finished, LogFinish
<1>2. NoQueuedTaskLost' BY DEF NoQueuedTaskLost
<1>3. IdSetsFollowStatus' BY DEF IdSetsFollowStatus, StatusIs, Live, Terminal
<1>4. CrashRecoversStatus'
  BY DEF CrashRecoversStatus, StatusToRecover, Compacted, Live
<1>5. LogSetsFollowStatus' BY DEF LogSetsFollowStatus, Live, Terminal
<1> QED BY <1>1, <1>2, <1>3, <1>4, <1>5

LEMMA RetryInv ==
  ASSUME QueueInv, NEW t \in Task, Retry(t) PROVE QueueInv'
<1> USE DEF QueueInv, Retry, Write, LogEnqueue
<1>1. TypeOK'
  <2>1. task' \in [Task -> TaskRecord]
    BY RetriedRecord DEF TypeOK, Terminal
  <2>2. walTask' \in [Task -> TaskRecord]
    BY RecordTypes DEF TypeOK, Terminal
  <2>3. QED BY <2>1, <2>2 DEF TypeOK
<1> USE DEF TypeOK, TaskRecord, Retried
<1>2. NoQueuedTaskLost' BY DEF NoQueuedTaskLost
<1>3. IdSetsFollowStatus' BY DEF IdSetsFollowStatus, StatusIs, Live, Terminal
<1>4. CrashRecoversStatus'
  BY DEF CrashRecoversStatus, StatusToRecover, Compacted, Live, RetryEntry, NewTask
<1>5. LogSetsFollowStatus' BY DEF LogSetsFollowStatus, Live, Terminal, RetryEntry, NewTask
<1> QED BY <1>1, <1>2, <1>3, <1>4, <1>5

LEMMA PutBackInv ==
  ASSUME QueueInv, NEW t \in Task, PutBack(t) PROVE QueueInv'
<1> USE DEF QueueInv, PutBack, IsNext, Candidates, HeapAfter, Write, LogEnqueue
<1>1. TypeOK'
  <2>1. EnqueueEntry(t) \in TaskRecord
    BY EnqueueRecord DEF TypeOK, EnqueueEntry
  <2>2. QED BY <2>1 DEF TypeOK
<1>2. NoQueuedTaskLost' BY DEF TypeOK, NoQueuedTaskLost
<1>3. IdSetsFollowStatus' BY DEF TypeOK, IdSetsFollowStatus, StatusIs
<1>4. CrashRecoversStatus'
  BY DEF TypeOK, CrashRecoversStatus, StatusToRecover, Compacted,
         EnqueueEntry, NewTask, Live
<1>5. LogSetsFollowStatus'
  BY DEF TypeOK, LogSetsFollowStatus, EnqueueEntry, NewTask, Live, Terminal
<1> QED BY <1>1, <1>2, <1>3, <1>4, <1>5

LEMMA AssignInv ==
  ASSUME QueueInv, NEW t \in Task, NEW n \in Node, NEW a, Assign(t, n, a)
  PROVE  QueueInv'
<1>1. /\ task[t].status = "QUEUED"
      /\ heap' \subseteq heap
      /\ \A u \in heap : u # t /\ task[u].status = "QUEUED" => u \in heap'
  BY DEF Assign, IsNext, Candidates, HeapAfter
<1>2. PICK W \in SUBSET {t} : Write({t}, W) /\ LogAcknowledge(W, n)
  BY DEF Assign
<1>3. /\ task' = [task EXCEPT ![t] = AssignedTo(@, n)]
      /\ queuedIds' = queuedIds \ {t}
      /\ activeIds' = activeIds \cup {t}
      /\ UNCHANGED <<completedIds, used>>
  BY DEF Assign
<1>4. /\ task' \in [Task -> TaskRecord]
      /\ \A u \in Task : IF u = t
                         THEN task'[u].status = "ASSIGNED" /\ task'[u].node = n
                         ELSE task'[u] = task[u]
  BY <1>3, AssignedRecord DEF QueueInv, TypeOK
<1>5. /\ walTask' \in [Task -> TaskRecord]
      /\ \A u \in Task :
           IF u \in W /\ KnownToLog(u)
           THEN walTask'[u].status = "ASSIGNED" /\ walTask'[u].node = n
           ELSE walTask'[u] = walTask[u]
  BY <1>2, LogAcknowledgeType DEF QueueInv, TypeOK
<1>6. /\ walActive' = walActive \cup {u \in W : KnownToLog(u)}
      /\ walDone' = walDone
  BY <1>2 DEF LogAcknowledge
<1> USE <1>1, <1>2, <1>4, <1>5, <1>6 DEF QueueInv, TypeOK
<1>7. TypeOK' BY <1>3 DEF Write
<1>8. NoQueuedTaskLost' BY <1>3 DEF NoQueuedTaskLost
<1>9. IdSetsFollowStatus'
  BY <1>3 DEF IdSetsFollowStatus, StatusIs, Live, Terminal
<1>10. CrashRecoversStatus'
  BY DEF CrashRecoversStatus, StatusToRecover, Compacted, KnownToLog, Write
<1>11. LogSetsFollowStatus'
  BY DEF LogSetsFollowStatus, Live, Terminal
<1> QED BY <1>7, <1>8, <1>9, <1>10, <1>11

LEMMA CancelInv ==
  ASSUME QueueInv, NEW S \in SUBSET Task, \A t \in S : Known(t), CancelSet(S)
  PROVE  QueueInv'
<1> USE DEF QueueInv, CancelSet, Known, Write, KnownToLog
<1>1. TypeOK'
  <2>1. task' \in [Task -> TaskRecord]
    BY FinishedRecord DEF TypeOK, Terminal
  <2>2. walTask' \in [Task -> TaskRecord]
    BY LogFinishType DEF TypeOK, Terminal
  <2>3. QED BY <2>1, <2>2 DEF TypeOK, LogFinish
<1> USE DEF TypeOK, TaskRecord, Finished, LogFinish
<1>2. NoQueuedTaskLost' BY DEF NoQueuedTaskLost
<1>3. IdSetsFollowStatus' BY DEF IdSetsFollowStatus, StatusIs, Live, Terminal
<1>4. CrashRecoversStatus'
  BY DEF CrashRecoversStatus, StatusToRecover, Compacted, Live
<1>5. LogSetsFollowStatus' BY DEF LogSetsFollowStatus, Live, Terminal
<1> QED BY <1>1, <1>2, <1>3, <1>4, <1>5

LEMMA DequeueNoneInv ==
  ASSUME QueueInv, NEW a, DequeueNone(a) PROVE QueueInv'
BY DEF QueueInv, DequeueNone, log, TypeOK, NoQueuedTaskLost, IdSetsFollowStatus,
       StatusIs, CrashRecoversStatus, StatusToRecover, Compacted,
       LogSetsFollowStatus

LEMMA CloseInv ==
  ASSUME QueueInv, Close PROVE QueueInv'
<1> USE DEF QueueInv, Close, memory
<1>1. \A u \in Task :
        /\ Compacted(u) \in TaskRecord
        /\ Compacted(u).status \in {"QUEUED", "absent"}
  BY RecordTypes, RequeuedRecord DEF TypeOK, Compacted, Absent
<1>2. TypeOK' BY <1>1 DEF TypeOK
<1>3. NoQueuedTaskLost' BY DEF NoQueuedTaskLost
<1>4. IdSetsFollowStatus' BY DEF IdSetsFollowStatus, StatusIs
<1>5. \A u \in Task : Compacted(u)' = Compacted(u) BY DEF Compacted
<1>6. CrashRecoversStatus'
  BY <1>1, <1>5 DEF CrashRecoversStatus, StatusToRecover
<1>7. LogSetsFollowStatus'
  BY <1>1 DEF LogSetsFollowStatus, Live, Terminal
<1> QED BY <1>2, <1>3, <1>4, <1>6, <1>7

LEMMA ReopenInv ==
  ASSUME QueueInv, Reopen PROVE QueueInv'
<1> USE DEF QueueInv, Reopen, KnownToLog
<1>1. TypeOK' BY DEF TypeOK
<1>2. NoQueuedTaskLost' BY DEF TypeOK, NoQueuedTaskLost
<1>3. IdSetsFollowStatus'
  BY DEF TypeOK, IdSetsFollowStatus, LogSetsFollowStatus, StatusIs, Live, Terminal
<1>4. CrashRecoversStatus' BY DEF CrashRecoversStatus, StatusToRecover
<1>5. LogSetsFollowStatus' BY DEF LogSetsFollowStatus
<1> QED BY <1>1, <1>2, <1>3, <1>4, <1>5

LEMMA ReleasedInv ==
  ASSUME QueueInv, NEW t \in Task, FailReleased(t)
  PROVE  QueueInv'
<1>1. task[t] \in TaskRecord /\ Released(task[t]) \in TaskRecord
  BY DEF QueueInv, TypeOK, Released, TaskRecord
<1> QED BY <1>1, RetryInv, GiveUpInv DEF FailReleased

LEMMA NextInv == QueueInv /\ [Next]_queue => QueueInv'
<1> SUFFICES ASSUME QueueInv, [Next]_queue PROVE QueueInv'
  OBVIOUS
<1>1. ASSUME NEW t \in Task, Enqueue(t) PROVE QueueInv' BY <1>1, EnqueueInv
<1>2. ASSUME NEW t \in Task, PutBack(t) PROVE QueueInv' BY <1>2, PutBackInv
<1>3. ASSUME NEW t \in Task, Complete(t) PROVE QueueInv' BY <1>3, CompleteInv
<1>4. ASSUME NEW t \in Task, Cancel(t) PROVE QueueInv'
  BY <1>4, CancelInv DEF Cancel
<1>5. ASSUME NEW t \in Task, NEW n \in Node, NEW a \in Tag \cup {NoTag},
             Assign(t, n, a)
      PROVE  QueueInv'
  BY <1>5, AssignInv
<1>6. ASSUME NEW t \in Task, NEW retry \in BOOLEAN, Fail(t, retry) PROVE QueueInv'
  <2>1. task[t] \in TaskRecord
    BY DEF QueueInv, TypeOK
  <2> QED BY <1>6, <2>1, RetryInv, GiveUpInv DEF Fail
<1>7. ASSUME NEW a \in Tag \cup {NoTag}, DequeueNone(a) PROVE QueueInv'
  BY <1>7, DequeueNoneInv
<1>8. ASSUME NEW F \in {Live, {"QUEUED"}, {"ASSIGNED"}}, CancelAll(F)
      PROVE  QueueInv'
  <2>1. \A t \in StatusIs(Live \cap F) : Known(t)
    BY DEF StatusIs, Known, Live
  <2>2. StatusIs(Live \cap F) \in SUBSET Task BY DEF StatusIs
  <2>3. QED BY <1>8, <2>1, <2>2, CancelInv DEF CancelAll
<1>9. CASE Close BY <1>9, CloseInv
<1>10. CASE Reopen BY <1>10, ReopenInv
<1>11. CASE UNCHANGED queue
  BY <1>11 DEF queue, memory, log, QueueInv, TypeOK, NoQueuedTaskLost,
     IdSetsFollowStatus, StatusIs, CrashRecoversStatus, StatusToRecover,
     Compacted, LogSetsFollowStatus
<1> QED
  BY <1>1, <1>2, <1>3, <1>4, <1>5, <1>6, <1>7, <1>8, <1>9, <1>10, <1>11 DEF Next

\* The inductive invariant holds in every behaviour of the queue.
THEOREM QueueInvariant == Spec => []QueueInv
BY InitInv, NextInv, PTL DEF Spec

\* Every variable of the queue keeps its type.
THEOREM QueueTypeCorrect == Spec => []TypeOK
BY QueueInvariant, PTL DEF QueueInv

\* A queued task always has a heap entry and is counted in queue_depth.
THEOREM QueuedTasksKept == Spec => []NoQueuedTaskLost
BY QueueInvariant, PTL DEF QueueInv

\* The id sets of the queue agree with the statuses of its tasks.
THEOREM IdSetsCorrect == Spec => []IdSetsFollowStatus
BY QueueInvariant, PTL DEF QueueInv

\* Whenever the process crashes, replaying the log gives back the status of
\* every task whose entries were written.
THEOREM CrashRecovery == Spec => []CrashRecoversStatus
BY QueueInvariant, PTL DEF QueueInv
-----------------------------------------------------------------------------
\* The queue implements the ledger

\* Whatever a replay or the memory knows was submitted once.
KnownWasUsed == \A t \in Task : Known(t) \/ KnownToLog(t) => t \in used

LEMMA FailUsed ==
  ASSUME QueueInv, KnownWasUsed, NEW t \in Task, Known(t),
         Retry(t) \/ GiveUp(t, task[t]) \/ GiveUp(t, Released(task[t]))
  PROVE  KnownWasUsed'
BY DEF KnownWasUsed, Known, KnownToLog, QueueInv, TypeOK, Retry, GiveUp, LogEnqueue, LogFinish

LEMMA KnownWasUsedKept ==
  ASSUME QueueInv, KnownWasUsed, [Next]_queue
  PROVE  KnownWasUsed'
<1> USE DEF KnownWasUsed, Known, KnownToLog, QueueInv, TypeOK
<1>1. ASSUME NEW t \in Task, Enqueue(t) PROVE KnownWasUsed'
  BY <1>1 DEF Enqueue, LogEnqueue
<1>2. ASSUME NEW t \in Task, PutBack(t) PROVE KnownWasUsed'
  BY <1>2 DEF PutBack, LogEnqueue, IsNext, Candidates
<1>3. ASSUME NEW t \in Task, Complete(t) PROVE KnownWasUsed'
  BY <1>3 DEF Complete, LogFinish
<1>4. ASSUME NEW S \in SUBSET Task, \A t \in S : Known(t), CancelSet(S)
      PROVE  KnownWasUsed'
  BY <1>4 DEF CancelSet, LogFinish
<1>5. ASSUME NEW t \in Task, NEW n \in Node, NEW a, Assign(t, n, a)
      PROVE  KnownWasUsed'
  BY <1>5 DEF Assign, LogAcknowledge, IsNext, Candidates
<1>6. ASSUME NEW t \in Task, NEW retry \in BOOLEAN, Fail(t, retry)
      PROVE  KnownWasUsed'
  BY <1>6, FailUsed DEF Fail
<1>7. ASSUME NEW a, DequeueNone(a) PROVE KnownWasUsed'
  BY <1>7 DEF DequeueNone, log
<1>8. ASSUME NEW F, CancelAll(F) PROVE KnownWasUsed'
  <2>1. \A t \in StatusIs(Live \cap F) : Known(t)
    BY DEF StatusIs, Live
  <2> QED  BY <1>8, <2>1, <1>4 DEF CancelAll, StatusIs
<1>9. CASE Close
  BY <1>9 DEF Close, memory, Compacted, Live, Absent
<1>10. CASE Reopen
  BY <1>10 DEF Reopen
<1>11. CASE UNCHANGED queue
  BY <1>11 DEF queue, memory, log
<1> QED
  BY <1>1, <1>2, <1>3, <1>4, <1>5, <1>6, <1>7, <1>8, <1>9, <1>10, <1>11 DEF Next, Cancel

\* The status the ledger sees of a task
Seen(t) == task[t].status

\* A call that gives the tasks in S one status, and whose entries reach the file or
\* leave the tasks unsaved, is a change of the ledger.
LEMMA CallChangesLedger ==
  ASSUME NEW S \in SUBSET Task, NEW From, NEW to,
         \A t \in S : Seen(t) \in From,
         \A t \in Task : Seen(t)' = IF t \in S THEN to ELSE Seen(t),
         \E W \in SUBSET S : Write(S, W)
  PROVE  Ledger!Change(S, From, to)
<1>1. PICK W \in SUBSET S : Write(S, W)
  OBVIOUS
<1>2. \A t \in S : [u \in Task |-> task[u].status][t] \in From
  BY DEF Seen
<1>3. [t \in Task |-> task[t].status]' =
        [t \in Task |-> IF t \in S THEN to ELSE [u \in Task |-> task[u].status][t]]
  BY DEF Seen
<1>4. dirty \subseteq dirty' /\ dirty' \subseteq dirty \cup S
  BY <1>1 DEF Write
<1>5. walState = "compacted" => S \subseteq dirty'
  BY <1>1 DEF Write
<1>6. (walState = "compacted")' = (walState = "compacted")
  BY <1>1 DEF Write
<1> QED  BY <1>2, <1>3, <1>4, <1>5, <1>6 DEF Ledger!Change

\* Each operation is one change of the ledger; dequeuing nothing is none.
LEMMA CallImplementsLedger ==
  ASSUME QueueInv, KnownWasUsed, NEW t \in Task,
         \/ Enqueue(t) \/ PutBack(t) \/ Complete(t)
         \/ \E n \in Node, a \in Tag \cup {NoTag} : Assign(t, n, a)
         \/ \E retry \in BOOLEAN : Fail(t, retry)
         \/ FailReleased(t)
  PROVE  Ledger!Next
<1> USE DEF Seen, QueueInv, TypeOK
<1>1. CASE Enqueue(t)
  <2>1. Seen(t) = "absent"
    BY <1>1 DEF Enqueue, KnownWasUsed, Known
  <2>2. Ledger!Change({t}, {"absent"}, "QUEUED")
    BY <1>1, <2>1, CallChangesLedger DEF Enqueue, NewTask
  <2> QED  BY <2>2 DEF Ledger!Next, Ledger!Submit
<1>2. CASE PutBack(t)
  <2>1. Ledger!Change({t}, Ledger!Live \cup Ledger!Terminal, "QUEUED")
    BY <1>2, CallChangesLedger
    DEF PutBack, IsNext, Candidates, Ledger!Live
  <2> QED  BY <2>1 DEF Ledger!Next, Ledger!Retry
<1>3. ASSUME Known(t), NEW s \in Terminal, NEW r \in TaskRecord,
             task' = [task EXCEPT ![t] = Finished(r, s)],
             \E W \in SUBSET {t} : Write({t}, W)
      PROVE  Ledger!Next
  <2>1. Seen(t) \in Ledger!Live \cup Ledger!Terminal
    BY <1>3 DEF Known, TaskRecord, Status, Live, Terminal, Ledger!Live, Ledger!Terminal
  <2>2. Ledger!Change({t}, Ledger!Live \cup Ledger!Terminal, s)
    BY <1>3, <2>1, CallChangesLedger DEF Finished, TaskRecord
  <2>3. s \in Ledger!Terminal
    BY DEF Terminal, Ledger!Terminal
  <2> QED  BY <2>2, <2>3 DEF Ledger!Next, Ledger!Finish
<1>4. CASE Complete(t)
  <2>1. task[t] \in TaskRecord /\ "COMPLETED" \in Terminal
    BY DEF Terminal
  <2> QED  BY <1>3, <1>4, <2>1 DEF Complete
<1>5. CASE \E n \in Node, a \in Tag \cup {NoTag} : Assign(t, n, a)
  <2>1. Ledger!Change({t}, {"QUEUED"}, "ASSIGNED")
    BY <1>5, CallChangesLedger, AssignedRecord DEF Assign, IsNext, Candidates
  <2> QED  BY <2>1 DEF Ledger!Next, Ledger!Take
<1>6. ASSUME Known(t), Retry(t) \/ \E r \in TaskRecord : GiveUp(t, r)
      PROVE  Ledger!Next
  <2>1. ASSUME NEW r \in TaskRecord, GiveUp(t, r) PROVE Ledger!Next
    BY <1>3, <1>6, <2>1 DEF GiveUp, Terminal
  <2>2. CASE Retry(t)
    <3>1. Seen(t) \in Ledger!Live \cup Ledger!Terminal
      BY <1>6 DEF Known, TaskRecord, Status, Live, Terminal, Ledger!Live,
         Ledger!Terminal
    <3>2. Ledger!Change({t}, Ledger!Live \cup Ledger!Terminal, "QUEUED")
      BY <2>2, <3>1, CallChangesLedger DEF Retry, Retried, TaskRecord
    <3> QED  BY <3>2 DEF Ledger!Next, Ledger!Retry
  <2> QED  BY <1>6, <2>1, <2>2
<1>7. CASE (\E retry \in BOOLEAN : Fail(t, retry)) \/ FailReleased(t)
  <2>1. task[t] \in TaskRecord /\ Released(task[t]) \in TaskRecord
    BY DEF Released, TaskRecord
  <2>2. Known(t) /\ (Retry(t) \/ GiveUp(t, task[t]) \/ GiveUp(t, Released(task[t])))
    BY <1>7 DEF Fail, FailReleased
  <2> QED  BY <1>6, <2>1, <2>2
<1> QED  BY <1>1, <1>2, <1>4, <1>5, <1>7

LEMMA CancelImplementsLedger ==
  ASSUME QueueInv, NEW S \in SUBSET Task, \A t \in S : Known(t), CancelSet(S)
  PROVE  Ledger!Next
<1> USE DEF Seen, QueueInv, TypeOK
<1>1. \A t \in S : Seen(t) \in Ledger!Live \cup Ledger!Terminal
  BY DEF Known, TaskRecord, Status, Live, Terminal, Ledger!Live, Ledger!Terminal
<1>2. Ledger!Change(S, Ledger!Live \cup Ledger!Terminal, "CANCELLED")
  BY <1>1, CallChangesLedger DEF CancelSet, Finished, TaskRecord
<1> QED  BY <1>2 DEF Ledger!Next, Ledger!Finish, Ledger!Terminal

\* A crash at any moment is a restart of the ledger.
LEMMA ReopenImplementsLedger ==
  ASSUME QueueInv, Reopen
  PROVE  Ledger!Next
<1> DEFINE status == [t \in Task |-> task[t].status]
<1>1. \A t \in Task : task'[t].status = walTask[t].status
  BY DEF Reopen
<1>2. status' \in [Task -> Ledger!Status]
  BY <1>1 DEF QueueInv, TypeOK, TaskRecord, Status, Live, Terminal, Ledger!Status,
     Ledger!Live, Ledger!Terminal
<1>3. ASSUME NEW t \in Task \ dirty
      PROVE  status'[t] = IF walState # "compacted" THEN status[t]
                          ELSE IF status[t] \in Ledger!Live THEN "QUEUED" ELSE "absent"
  <2>1. walTask[t].status = StatusToRecover(t)
    BY DEF QueueInv, CrashRecoversStatus
  <2>2. task[t].status \in Live => Compacted(t).status = "QUEUED"
    BY RequeuedRecord DEF Compacted, QueueInv, TypeOK
  <2>3. task[t].status \notin Live => Compacted(t).status = "absent"
    BY DEF Compacted, Absent
  <2> QED  BY <1>1, <2>1, <2>2, <2>3 DEF StatusToRecover, Live, Ledger!Live
<1>4. Ledger!Restart
  BY <1>2, <1>3 DEF Ledger!Restart, Reopen
<1> QED  BY <1>4 DEF Ledger!Next

LEMMA StepImplementsLedger ==
  ASSUME QueueInv, KnownWasUsed, [Next]_queue
  PROVE  [Ledger!Next]_<<[t \in Task |-> task[t].status], dirty, walState = "compacted">>
<1>1. ASSUME NEW a, DequeueNone(a)
      PROVE  UNCHANGED <<[t \in Task |-> task[t].status], dirty, walState = "compacted">>
  BY <1>1 DEF DequeueNone, log
<1>2. ASSUME NEW t \in Task, Cancel(t) PROVE Ledger!Next
  BY <1>2, CancelImplementsLedger DEF Cancel
<1>3. ASSUME NEW F, CancelAll(F) PROVE Ledger!Next
  <2>1. \A t \in StatusIs(Live \cap F) : Known(t)
    BY DEF StatusIs, Known, Live
  <2> QED  BY <1>3, <2>1, CancelImplementsLedger DEF CancelAll, StatusIs
<1>4. CASE Close
  <2>1. UNCHANGED [t \in Task |-> task[t].status]
    BY <1>4 DEF Close, memory
  <2>2. CASE walState' = "compacted" /\ dirty' = {}
    BY <2>1, <2>2 DEF Ledger!Next, Ledger!Shut
  <2>3. CASE walState' = "closed" /\ walState # "compacted" /\ dirty' = dirty
    BY <2>1, <2>3
  <2> QED  BY <1>4, <2>2, <2>3 DEF Close
<1>5. CASE UNCHANGED queue
  BY <1>5 DEF queue, memory, log
<1> QED
  BY <1>1, <1>2, <1>3, <1>4, <1>5, CallImplementsLedger, ReopenImplementsLedger DEF Next

\* The queue, with its heap, id sets and log hidden, is a ledger of statuses: every
\* call changes the statuses as its name says, and whenever the process crashes the
\* queue that is opened next knows the status of every task whose entries were written.
THEOREM QueueRefinesLedger == Spec => ImplementsLedger
<1>1. Init => Ledger!Init
  BY DEF Init, Ledger!Init, Absent
<1>2. Init => KnownWasUsed
  BY DEF Init, KnownWasUsed, Known, KnownToLog, Absent
<1>3. Spec => []KnownWasUsed
  BY <1>2, KnownWasUsedKept, QueueInvariant, PTL DEF Spec
<1> QED
  BY <1>1, <1>3, StepImplementsLedger, QueueInvariant, PTL
  DEF Spec, ImplementsLedger, Ledger!Spec

-----------------------------------------------------------------------------
\* The coordinator

HIDE QueueAssumption
USE CoordinatorAssumption

\* A poll under way: the tasks it has taken and the ones it may still take find
\* room among the workers of the node.
PollHandler == [op : {"poll", "answer"}, node : Node, left : Nat,
                got : SUBSET Task, tag : Tag \cup {NoTag}]

HandlerOK ==
  \/ ctl = Idle
  \/ ctl.op = "assign"
  \/ ctl \in PollHandler
  \/ ctl \in [op : {"reassign"}, todo : SUBSET Task]

\* The tasks whose workers run and were never restarted
OnSlots(n) == {t \in running[n] : worker[n][t] = "running"}

PollFits ==
  ctl \in PollHandler =>
    /\ Cardinality(OnSlots(ctl.node)) + Cardinality(ctl.got) + ctl.left <= MaxWorkers
    /\ ctl.op = "poll" => ctl.left > 0

\* What a poll has taken is assigned to the node it answers.
PolledIsAssigned ==
  ctl \in PollHandler =>
    \A t \in ctl.got : task[t].status = "ASSIGNED" /\ task[t].node = ctl.node

\* A task that nobody made available again runs on one node.
RunsOnce ==
  \A n, m \in Node : \A t \in (running[n] \cap running[m]) \ requeued : n = m

RunningWasUsed == \A n \in Node : running[n] \subseteq used

\* What a compacted log would queue again is known to be available again, or was
\* assigned since and could not be written.
CompactedIsRequeued ==
  walState = "compacted" => StatusIs({"ASSIGNED"}) \subseteq requeued \cup dirty

\* The inductive invariant.
GridInv ==
  /\ QueueInv /\ KnownWasUsed
  /\ CTypeOK /\ HandlerOK /\ PollFits /\ WithinCapacity
  /\ RunningTaskIsAssigned /\ PolledIsAssigned /\ RunsOnce /\ RunningWasUsed
  /\ CompactedIsRequeued

-----------------------------------------------------------------------------
\* The coordinator uses the queue through its operations, but for the loop that clears
\* the node of a task before it fails it.

QueueStep == Next \/ \E t \in Task : FailReleased(t)

LEMMA QueueStepInv ==
  ASSUME QueueInv, KnownWasUsed, [QueueStep]_queue
  PROVE  QueueInv' /\ KnownWasUsed'
<1>1. CASE [Next]_queue
  BY <1>1, NextInv, KnownWasUsedKept
<1>2. ASSUME NEW t \in Task, FailReleased(t) PROVE QueueInv' /\ KnownWasUsed'
  BY <1>2, ReleasedInv, FailUsed DEF FailReleased
<1> QED  BY <1>1, <1>2 DEF QueueStep

LEMMA PollHandlerKnown ==
  ASSUME HandlerOK, ctl.op \in {"poll", "answer"}
  PROVE  ctl \in PollHandler
BY DEF HandlerOK, PollHandler, Idle

LEMMA LoopUsesQueue ==
  ASSUME HandlerOK, LoopStep
  PROVE  [QueueStep]_queue
<1>1. ASSUME NEW t \in Task, AssignStep(t) PROVE QueueStep
  <2>1. PICK n \in BestNodes(t) : Assign(t, n, NoTag)
    BY <1>1 DEF AssignStep
  <2>2. n \in Node
    BY <2>1 DEF BestNodes, Suitable, Capable, WithSlot
  <2> QED  BY <2>1, <2>2 DEF QueueStep, Next
<1>2. ASSUME NEW t \in Task, AssignPutBack(t) PROVE QueueStep
  BY <1>2 DEF AssignPutBack, QueueStep, Next
<1>3. ASSUME NEW t \in Task, ReassignStep(t) PROVE QueueStep
  BY <1>3 DEF ReassignStep, QueueStep
<1>4. CASE AssignNone
  BY <1>4 DEF AssignNone, QueueStep, Next
<1>5. CASE PollAnswer
  BY <1>5 DEF PollAnswer
<1>6. ASSUME NEW t \in Task, PollStep(t) PROVE QueueStep
  BY <1>6, PollHandlerKnown DEF PollStep, PollHandler, QueueStep, Next
<1>7. CASE PollNone
  BY <1>7, PollHandlerKnown DEF PollNone, PollHandler, QueueStep, Next
<1> QED  BY <1>1, <1>2, <1>3, <1>4, <1>5, <1>6, <1>7 DEF LoopStep

WorkerStep(n, t) == WorkerCrashes(n, t) \/ WorkerRestarts(n, t) \/ WorkerEnds(n, t)

LEMMA StepUsesQueue ==
  ASSUME HandlerOK, [CNext]_vars
  PROVE  [QueueStep]_queue
<1>1. ASSUME NEW t \in Task, SubmitTask(t) \/ CancelTask(t) PROVE QueueStep
  BY <1>1 DEF SubmitTask, CancelTask, QueueStep, Next
<1>2. ASSUME NEW n \in Node, Heartbeat(n) \/ PollTasks(n) \/ HeartbeatAges(n) \/ NodeDies(n)
      PROVE  UNCHANGED queue
  BY <1>2 DEF Heartbeat, PollTasks, HeartbeatAges, NodeDies
<1>3. ASSUME NEW n \in Node, NEW t \in Task, LoseReport(n, t) \/ WorkerStep(n, t)
      PROVE  UNCHANGED queue
  BY <1>3 DEF LoseReport, WorkerStep, WorkerCrashes, WorkerRestarts, WorkerEnds, WorkerMoves
<1>4. ASSUME NEW n \in Node, NEW t \in Task, NEW b \in BOOLEAN, ReportResult(n, t, b)
      PROVE  [QueueStep]_queue
  BY <1>4 DEF ReportResult, QueueStep, Next
<1>5. CASE Reassign \/ StaleNodeCleanup
  BY <1>5 DEF Reassign, StaleNodeCleanup
<1>6. CASE Stop \/ Start \/ Crash
  BY <1>6 DEF Stop, Start, Crash, FreshStart, QueueStep, Next
<1>7. CASE UNCHANGED vars
  BY <1>7 DEF vars
<1> QED
  BY <1>1, <1>2, <1>3, <1>4, <1>5, <1>6, <1>7, LoopUsesQueue DEF CNext, WorkerStep

-----------------------------------------------------------------------------
\* What the operations of the queue do to a task that a node may be running

\* Only tasks in S change, and only their entries may fail to be written.
Touches(S) ==
  /\ \A t \in Task \ S : task'[t] = task[t]
  /\ walState' = walState
  /\ dirty \subseteq dirty' /\ used \subseteq used'
  /\ walState = "compacted" =>
       \A t \in S : task'[t].status = "ASSIGNED" => t \in dirty'

LEMMA AssignTouches ==
  ASSUME QueueInv, NEW t \in Task, NEW n \in Node, NEW a, Assign(t, n, a)
  PROVE  /\ Touches({t})
         /\ task[t].status = "QUEUED"
         /\ task'[t].status = "ASSIGNED" /\ task'[t].node = n
<1>1. task[t].status = "QUEUED"
  BY DEF Assign, IsNext, Candidates
<1>2. task'[t].status = "ASSIGNED" /\ task'[t].node = n
  BY AssignedRecord DEF Assign, QueueInv, TypeOK
<1>3. Touches({t})
  BY DEF Touches, Assign, Write, QueueInv, TypeOK
<1> QED  BY <1>1, <1>2, <1>3

LEMMA UnassignedTouches ==
  ASSUME QueueInv, NEW t \in Task, PutBack(t)
  PROVE  Touches({}) /\ task' = task
BY DEF Touches, PutBack, Write

LEMMA EnqueueTouches ==
  ASSUME QueueInv, KnownWasUsed, NEW t \in Task, Enqueue(t)
  PROVE  /\ Touches({t}) /\ t \notin used
         /\ task[t].status = "absent" /\ task'[t].status = "QUEUED"
BY DEF Touches, Enqueue, Write, KnownWasUsed, Known, NewTask, QueueInv, TypeOK

LEMMA FinishTouches ==
  ASSUME QueueInv, NEW t \in Task,
         Complete(t) \/ Fail(t, TRUE) \/ FailReleased(t) \/ Cancel(t)
  PROVE  /\ Touches({t})
         /\ task[t].status # "absent" /\ task'[t].status # "ASSIGNED"
<1> USE DEF Touches, Write, Known, QueueInv, TypeOK, TaskRecord
<1>1. CASE Complete(t)
  BY <1>1 DEF Complete, Finished
<1>2. CASE Fail(t, TRUE) \/ FailReleased(t)
  <2>1. CASE Known(t) /\ Retry(t)
    BY <2>1 DEF Retry, Retried
  <2>2. ASSUME Known(t), NEW r \in TaskRecord, GiveUp(t, r)
        PROVE  Touches({t}) /\ task[t].status # "absent" /\ task'[t].status # "ASSIGNED"
    BY <2>2 DEF GiveUp, Finished
  <2>3. task[t] \in TaskRecord /\ Released(task[t]) \in TaskRecord
    BY DEF Released
  <2> QED  BY <1>2, <2>1, <2>2, <2>3 DEF Fail, FailReleased
<1>3. CASE Cancel(t)
  BY <1>3 DEF Cancel, CancelSet, Finished
<1> QED  BY <1>1, <1>2, <1>3

LEMMA CancelResult ==
  ASSUME QueueInv, NEW t \in Task, Cancel(t)
  PROVE  task'[t].status = "CANCELLED"
BY DEF Cancel, CancelSet, Finished, QueueInv, TypeOK, TaskRecord

-----------------------------------------------------------------------------
\* Lemmas the steps share

LEMMA TaskSets ==
  ASSUME NEW S \in SUBSET Task, NEW T \in SUBSET Task
  PROVE  /\ Cardinality(S) \in Nat
         /\ S \subseteq T => Cardinality(S) <= Cardinality(T)
         /\ Cardinality(S \cup T) <= Cardinality(S) + Cardinality(T)
<1>1. IsFiniteSet(S) /\ IsFiniteSet(T)
  BY FS_Subset
<1>2. Cardinality(S) \in Nat /\ Cardinality(T) \in Nat /\ Cardinality(S \cap T) \in Nat
  BY <1>1, FS_CardinalityType, FS_Intersection
<1>3. Cardinality(S \cup T) = Cardinality(S) + Cardinality(T) - Cardinality(S \cap T)
  BY <1>1, FS_Union
<1> QED  BY <1>1, <1>2, <1>3, FS_Subset

\* What nodes run stays assigned as long as nobody else's call touches it.
LEMMA RunningKept ==
  ASSUME GridInv, \A n \in Node : running'[n] \subseteq running[n],
         requeued \subseteq requeued', used \subseteq used',
         \A n \in Node : \A t \in running'[n] \ requeued' :
           task'[t] = task[t] \/ task'[t].status \in {"CANCELLED", "absent"}
  PROVE  RunningTaskIsAssigned' /\ RunsOnce' /\ RunningWasUsed'
<1>1. RunningTaskIsAssigned'
  <2> SUFFICES ASSUME NEW n \in Node, NEW t \in running'[n] \ requeued'
               PROVE  \/ task'[t].status = "ASSIGNED" /\ task'[t].node = n
                      \/ task'[t].status \in {"CANCELLED", "absent"}
    BY DEF RunningTaskIsAssigned
  <2>1. t \in running[n] \ requeued
    OBVIOUS
  <2> QED  BY <2>1 DEF GridInv, RunningTaskIsAssigned
<1>2. RunsOnce'
  BY DEF GridInv, RunsOnce
<1>3. RunningWasUsed'
  BY DEF GridInv, RunningWasUsed
<1> QED  BY <1>1, <1>2, <1>3

LEMMA CompactedKept ==
  ASSUME GridInv, NEW S, Touches(S), requeued \subseteq requeued'
  PROVE  CompactedIsRequeued'
<1> SUFFICES ASSUME walState = "compacted", NEW t \in Task, task'[t].status = "ASSIGNED"
             PROVE  t \in requeued' \cup dirty'
  BY DEF CompactedIsRequeued, StatusIs, Touches
<1>1. CASE t \in S
  BY <1>1 DEF Touches
<1>2. CASE t \notin S
  BY <1>2 DEF Touches, GridInv, CompactedIsRequeued, StatusIs
<1> QED  BY <1>1, <1>2

\* With no poll under way there is nothing to say about what it took.
LEMMA NoPoll ==
  ASSUME ctl'.op \notin {"poll", "answer"}
  PROVE  PollFits' /\ PolledIsAssigned'
BY DEF PollFits, PolledIsAssigned, PollHandler

\* The invariant but for the part that NextInv and KnownWasUsedKept cover
HandlerInv ==
  /\ CTypeOK /\ HandlerOK /\ PollFits /\ WithinCapacity
  /\ RunningTaskIsAssigned /\ PolledIsAssigned /\ RunsOnce /\ RunningWasUsed
  /\ CompactedIsRequeued

\* One iteration of try_assign's loop
LEMMA AssigningInv ==
  ASSUME GridInv, QueueInv',
         AssignNone \/ \E t \in Task : AssignStep(t) \/ AssignPutBack(t)
  PROVE  HandlerInv'
<1>1. UNCHANGED <<active, reg, load, up, running, worker, requeued>>
  BY DEF AssignStep, AssignPutBack, AssignNone, nodes, env, pool
<1>2. ctl'.op \in {"idle", "assign"} /\ HandlerOK'
  BY DEF AssignStep, AssignPutBack, AssignNone, Assigning, Idle, HandlerOK
<1>3. CTypeOK' /\ WithinCapacity'
  BY <1>1, <1>2 DEF GridInv, CTypeOK, WithinCapacity, QueueInv
<1>4. ASSUME NEW t \in Task, AssignStep(t)
      PROVE  Touches({t}) /\ task[t].status = "QUEUED"
  <2>1. PICK n \in BestNodes(t) : Assign(t, n, NoTag)
    BY <1>4 DEF AssignStep
  <2>2. n \in Node
    BY <2>1 DEF BestNodes, Suitable, Capable, WithSlot
  <2> QED  BY <2>1, <2>2, AssignTouches DEF GridInv
<1>5. ASSUME NEW t \in Task, AssignPutBack(t) PROVE Touches({}) /\ task' = task
  BY <1>5, UnassignedTouches DEF GridInv, AssignPutBack
<1>6. ASSUME AssignNone PROVE Touches({}) /\ task' = task
  BY <1>6 DEF AssignNone, DequeueNone, Touches, log
<1>7. \/ \E t \in Task : Touches({t}) /\ task[t].status = "QUEUED"
      \/ Touches({}) /\ task' = task
  BY <1>4, <1>5, <1>6
<1>8. RunningTaskIsAssigned' /\ RunsOnce' /\ RunningWasUsed'
  BY <1>1, <1>7, RunningKept DEF Touches, GridInv, RunningTaskIsAssigned, CTypeOK
<1>9. CompactedIsRequeued'
  BY <1>1, <1>7, CompactedKept
<1> QED  BY <1>2, <1>3, <1>8, <1>9, NoPoll DEF HandlerInv

\* poll_tasks, one task at a time
LEMMA PollStepInv ==
  ASSUME GridInv, QueueInv', NEW t \in Task, PollStep(t)
  PROVE  HandlerInv'
<1>1. ctl \in PollHandler /\ UNCHANGED <<active, reg, load, up, running, worker, requeued>>
  BY PollHandlerKnown DEF PollStep, GridInv, nodes, env, pool
<1>2. /\ Touches({t}) /\ task[t].status = "QUEUED"
      /\ task'[t].status = "ASSIGNED" /\ task'[t].node = ctl.node
  BY <1>1, AssignTouches DEF PollStep, PollHandler, GridInv
<1>3. ctl.left \in Nat /\ ctl.left > 0
  BY <1>1 DEF PollFits, PollHandler, GridInv, PollStep
<1>4. /\ ctl' \in PollHandler
      /\ ctl'.node = ctl.node /\ ctl'.left = ctl.left - 1 /\ ctl'.got = ctl.got \cup {t}
      /\ ctl'.op = "poll" => ctl'.left > 0
  BY <1>1, <1>3 DEF PollStep, Polling, PollHandler
<1>5. HandlerOK' /\ CTypeOK' /\ WithinCapacity'
  BY <1>1, <1>4 DEF HandlerOK, GridInv, CTypeOK, WithinCapacity, PollHandler, QueueInv
<1>6. PollFits'
  <2>1. Cardinality(ctl.got \cup {t}) <= Cardinality(ctl.got) + 1
    <3>1. ctl.got \in SUBSET Task /\ {t} \in SUBSET Task
      BY <1>1 DEF PollHandler
    <3>2. Cardinality({t}) = 1
      BY FS_Singleton
    <3> QED  BY <3>1, <3>2, TaskSets
  <2>2. /\ Cardinality(ctl.got) \in Nat /\ Cardinality(ctl.got \cup {t}) \in Nat
        /\ Cardinality(OnSlots(ctl.node)) \in Nat
    <3>1. ctl.got \in SUBSET Task /\ OnSlots(ctl.node) \in SUBSET Task
      BY <1>1 DEF PollHandler, GridInv, CTypeOK, OnSlots
    <3> QED  BY <3>1, TaskSets
  <2>3. Cardinality(OnSlots(ctl.node)) + Cardinality(ctl.got) + ctl.left <= MaxWorkers
    BY <1>1 DEF PollFits, GridInv
  <2>4. OnSlots(ctl.node)' = OnSlots(ctl.node)
    BY <1>1, <1>4 DEF OnSlots
  <2> QED  BY <1>1, <1>3, <1>4, <2>1, <2>2, <2>3, <2>4 DEF PollFits
<1>7. PolledIsAssigned'
  BY <1>1, <1>2, <1>4 DEF PolledIsAssigned, GridInv, Touches, PollHandler
<1>8. RunningTaskIsAssigned' /\ RunsOnce' /\ RunningWasUsed'
  BY <1>1, <1>2, RunningKept DEF Touches, GridInv, RunningTaskIsAssigned, CTypeOK
<1>9. CompactedIsRequeued'
  BY <1>1, <1>2, CompactedKept
<1> QED  BY <1>5, <1>6, <1>7, <1>8, <1>9 DEF HandlerInv

LEMMA PollNoneInv ==
  ASSUME GridInv, QueueInv', PollNone
  PROVE  HandlerInv'
<1>1. ctl \in PollHandler /\ UNCHANGED <<active, reg, load, up, running, worker, requeued>>
  BY PollHandlerKnown DEF PollNone, GridInv, nodes, env, pool
<1>2. Touches({}) /\ task' = task
  BY DEF PollNone, DequeueNone, Touches, log
<1>3. /\ ctl' \in PollHandler
      /\ ctl'.node = ctl.node /\ ctl'.left = ctl.left /\ ctl'.got = ctl.got
      /\ ctl'.op = "poll" => ctl.op = "poll"
  BY <1>1 DEF PollNone, PollHandler
<1>4. HandlerOK' /\ CTypeOK' /\ WithinCapacity'
  BY <1>1, <1>3 DEF HandlerOK, GridInv, CTypeOK, WithinCapacity, PollHandler, QueueInv
<1>5. PollFits' /\ PolledIsAssigned'
  BY <1>1, <1>2, <1>3 DEF PollFits, PolledIsAssigned, GridInv, OnSlots
<1>6. RunningTaskIsAssigned' /\ RunsOnce' /\ RunningWasUsed'
  BY <1>1, <1>2, RunningKept DEF Touches
<1>7. CompactedIsRequeued'
  BY <1>1, <1>2, CompactedKept
<1> QED  BY <1>4, <1>5, <1>6, <1>7 DEF HandlerInv

\* The answer of poll_tasks reaches the node or is lost.
LEMMA PollAnswerInv ==
  ASSUME GridInv, QueueInv', PollAnswer
  PROVE  HandlerInv'
<1>1. ctl \in PollHandler /\ UNCHANGED <<queue, active, reg, load, up, requeued>>
  BY PollHandlerKnown DEF PollAnswer, GridInv, nodes
<1>2. ctl' = Idle /\ ctl'.op = "idle" /\ HandlerOK'
  BY DEF PollAnswer, HandlerOK, Idle
<1>3. UNCHANGED <<task, used, walState, dirty>>
  BY <1>1 DEF queue, memory, log
<1>4. CASE UNCHANGED <<running, worker>>
  <2>1. CTypeOK' /\ WithinCapacity'
    BY <1>1, <1>2, <1>4 DEF GridInv, CTypeOK, WithinCapacity, QueueInv
  <2>2. RunningTaskIsAssigned' /\ RunsOnce' /\ RunningWasUsed'
    BY <1>1, <1>3, <1>4, RunningKept
  <2>3. CompactedIsRequeued'
    BY <1>1, <1>3 DEF GridInv, CompactedIsRequeued, StatusIs
  <2> QED  BY <1>2, <2>1, <2>2, <2>3, NoPoll DEF HandlerInv
<1>5. CASE /\ running' = [running EXCEPT ![ctl.node] = @ \cup ctl.got]
           /\ worker' = [worker EXCEPT ![ctl.node] =
                           [t \in Task |-> IF t \in ctl.got THEN "running" ELSE @[t]]]
  <2>1. ctl.node \in Node /\ ctl.got \subseteq Task /\ running \in [Node -> SUBSET Task]
        /\ ctl.left \in Nat
    BY <1>1 DEF PollHandler, GridInv, CTypeOK
  <2>2. \A n \in Node : running'[n] = IF n = ctl.node THEN running[n] \cup ctl.got
                                      ELSE running[n]
    BY <1>5, <2>1
  <2> DEFINE n0 == ctl.node
  <2>w. /\ worker' \in [Node -> [Task -> WorkerPhase]]
        /\ \A n \in Node : n # n0 => worker'[n] = worker[n]
        /\ \A t \in Task \ ctl.got : worker'[n0][t] = worker[n0][t]
    BY <1>5, <2>1 DEF GridInv, CTypeOK, WorkerPhase
  <2>3. WithinCapacity'
    <3>0. OnSlots(n0) \in SUBSET Task /\ ctl.got \in SUBSET Task
      BY <2>1 DEF OnSlots
    <3>1. /\ Cardinality(OnSlots(n0) \cup ctl.got)
               <= Cardinality(OnSlots(n0)) + Cardinality(ctl.got)
          /\ Cardinality(OnSlots(n0)) \in Nat /\ Cardinality(ctl.got) \in Nat
          /\ Cardinality(OnSlots(n0) \cup ctl.got) \in Nat
      BY <3>0, TaskSets
    <3>2. Cardinality(OnSlots(n0)) + Cardinality(ctl.got) + ctl.left <= MaxWorkers
      BY <1>1 DEF PollFits, GridInv
    <3>3. Cardinality({t \in running'[n0] : worker'[n0][t] = "running"}) <= MaxWorkers
      <4> DEFINE now == {t \in running'[n0] : worker'[n0][t] = "running"}
      <4>1. now \subseteq OnSlots(n0) \cup ctl.got /\ now \in SUBSET Task
        BY <2>1, <2>2, <2>w DEF OnSlots
      <4>2. /\ Cardinality(now) \in Nat
            /\ Cardinality(now) <= Cardinality(OnSlots(n0) \cup ctl.got)
        BY <3>0, <4>1, TaskSets
      <4> HIDE DEF now
      <4>3. Cardinality(now) <= MaxWorkers
        BY <2>1, <3>1, <3>2, <4>2, CoordinatorAssumption
      <4> QED  BY <4>3 DEF now
    <3>4. ASSUME NEW n \in Node, n # n0
          PROVE  Cardinality({t \in running'[n] : worker'[n][t] = "running"}) <= MaxWorkers
      <4>1. running'[n] = running[n] /\ worker'[n] = worker[n]
        BY <2>2, <2>w, <3>4
      <4> QED  BY <4>1 DEF WithinCapacity, GridInv
    <3> QED  BY <3>3, <3>4 DEF WithinCapacity
  <2>4. CTypeOK'
    BY <1>1, <1>2, <1>5, <2>1, <2>w DEF GridInv, CTypeOK, QueueInv
  <2>5. \A t \in ctl.got : task[t].status = "ASSIGNED" /\ task[t].node = ctl.node
    BY <1>1 DEF GridInv, PolledIsAssigned
  <2>6. \A n \in Node : \A t \in running'[n] :
          t \in running[n] \/ (n = ctl.node /\ t \in ctl.got)
    BY <2>2
  <2>7. \A n \in Node : \A t \in running[n] \ requeued :
          \/ task[t].status = "ASSIGNED" /\ task[t].node = n
          \/ task[t].status \in {"CANCELLED", "absent"}
    BY DEF GridInv, RunningTaskIsAssigned
  <2>8. \A n, m \in Node : \A t \in (running[n] \cap running[m]) \ requeued : n = m
    BY DEF GridInv, RunsOnce
  <2>9. RunningTaskIsAssigned'
    BY <1>1, <1>3, <2>5, <2>6, <2>7 DEF RunningTaskIsAssigned
  <2>10. RunsOnce'
    BY <1>1, <1>3, <2>5, <2>6, <2>7, <2>8 DEF RunsOnce
  <2>11. RunningWasUsed'
    BY <1>3, <2>1, <2>2, <2>5 DEF GridInv, RunningWasUsed, KnownWasUsed, Known
  <2>12. CompactedIsRequeued'
    BY <1>1, <1>3 DEF GridInv, CompactedIsRequeued, StatusIs
  <2> QED  BY <1>2, <2>3, <2>4, <2>9, <2>10, <2>11, <2>12, NoPoll DEF HandlerInv
<1> QED  BY <1>4, <1>5 DEF PollAnswer, pool

-----------------------------------------------------------------------------
\* Calls of clients and workers, and the background loops

LEMMA AssigningHandler ==
  ASSUME NEW depth, StartAssign(depth)
  PROVE  HandlerOK' /\ ctl'.op \in {"idle", "assign"}
BY DEF StartAssign, Assigning, HandlerOK, Idle

\* submit_task and cancel_task
LEMMA ClientInv ==
  ASSUME GridInv, QueueInv', NEW t \in Task, SubmitTask(t) \/ CancelTask(t)
  PROVE  HandlerInv'
<1>1. UNCHANGED <<active, reg, load, up, running, worker, requeued>>
  BY DEF SubmitTask, CancelTask, nodes, env, pool
<1>2. HandlerOK' /\ ctl'.op \in {"idle", "assign"}
  BY AssigningHandler DEF SubmitTask, CancelTask, HandlerOK, Idle
<1>3. CTypeOK' /\ WithinCapacity'
  BY <1>1, <1>2 DEF GridInv, CTypeOK, WithinCapacity, QueueInv
<1>4. Touches({t}) /\ (t \notin used \/ task'[t].status = "CANCELLED")
  BY EnqueueTouches, FinishTouches, CancelResult DEF SubmitTask, CancelTask, GridInv
<1>5. RunningTaskIsAssigned' /\ RunsOnce' /\ RunningWasUsed'
  BY <1>1, <1>4, RunningKept DEF Touches, GridInv, RunningWasUsed, CTypeOK
<1>6. CompactedIsRequeued'
  BY <1>1, <1>4, CompactedKept
<1> QED  BY <1>2, <1>3, <1>5, <1>6, NoPoll DEF HandlerInv

\* Calls and timers that leave the queue alone
LEMMA QuietInv ==
  ASSUME GridInv, QueueInv', UNCHANGED <<queue, running, worker, requeued>>,
         CTypeOK', HandlerOK', PollFits', ctl'.op \in {"poll", "answer"} => ctl'.got = {}
  PROVE  HandlerInv'
<1>1. UNCHANGED <<task, used, walState, dirty>>
  BY DEF queue, memory, log
<1>2. WithinCapacity' /\ PolledIsAssigned'
  BY DEF GridInv, WithinCapacity, PolledIsAssigned, PollHandler
<1>3. RunningTaskIsAssigned' /\ RunsOnce' /\ RunningWasUsed'
  BY <1>1, RunningKept
<1>4. CompactedIsRequeued'
  BY <1>1 DEF GridInv, CompactedIsRequeued, StatusIs
<1> QED  BY <1>2, <1>3, <1>4 DEF HandlerInv

LEMMA NodeCallInv ==
  ASSUME GridInv, QueueInv',
         \/ \E n \in Node : Heartbeat(n) \/ PollTasks(n) \/ HeartbeatAges(n)
         \/ Reassign \/ StaleNodeCleanup
  PROVE  HandlerInv'
<1> USE DEF nodes, env, pool
<1>0. /\ UNCHANGED <<queue, active, up, running, worker, requeued>> /\ ctl = Idle
      /\ CTypeOK /\ running \in [Node -> SUBSET Task]
  BY DEF Heartbeat, PollTasks, HeartbeatAges, Reassign, StaleNodeCleanup, GridInv, CTypeOK
<1>1. \A n \in Node : /\ Cardinality(OnSlots(n)) \in Nat /\ Cardinality(Active(n)) \in Nat
                      /\ Cardinality(OnSlots(n)) <= Cardinality(Active(n))
  <2>1. \A n \in Node : /\ OnSlots(n) \in SUBSET Task /\ Active(n) \in SUBSET Task
                        /\ OnSlots(n) \subseteq Active(n)
    BY <1>0 DEF OnSlots, Active
  <2> QED  BY <2>1, TaskSets
<1>2. ASSUME NEW n \in Node, Heartbeat(n) PROVE HandlerInv'
  <2>1. HandlerOK' /\ ctl'.op \in {"idle", "assign"}
    BY <1>2, AssigningHandler DEF Heartbeat
  <2>2. reg' \in [Node -> Age] /\ load' \in [Node -> Nat]
    <3>1. /\ reg \in [Node -> Age] /\ load \in [Node -> Nat]
          /\ Cardinality(Active(n)) \in Nat /\ 0 \in Nat
      BY <1>0, <1>1 DEF CTypeOK
    <3>2. /\ \E a \in {"none", "fresh"} : reg' = [reg EXCEPT ![n] = a]
          /\ \E k \in {0, Cardinality(Active(n))} : load' = [load EXCEPT ![n] = k]
      BY <1>2 DEF Heartbeat
    <3> QED  BY <3>1, <3>2 DEF Age
  <2>3. CTypeOK'
    BY <1>0, <2>1, <2>2 DEF CTypeOK, QueueInv
  <2> QED  BY <1>0, <2>1, <2>3, NoPoll, QuietInv
<1>3. ASSUME NEW n \in Node, PollTasks(n) PROVE HandlerInv'
  <2>0. load[n] \in Nat /\ MaxWorkers \in Nat
    BY <1>0 DEF CTypeOK
  <2>1. FreeSlots(n) \in Nat /\ FreeSlots(n) > 0
    <3>1. FreeSlots(n) \in Int /\ FreeSlots(n) > 0
      BY <1>1, <1>3, <2>0 DEF PollTasks, FreeSlots
    <3> QED  BY <3>1
  <2>2. /\ ctl' \in PollHandler /\ ctl'.op = "poll" /\ ctl'.node = n
        /\ ctl'.left = FreeSlots(n) /\ ctl'.got = {}
    BY <1>3, <2>1 DEF PollTasks, Polling, PollHandler
  <2>3. HandlerOK' /\ CTypeOK'
    BY <1>0, <1>3, <2>2 DEF HandlerOK, CTypeOK, PollTasks, QueueInv
  <2>4. FreeSlots(n) <= MaxWorkers - Cardinality(Active(n))
    BY <1>1, <2>0 DEF FreeSlots
  <2>5. PollFits'
    <3>1. Cardinality(OnSlots(n)) + Cardinality({}) + FreeSlots(n) <= MaxWorkers
      BY <1>1, <2>0, <2>1, <2>4, FS_EmptySet
    <3>2. OnSlots(n)' = OnSlots(n)
      BY <1>0 DEF OnSlots
    <3> QED  BY <2>1, <2>2, <3>1, <3>2 DEF PollFits
  <2> QED  BY <1>0, <2>2, <2>3, <2>5, QuietInv
<1>4. ASSUME NEW n \in Node, HeartbeatAges(n) PROVE HandlerInv'
  <2>1. HandlerOK' /\ CTypeOK' /\ ctl'.op = "idle"
    BY <1>0, <1>4 DEF HeartbeatAges, HandlerOK, CTypeOK, Age, QueueInv, Idle
  <2> QED  BY <1>0, <2>1, NoPoll, QuietInv
<1>5. CASE StaleNodeCleanup
  <2>1. HandlerOK' /\ CTypeOK' /\ ctl'.op = "idle"
    BY <1>0, <1>5 DEF StaleNodeCleanup, HandlerOK, CTypeOK, Age, QueueInv, Idle
  <2> QED  BY <1>0, <2>1, NoPoll, QuietInv
<1>6. CASE Reassign
  <2>1. HandlerOK' /\ CTypeOK' /\ ctl'.op = "reassign"
    BY <1>0, <1>6 DEF Reassign, HandlerOK, CTypeOK, QueueInv, OnDeadNode
  <2> QED  BY <1>0, <2>1, NoPoll, QuietInv
<1> QED  BY <1>2, <1>3, <1>4, <1>5, <1>6

\* Tasks disappear from a node, by a report, its loss, the death of the node, or their
\* workers give up their slots.
FewerOnSlots ==
  /\ UNCHANGED <<ctl, active, reg, load, requeued>> /\ up' \subseteq Node
  /\ running' \in [Node -> SUBSET Task] /\ worker' \in [Node -> [Task -> WorkerPhase]]
  /\ \A m \in Node : running'[m] \subseteq running[m]
  /\ \A m \in Node : \A t \in running'[m] :
       worker'[m][t] = "running" => worker[m][t] = "running"

LEMMA FewerRunning ==
  ASSUME GridInv, QueueInv', FewerOnSlots
  PROVE  HandlerOK' /\ CTypeOK' /\ WithinCapacity' /\ PollFits'
<1> USE DEF FewerOnSlots
<1>1. HandlerOK' /\ CTypeOK'
  BY DEF GridInv, HandlerOK, CTypeOK, QueueInv
<1>2. ASSUME NEW m \in Node
      PROVE  /\ Cardinality(OnSlots(m)') \in Nat /\ Cardinality(OnSlots(m)) \in Nat
             /\ Cardinality(OnSlots(m)') <= Cardinality(OnSlots(m))
  <2>1. OnSlots(m)' = {t \in running'[m] : worker'[m][t] = "running"}
    BY DEF OnSlots
  <2>2. /\ OnSlots(m)' \in SUBSET Task /\ OnSlots(m) \in SUBSET Task
        /\ OnSlots(m)' \subseteq OnSlots(m)
    BY <2>1 DEF OnSlots, GridInv, CTypeOK
  <2> QED  BY <2>2, TaskSets
<1>3. WithinCapacity'
  <2> SUFFICES ASSUME NEW m \in Node
               PROVE  Cardinality({t \in running'[m] : worker'[m][t] = "running"}) <= MaxWorkers
    BY DEF WithinCapacity
  <2>1. Cardinality(OnSlots(m)) <= MaxWorkers
    BY DEF GridInv, WithinCapacity, OnSlots
  <2>2. Cardinality(OnSlots(m)') <= MaxWorkers
    BY <1>2, <2>1
  <2> QED  BY <2>2 DEF OnSlots
<1>4. PollFits'
  <2> SUFFICES ASSUME ctl \in PollHandler
               PROVE  /\ Cardinality(OnSlots(ctl.node)') + Cardinality(ctl.got) + ctl.left
                           <= MaxWorkers
                      /\ ctl.op = "poll" => ctl.left > 0
    <3>1. OnSlots(ctl.node)' = {t \in running'[ctl.node] : worker'[ctl.node][t] = "running"}
      BY DEF OnSlots
    <3> QED  BY <3>1 DEF PollFits, OnSlots
  <2>1. ctl.node \in Node /\ ctl.left \in Nat /\ Cardinality(ctl.got) \in Nat
    BY TaskSets DEF PollHandler
  <2>2. /\ Cardinality(OnSlots(ctl.node)) + Cardinality(ctl.got) + ctl.left <= MaxWorkers
        /\ ctl.op = "poll" => ctl.left > 0
    BY DEF GridInv, PollFits
  <2>3. PICK m \in Node : m = ctl.node
    BY <2>1
  <2>4. /\ Cardinality(OnSlots(m)') \in Nat /\ Cardinality(OnSlots(m)) \in Nat
        /\ Cardinality(OnSlots(m)') <= Cardinality(OnSlots(m))
    BY <1>2
  <2>5. OnSlots(ctl.node)' = OnSlots(m)'
    BY <2>3 DEF OnSlots
  <2>6. Cardinality(OnSlots(m)) + Cardinality(ctl.got) + ctl.left <= MaxWorkers
    BY <2>2, <2>3
  <2>7. Cardinality(OnSlots(m)') + Cardinality(ctl.got) + ctl.left <= MaxWorkers
    BY <2>1, <2>4, <2>6
  <2> QED  BY <2>2, <2>5, <2>7
<1> QED  BY <1>1, <1>3, <1>4

LEMMA LostInv ==
  ASSUME GridInv, QueueInv', UNCHANGED queue, FewerOnSlots
  PROVE  HandlerInv'
<1>1. UNCHANGED <<task, used, walState, dirty>>
  BY DEF queue, memory, log
<1>2. PolledIsAssigned' /\ CompactedIsRequeued'
  BY <1>1 DEF GridInv, PolledIsAssigned, CompactedIsRequeued, StatusIs, FewerOnSlots
<1>3. RunningTaskIsAssigned' /\ RunsOnce' /\ RunningWasUsed'
  BY <1>1, RunningKept DEF FewerOnSlots
<1> QED  BY <1>2, <1>3, FewerRunning DEF HandlerInv

LEMMA DeathInv ==
  ASSUME GridInv, QueueInv', NEW n \in Node, NodeDies(n)
  PROVE  HandlerInv'
<1>1. /\ running \in [Node -> SUBSET Task] /\ worker \in [Node -> [Task -> WorkerPhase]]
      /\ up \subseteq Node
  BY DEF GridInv, CTypeOK
<1>2. /\ running' = [running EXCEPT ![n] = {}]
      /\ worker' = [worker EXCEPT ![n] = [t \in Task |-> "running"]]
      /\ up' = up \ {n} /\ UNCHANGED <<queue, ctl, active, reg, load, requeued>>
  BY DEF NodeDies, nodes
<1>3. FewerOnSlots
  BY <1>1, <1>2 DEF FewerOnSlots, WorkerPhase
<1> QED  BY <1>2, <1>3, LostInv

\* A worker crashes, is restarted or ends.
LEMMA WorkerInv ==
  ASSUME GridInv, QueueInv', NEW n \in Node, NEW t \in Task, WorkerStep(n, t)
  PROVE  HandlerInv'
<1>1. PICK to \in {"crashed", "restarted", "ended"} :
        /\ worker' = [worker EXCEPT ![n][t] = to]
        /\ UNCHANGED <<queue, ctl, active, nodes, up, running, requeued>>
  BY DEF WorkerStep, WorkerCrashes, WorkerRestarts, WorkerEnds, WorkerMoves
<1>2. /\ running \in [Node -> SUBSET Task] /\ worker \in [Node -> [Task -> WorkerPhase]]
      /\ up \subseteq Node
  BY DEF GridInv, CTypeOK
<1>3. FewerOnSlots
  BY <1>1, <1>2 DEF FewerOnSlots, WorkerPhase, nodes
<1> QED  BY <1>1, <1>3, LostInv

\* report_result, whatever has become of the task meanwhile, or its loss
LEMMA ReportInv ==
  ASSUME GridInv, QueueInv', NEW n \in Node, NEW t \in Task,
         LoseReport(n, t) \/ \E b \in BOOLEAN : ReportResult(n, t, b)
  PROVE  HandlerInv'
<1>1. /\ UNCHANGED <<ctl, active, reg, load, requeued, up>>
      /\ t \in running[n] /\ WorkerDone(n, t)
  BY DEF ReportResult, LoseReport, nodes, WorkerDone
<1>2. /\ FewerOnSlots
      /\ \A m \in Node : running'[m] = IF m = n THEN running[m] \ {t} ELSE running[m]
  BY <1>1 DEF WorkerDone, GridInv, CTypeOK, FewerOnSlots, WorkerPhase
<1>3. CASE UNCHANGED queue
  BY <1>1, <1>2, <1>3, LostInv
<1>4. CASE ctl = Idle /\ (Complete(t) \/ Fail(t, TRUE))
  <2>1. Touches({t}) /\ task[t].status # "absent" /\ task'[t].status # "ASSIGNED"
    BY <1>4, FinishTouches DEF GridInv
  <2>2. \A m \in Node : \A u \in running'[m] \ requeued : u # t
    BY <1>1, <1>2 DEF GridInv, RunsOnce
  <2>3. RunningTaskIsAssigned' /\ RunsOnce' /\ RunningWasUsed'
    BY <1>1, <1>2, <2>1, <2>2, RunningKept DEF Touches, FewerOnSlots
  <2>4. CompactedIsRequeued'
    BY <1>1, <2>1, CompactedKept
  <2>5. PolledIsAssigned'
    BY <1>1, <1>4, NoPoll DEF Idle
  <2> QED  BY <1>1, <1>2, <2>3, <2>4, <2>5, FewerRunning DEF HandlerInv
<1> QED  BY <1>3, <1>4 DEF ReportResult, LoseReport

\* _task_reassign_loop fails one more task of its list.
LEMMA ReassignStepInv ==
  ASSUME GridInv, QueueInv', NEW t \in Task, ReassignStep(t)
  PROVE  HandlerInv'
<1>1. /\ UNCHANGED <<active, reg, load, up, running, worker>>
      /\ requeued' = requeued \cup {t}
      /\ Touches({t})
  BY FinishTouches DEF ReassignStep, GridInv, nodes, pool
<1>2. HandlerOK' /\ ctl'.op \in {"idle", "reassign"}
  <2>1. ctl \in [op : {"reassign"}, todo : SUBSET Task]
    BY DEF ReassignStep, GridInv, HandlerOK, PollHandler, Idle
  <2> QED  BY <2>1 DEF ReassignStep, HandlerOK, Idle
<1>3. CTypeOK' /\ WithinCapacity'
  BY <1>1, <1>2 DEF GridInv, CTypeOK, WithinCapacity, QueueInv
<1>4. RunningTaskIsAssigned' /\ RunsOnce' /\ RunningWasUsed'
  BY <1>1, RunningKept DEF Touches, GridInv, CTypeOK
<1>5. CompactedIsRequeued'
  BY <1>1, CompactedKept
<1> QED  BY <1>2, <1>3, <1>4, <1>5, NoPoll DEF HandlerInv

-----------------------------------------------------------------------------
\* Stopping, starting and crashing

LEMMA StopInv ==
  ASSUME GridInv, QueueInv', Stop
  PROVE  HandlerInv'
<1>1. /\ UNCHANGED <<ctl, reg, load, up, running, worker, task, used>> /\ ctl = Idle
      /\ active' = FALSE /\ requeued' = requeued \cup StatusIs({"ASSIGNED"})
  BY DEF Stop, Close, nodes, memory, pool
<1>2. HandlerOK' /\ ctl'.op = "idle"
  BY <1>1 DEF HandlerOK, Idle
<1>3. CTypeOK' /\ WithinCapacity'
  BY <1>1, <1>2 DEF GridInv, CTypeOK, WithinCapacity, QueueInv, StatusIs
<1>4. RunningTaskIsAssigned' /\ RunsOnce' /\ RunningWasUsed'
  BY <1>1, RunningKept
<1>5. CompactedIsRequeued'
  BY <1>1 DEF CompactedIsRequeued, StatusIs
<1> QED  BY <1>2, <1>3, <1>4, <1>5, NoPoll DEF HandlerInv

\* A queue opened again knows what the nodes run, but for what is marked as available.
LEMMA StartInv ==
  ASSUME GridInv, QueueInv', Start \/ Crash
  PROVE  HandlerInv'
<1>1. /\ Reopen /\ ctl' = Idle /\ active' = TRUE
      /\ reg' = [n \in Node |-> "unregistered"] /\ load' = [n \in Node |-> 0]
      /\ requeued' = requeued \cup dirty /\ UNCHANGED <<up, running, worker>>
  BY DEF Start, Crash, FreshStart, pool
<1>2. HandlerOK' /\ ctl'.op = "idle"
  BY <1>1 DEF HandlerOK, Idle
<1>3. CTypeOK' /\ WithinCapacity'
  BY <1>1, <1>2 DEF GridInv, CTypeOK, WithinCapacity, QueueInv, TypeOK, Age
<1>4. ASSUME NEW n \in Node, NEW t \in running'[n] \ requeued'
      PROVE  \/ task'[t].status = "ASSIGNED" /\ task'[t].node = n
             \/ task'[t].status \in {"CANCELLED", "absent"}
  <2>1. t \in Task /\ t \in running[n] \ requeued /\ t \notin dirty
    BY <1>1 DEF GridInv, CTypeOK
  <2>2. \/ task[t].status = "ASSIGNED" /\ task[t].node = n
        \/ task[t].status \in {"CANCELLED", "absent"}
    BY <2>1 DEF GridInv, RunningTaskIsAssigned
  <2>3. task'[t] = walTask[t] /\ walTask[t].status = StatusToRecover(t)
        /\ (walTask[t].status = "ASSIGNED" => walTask[t].node = task[t].node)
    BY <1>1, <2>1 DEF Reopen, GridInv, QueueInv, CrashRecoversStatus
  <2>4. walState = "compacted" => task[t].status # "ASSIGNED"
    BY <2>1 DEF GridInv, CompactedIsRequeued, StatusIs
  <2> QED  BY <2>2, <2>3, <2>4 DEF StatusToRecover, Compacted, Absent, Live
<1>5. RunningTaskIsAssigned' /\ RunsOnce' /\ RunningWasUsed'
  <2>1. RunningTaskIsAssigned'
    BY <1>4 DEF RunningTaskIsAssigned
  <2> QED  BY <1>1, <2>1 DEF Reopen, GridInv, RunsOnce, RunningWasUsed
<1>6. CompactedIsRequeued'
  BY <1>1 DEF Reopen, CompactedIsRequeued
<1> QED  BY <1>2, <1>3, <1>5, <1>6, NoPoll DEF HandlerInv

-----------------------------------------------------------------------------
\* The invariant is inductive.

LEMMA GridInitially == CInit => GridInv
<1> SUFFICES ASSUME CInit PROVE GridInv
  OBVIOUS
<1>1. QueueInv /\ KnownWasUsed
  BY InitInv DEF CInit, Init, KnownWasUsed, Known, KnownToLog, Absent
<1>2. CTypeOK /\ HandlerOK /\ PollFits /\ PolledIsAssigned
  BY <1>1 DEF CInit, CTypeOK, HandlerOK, PollFits, PolledIsAssigned, PollHandler, Idle,
     Age, QueueInv, WorkerPhase
<1>3. WithinCapacity
  <2>1. ASSUME NEW n \in Node PROVE {t \in running[n] : worker[n][t] = "running"} = {}
    BY DEF CInit
  <2> QED  BY <2>1, FS_EmptySet DEF WithinCapacity
<1>4. RunningTaskIsAssigned /\ RunsOnce /\ RunningWasUsed /\ CompactedIsRequeued
  BY DEF CInit, Init, RunningTaskIsAssigned, RunsOnce, RunningWasUsed, CompactedIsRequeued
<1> QED  BY <1>1, <1>2, <1>3, <1>4 DEF GridInv

LEMMA GridKept ==
  ASSUME GridInv, [CNext]_vars
  PROVE  GridInv'
<1>1. [QueueStep]_queue
  BY StepUsesQueue DEF GridInv
<1>2. QueueInv' /\ KnownWasUsed'
  BY <1>1, QueueStepInv DEF GridInv
<1>3. HandlerInv'
  <2>1. CASE LoopStep
    BY <1>2, <2>1, AssigningInv, PollStepInv, PollNoneInv, PollAnswerInv, ReassignStepInv
    DEF LoopStep
  <2>2. ASSUME NEW t \in Task, SubmitTask(t) \/ CancelTask(t) PROVE HandlerInv'
    BY <1>2, <2>2, ClientInv
  <2>3. ASSUME NEW n \in Node, Heartbeat(n) \/ PollTasks(n) \/ HeartbeatAges(n)
        PROVE  HandlerInv'
    BY <1>2, <2>3, NodeCallInv
  <2>4. ASSUME NEW n \in Node, NodeDies(n) PROVE HandlerInv'
    BY <1>2, <2>4, DeathInv
  <2>5. ASSUME NEW n \in Node, NEW t \in Task, NEW b \in BOOLEAN,
               LoseReport(n, t) \/ ReportResult(n, t, b)
        PROVE  HandlerInv'
    BY <1>2, <2>5, ReportInv
  <2>9. ASSUME NEW n \in Node, NEW t \in Task, WorkerStep(n, t) PROVE HandlerInv'
    BY <1>2, <2>9, WorkerInv
  <2>6. CASE Reassign \/ StaleNodeCleanup
    BY <1>2, <2>6, NodeCallInv
  <2>7. CASE Stop \/ Start \/ Crash
    BY <1>2, <2>7, StopInv, StartInv
  <2>8. CASE UNCHANGED vars
    BY <2>8 DEF vars, queue, memory, log, nodes, env, pool, GridInv, HandlerInv, CTypeOK, TypeOK,
       HandlerOK, PollFits, OnSlots, WithinCapacity, RunningTaskIsAssigned, PolledIsAssigned,
       RunsOnce, RunningWasUsed, CompactedIsRequeued, StatusIs
  <2> QED  BY <2>1, <2>2, <2>3, <2>4, <2>5, <2>6, <2>7, <2>8, <2>9 DEF CNext, WorkerStep
<1> QED  BY <1>2, <1>3 DEF HandlerInv, GridInv

-----------------------------------------------------------------------------
\* A result that nobody but its own worker could overwrite

ResultKept(t) ==
  task[t].status = "COMPLETED" => task'[t].status \in {"COMPLETED", "CANCELLED", "absent"}

LEMMA ReportKeepsResults ==
  ASSUME GridInv, NEW n \in Node, NEW u \in Task, NEW b \in BOOLEAN,
         ReportResult(n, u, b), NEW t \in Task \ requeued'
  PROVE  ResultKept(t)
<1>1. requeued' = requeued /\ u \in running[n]
  BY DEF ReportResult, WorkerDone
<1>2. (task'[t] = task[t]) \/ t = u
  BY FinishTouches DEF ReportResult, Touches, GridInv, queue, memory
<1>3. CASE t = u
  BY <1>1, <1>3 DEF GridInv, RunningTaskIsAssigned, ResultKept, ReportResult, queue, memory
<1> QED  BY <1>2, <1>3 DEF ResultKept

LEMMA RecoveryKeepsResults ==
  ASSUME GridInv, Start \/ Crash, NEW t \in Task \ requeued'
  PROVE  ResultKept(t)
<1>1. task' = walTask /\ t \notin dirty
  BY DEF Start, Crash, FreshStart, Reopen
<1>2. walTask[t].status = StatusToRecover(t)
  BY <1>1 DEF GridInv, QueueInv, CrashRecoversStatus
<1> QED  BY <1>1, <1>2 DEF ResultKept, StatusToRecover, Compacted, Absent, Live

LEMMA StepKeepsResults ==
  ASSUME GridInv, [CNext]_vars, NEW t \in Task \ requeued'
  PROVE  ResultKept(t)
<1> USE DEF ResultKept
<1>1. CASE LoopStep
  <2>1. ASSUME NEW u \in Task, AssignStep(u) PROVE ResultKept(t)
    <3>1. PICK n \in BestNodes(u) : Assign(u, n, NoTag)
      BY <2>1 DEF AssignStep
    <3>2. n \in Node
      BY <3>1 DEF BestNodes, Suitable, Capable, WithSlot
    <3> QED  BY <3>1, <3>2, AssignTouches DEF GridInv, Touches
  <2>2. ASSUME NEW u \in Task, PollStep(u) PROVE ResultKept(t)
    BY <2>2, PollHandlerKnown, AssignTouches DEF PollStep, PollHandler, GridInv, Touches
  <2>3. ASSUME NEW u \in Task, AssignPutBack(u) PROVE ResultKept(t)
    BY <2>3, UnassignedTouches DEF GridInv, AssignPutBack
  <2>4. ASSUME NEW u \in Task, ReassignStep(u) PROVE ResultKept(t)
    BY <2>4, FinishTouches DEF ReassignStep, GridInv, Touches
  <2>5. CASE AssignNone \/ PollNone \/ PollAnswer
    BY <2>5 DEF AssignNone, PollNone, PollAnswer, DequeueNone, queue, memory
  <2> QED  BY <1>1, <2>1, <2>2, <2>3, <2>4, <2>5 DEF LoopStep
<1>2. ASSUME NEW u \in Task, SubmitTask(u) PROVE ResultKept(t)
  BY <1>2, EnqueueTouches DEF SubmitTask, GridInv, Touches
<1>3. ASSUME NEW u \in Task, CancelTask(u) PROVE ResultKept(t)
  BY <1>3, FinishTouches, CancelResult DEF CancelTask, GridInv, Touches
<1>4. ASSUME NEW n \in Node, NEW u \in Task, NEW b \in BOOLEAN, ReportResult(n, u, b)
      PROVE  ResultKept(t)
  BY <1>4, ReportKeepsResults
<1>5. CASE \/ \E n \in Node : Heartbeat(n) \/ PollTasks(n) \/ HeartbeatAges(n) \/ NodeDies(n)
           \/ \E n \in Node, u \in Task : LoseReport(n, u) \/ WorkerStep(n, u)
           \/ Reassign \/ StaleNodeCleanup \/ Stop \/ UNCHANGED vars
  BY <1>5 DEF Heartbeat, PollTasks, HeartbeatAges, NodeDies, LoseReport, Reassign,
     StaleNodeCleanup, Stop, Close, vars, queue, memory, WorkerStep, WorkerCrashes,
     WorkerRestarts, WorkerEnds, WorkerMoves
<1>6. CASE Start \/ Crash
  BY <1>6, RecoveryKeepsResults
<1> QED  BY <1>1, <1>2, <1>3, <1>4, <1>5, <1>6 DEF CNext, WorkerStep

-----------------------------------------------------------------------------
\* The theorems

LEMMA GridInvariant == CSpec => []GridInv
<1>1. CInit => GridInv
  BY GridInitially
<1>2. GridInv /\ [CNext]_vars => GridInv'
  BY GridKept
<1> QED  BY <1>1, <1>2, PTL DEF CSpec

\* The coordinator keeps its types, and a task that a node is running stays
\* assigned to that node in the coordinator's eyes, through any number of crashes,
\* failed log writes, lost answers and reassignments of other nodes' tasks.
THEOREM CoordinatorCorrect == CSpec => []CoordinatorInv
<1>1. GridInv => CoordinatorInv
  BY DEF GridInv, CoordinatorInv
<1> QED  BY <1>1, GridInvariant, PTL

\* For any nodes, workers and tasks: the workers of a node are never given more to run than
\* there are workers, though poll_tasks knows of the load only what the last heartbeat said,
\* answers may be lost, and crashed workers are offered as free; restarts come on top.
THEOREM NodesWithinCapacity == CSpec => []WithinCapacity
<1>1. GridInv => WithinCapacity
  BY DEF GridInv
<1> QED  BY <1>1, GridInvariant, PTL

\* A completed task is not run again, unless the reassignment loop, a stop or a
\* failed log write had made it available a second time.
THEOREM CompletedStaysFinal == CSpec => CompletedTaskIsFinal
<1>1. GridInv /\ [CNext]_vars =>
        [\A t \in Task \ requeued' :
           task[t].status = "COMPLETED" =>
             task'[t].status \in {"COMPLETED", "CANCELLED", "absent"}]_vars
  BY StepKeepsResults DEF ResultKept
<1> QED  BY <1>1, GridInvariant, PTL DEF CSpec, CompletedTaskIsFinal

\* Whatever handler of the coordinator is under way when it crashes, a user sees the queue
\* as a ledger of statuses: also the reassignment loop, which writes to task objects
\* behind the queue's back, does nothing the ledger would not allow.
THEOREM CoordinatorKeepsLedger == CSpec => ImplementsLedger
<1>1. CInit => Ledger!Init
  BY DEF CInit, Init, Ledger!Init, Absent
<1>2. ASSUME GridInv, [CNext]_vars
      PROVE  [Ledger!Next]_<<[t \in Task |-> task[t].status], dirty, walState = "compacted">>
  <2>1. QueueInv /\ KnownWasUsed /\ [QueueStep]_queue
    BY <1>2, StepUsesQueue DEF GridInv
  <2>2. CASE [Next]_queue
    BY <2>1, <2>2, StepImplementsLedger
  <2>3. ASSUME NEW t \in Task, FailReleased(t) PROVE Ledger!Next
    BY <2>1, <2>3, CallImplementsLedger
  <2> QED  BY <2>1, <2>2, <2>3 DEF QueueStep
<1> QED
  BY <1>1, <1>2, GridInvariant, PTL DEF CSpec, ImplementsLedger, Ledger!Spec

-----------------------------------------------------------------------------
\* What surrounds the coordinators

HIDE CoordinatorAssumption

-----------------------------------------------------------------------------
\* Who claims the key: ConsulElector

CallerStage  == {"none", "put", "won", "lost", "check", "delete"}
RefreshStage == {"none", "put", "won", "lost", "check", "asleep"}

ElectorShape ==
  /\ backend \in {"etcd", "consul"} /\ key \in Elector \cup {NoElector}
  /\ amLeader \in [Elector -> BOOLEAN] /\ refreshing \in [Elector -> BOOLEAN]
  /\ caller \in [Elector -> CallerStage] /\ misused \in BOOLEAN
  /\ refresher \in [Elector -> [Thread -> RefreshStage]]
  /\ late \subseteq {"put", "delete"} \X Elector

RefresherWon(n) == \E i \in Thread : refresher[n][i] = "won"
DeleteLate(n)   == <<"delete", n>> \in late

\* Each time the key is won, one thing stands for it: the answer on its way to the caller or
\* to a refresh thread, the node's belief that it leads, or its request to delete the key.
ClaimOf(n) ==
  /\ caller[n] \in {"won", "delete"} \/ amLeader[n] \/ DeleteLate(n) \/ RefresherWon(n)
       => key = n
  /\ caller[n] \in {"won", "delete"} => ~amLeader[n] /\ ~DeleteLate(n) /\ ~RefresherWon(n)
  /\ amLeader[n] => ~DeleteLate(n) /\ ~RefresherWon(n)
  /\ DeleteLate(n) => ~RefresherWon(n)
  /\ \A i, j \in Thread : refresher[n][i] = "won" /\ refresher[n][j] = "won" => i = j

OneClaim == backend = "consul" /\ ~misused => \A n \in Elector : ClaimOf(n)

ElectorInv == ElectorShape /\ OneClaim

LEMMA ElectorInvInit == ElectorInit => ElectorInv
<1> SUFFICES ASSUME ElectorInit PROVE ElectorInv
  OBVIOUS
<1>1. backend \in {"etcd", "consul"} /\ key \in Elector \cup {NoElector} /\ misused \in BOOLEAN
  BY DEF ElectorInit
<1>2. /\ amLeader \in [Elector -> BOOLEAN] /\ refreshing \in [Elector -> BOOLEAN]
      /\ caller \in [Elector -> CallerStage]
  BY DEF ElectorInit, CallerStage
<1>3. refresher \in [Elector -> [Thread -> RefreshStage]]
  BY DEF ElectorInit, RefreshStage
<1>4. late \subseteq {"put", "delete"} \X Elector
  BY DEF ElectorInit
<1>5. OneClaim
  BY DEF ElectorInit, OneClaim, ClaimOf, RefresherWon, DeleteLate
<1> QED BY <1>1, <1>2, <1>3, <1>4, <1>5 DEF ElectorInv, ElectorShape

LEMMA LateKeepsClaim == ElectorInv /\ TakesEffectLate => ElectorInv'
<1> SUFFICES ASSUME ElectorInv, NEW r \in late, late' = late \ {r},
                    key' = IF r[1] = "delete" THEN NoElector ELSE Put(r[2]).key,
                    UNCHANGED <<backend, amLeader, refreshing, caller, refresher, misused>>
             PROVE  ElectorInv'
  BY DEF TakesEffectLate
<1>1. PICK kind \in {"put", "delete"}, n \in Elector : r = <<kind, n>>
  BY DEF ElectorInv, ElectorShape
<1>2. ElectorShape'
  BY <1>1 DEF ElectorInv, ElectorShape, Put
<1>3. OneClaim'
  BY <1>1, ElectorAssumption DEF ElectorInv, ElectorShape, OneClaim, ClaimOf, Put, DeleteLate, RefresherWon
<1> QED BY <1>2, <1>3 DEF ElectorInv

LEMMA StartKeepsClaim ==
  ASSUME ElectorInv, NEW n \in Elector, StartRefreshLoop(n)
  PROVE  ElectorInv'
<1>1. /\ UNCHANGED <<backend, key, amLeader, late, misused>>
      /\ caller' = [caller EXCEPT ![n] = "none"]
  BY DEF StartRefreshLoop
<1>2. \/ refresher' = refresher
      \/ \E i : refresher' = [refresher EXCEPT ![n][i] = "check"]
  BY DEF StartRefreshLoop
<1>3. /\ refresher' \in [Elector -> [Thread -> RefreshStage]]
      /\ \A m \in Elector, j \in Thread : refresher'[m][j] = "won" => refresher[m][j] = "won"
  <2>1. CASE refresher' = refresher
    BY <2>1 DEF ElectorInv, ElectorShape
  <2>2. ASSUME NEW i, refresher' = [refresher EXCEPT ![n][i] = "check"]
        PROVE  /\ refresher' \in [Elector -> [Thread -> RefreshStage]]
               /\ \A m \in Elector, j \in Thread : refresher'[m][j] = "won" => refresher[m][j] = "won"
    BY <2>2 DEF ElectorInv, ElectorShape, RefreshStage
  <2> QED BY <1>2, <2>1, <2>2
<1>4. ElectorShape'
  <2>1. refreshing' \in [Elector -> BOOLEAN]
    BY DEF StartRefreshLoop, ElectorInv, ElectorShape
  <2>2. caller' \in [Elector -> CallerStage]
    BY <1>1 DEF ElectorInv, ElectorShape, CallerStage
  <2> QED BY <1>1, <1>3, <2>1, <2>2 DEF ElectorInv, ElectorShape
<1>5. ASSUME NEW m \in Elector, ClaimOf(m) PROVE ClaimOf(m)'
  <2>1. caller'[m] \in {"won", "delete"} => caller[m] \in {"won", "delete"}
    BY <1>1 DEF ElectorInv, ElectorShape
  <2> QED BY <1>1, <1>3, <1>5, <2>1 DEF ClaimOf, DeleteLate, RefresherWon
<1>6. OneClaim'
  BY <1>1, <1>5 DEF ElectorInv, OneClaim
<1> QED BY <1>4, <1>6 DEF ElectorInv

LEMMA CampaignKeepsClaim ==
  ASSUME ElectorInv, NEW n \in Elector,
         Campaign(n) \/ CampaignPut(n) \/ CampaignAnswered(n) \/ CampaignFails(n)
           \/ StartRefreshLoop(n)
  PROVE  ElectorInv'
<1> USE DEF ElectorInv, ElectorShape, OneClaim, ClaimOf, CallerStage, RefreshStage, DeleteLate, RefresherWon
<1>1. CASE Campaign(n)
  BY <1>1 DEF Campaign
<1>2. CASE CampaignPut(n)
  BY <1>2, ElectorAssumption DEF CampaignPut, Put
<1>3. CASE CampaignAnswered(n)
  BY <1>3 DEF CampaignAnswered
<1>4. CASE CampaignFails(n)
  BY <1>4 DEF CampaignFails, GivenUp
<1>5. CASE StartRefreshLoop(n)
  BY <1>5, StartKeepsClaim
<1> QED BY <1>1, <1>2, <1>3, <1>4, <1>5

LEMMA ResignKeepsOneClaim ==
  ASSUME ElectorInv, NEW n \in Elector, Resign(n)
  PROVE  OneClaim'
<1>1. ASSUME NEW m \in Elector, backend = "consul", ~misused' PROVE ClaimOf(m)'
  <2>1. ~misused /\ amLeader[n] /\ caller[n] = "none"
    BY <1>1 DEF Resign
  <2>2. ClaimOf(m) /\ ClaimOf(n)
    BY <1>1, <2>1 DEF ElectorInv, OneClaim
  <2>3. UNCHANGED <<key, refresher, late>> /\ amLeader' = [amLeader EXCEPT ![n] = FALSE]
        /\ caller' = [caller EXCEPT ![n] = "delete"]
    BY <1>1 DEF Resign
  <2> QED BY <1>1, <2>1, <2>2, <2>3 DEF ClaimOf, ElectorInv, ElectorShape, DeleteLate, RefresherWon
<1>2. backend' = backend
  BY DEF Resign
<1> QED BY <1>1, <1>2 DEF OneClaim

LEMMA DeleteKeepsOneClaim ==
  ASSUME ElectorInv, NEW n \in Elector, ResignDelete(n)
  PROVE  OneClaim'
<1>1. ASSUME NEW m \in Elector, backend = "consul", ~misused PROVE ClaimOf(m)'
  <2>1. ClaimOf(m) /\ ClaimOf(n) /\ key = n
    BY <1>1 DEF ElectorInv, OneClaim, ClaimOf, ResignDelete
  <2>2. UNCHANGED <<amLeader, refresher, late>> /\ caller' = [caller EXCEPT ![n] = "none"]
        /\ caller[n] = "delete"
    BY DEF ResignDelete
  <2>3. caller \in [Elector -> CallerStage]
    BY DEF ElectorInv, ElectorShape
  <2> QED BY <2>1, <2>2, <2>3 DEF ClaimOf, DeleteLate, RefresherWon
<1>2. UNCHANGED <<backend, misused>>
  BY DEF ResignDelete
<1> QED BY <1>1, <1>2 DEF OneClaim

LEMMA ResignKeepsClaim ==
  ASSUME ElectorInv, NEW n \in Elector, Resign(n) \/ ResignDelete(n) \/ ResignFails(n)
  PROVE  ElectorInv'
<1> USE DEF ElectorInv, ElectorShape, OneClaim, ClaimOf, CallerStage, RefreshStage, DeleteLate,
            RefresherWon
<1>1. CASE Resign(n)
  <2>1. amLeader' \in [Elector -> BOOLEAN] /\ misused' \in BOOLEAN
    BY <1>1 DEF Resign
  <2>2. caller' \in [Elector -> CallerStage]
    BY <1>1 DEF Resign
  <2>3. ElectorShape'
    BY <1>1, <2>1, <2>2 DEF Resign
  <2> HIDE DEF ElectorInv, OneClaim
  <2>4. OneClaim'
    BY <1>1, ResignKeepsOneClaim
  <2> QED BY <2>3, <2>4 DEF ElectorInv
<1>2. CASE ResignDelete(n)
  <2>1. ElectorShape'
    BY <1>2 DEF ResignDelete
  <2> HIDE DEF ElectorInv, OneClaim
  <2>2. OneClaim'
    BY <1>2, DeleteKeepsOneClaim
  <2> QED BY <2>1, <2>2 DEF ElectorInv
<1>3. CASE ResignFails(n)
  BY <1>3 DEF ResignFails, GivenUp
<1> QED BY <1>1, <1>2, <1>3

LEMMA RefreshKeepsClaim ==
  ASSUME ElectorInv, NEW n \in Elector, NEW i \in Thread, RefreshStep(n, i)
  PROVE  ElectorInv'
<1> USE DEF ElectorInv, ElectorShape, OneClaim, ClaimOf, CallerStage, RefreshStage, DeleteLate,
            RefresherWon, RefresherAt
<1>1. CASE RefreshChecks(n, i)
  BY <1>1 DEF RefreshChecks
<1>2. CASE RefreshPut(n, i)
  BY <1>2, ElectorAssumption DEF RefreshPut, Put
<1>3. CASE RefreshAnswered(n, i)
  BY <1>3 DEF RefreshAnswered
<1>4. CASE RefreshFails(n, i)
  BY <1>4 DEF RefreshFails, GivenUp
<1> QED BY <1>1, <1>2, <1>3, <1>4 DEF RefreshStep

LEMMA CrashKeepsClaim ==
  ASSUME ElectorInv, NEW n \in Elector, ElectorCrash(n)
  PROVE  ElectorInv'
<1>1. PICK sent \in SUBSET ({<<caller[n], n>>} \cup {<<refresher[n][i], n>> : i \in Thread}) :
        late' = late \cup {r \in sent : r[1] \in {"put", "delete"}}
  BY DEF ElectorCrash
<1>2. late \subseteq late' /\ \A r \in late' \ late : r[1] \in {"put", "delete"} /\ r = <<r[1], n>>
  BY <1>1
<1>3. <<"delete", n>> \in late' => <<"delete", n>> \in late \/ caller[n] = "delete"
  BY <1>1 DEF ElectorInv, ElectorShape, RefreshStage
<1>4. ElectorShape'
  BY <1>2 DEF ElectorCrash, ElectorInv, ElectorShape, CallerStage, RefreshStage
<1>5. UNCHANGED <<backend, key, misused>>
  BY DEF ElectorCrash
<1>6. ASSUME NEW m \in Elector, ClaimOf(m) PROVE ClaimOf(m)'
  <2>1. CASE m = n
    <3>1. ~amLeader'[n] /\ caller'[n] = "none" /\ \A i \in Thread : refresher'[n][i] = "none"
      BY DEF ElectorCrash, ElectorInv, ElectorShape
    <3> QED BY <1>3, <1>5, <1>6, <2>1, <3>1 DEF ClaimOf, DeleteLate, RefresherWon
  <2>2. CASE m # n
    <3>1. amLeader'[m] = amLeader[m] /\ caller'[m] = caller[m] /\ refresher'[m] = refresher[m]
      BY <2>2 DEF ElectorCrash, ElectorInv, ElectorShape
    <3>2. \A k : <<"delete", m>> # <<k, n>>
      BY <2>2
    <3>3. <<"delete", m>> \in late' <=> <<"delete", m>> \in late
      BY <1>2, <3>2
    <3> QED BY <1>5, <1>6, <3>1, <3>3 DEF ClaimOf, DeleteLate, RefresherWon
  <2> QED BY <2>1, <2>2
<1>7. OneClaim'
  BY <1>5, <1>6 DEF ElectorInv, OneClaim
<1> QED BY <1>4, <1>7 DEF ElectorInv

LEMMA ElectorInvNext == ElectorInv /\ [ElectorNext]_electorVars => ElectorInv'
<1>1. ElectorInv /\ UNCHANGED electorVars => ElectorInv'
  BY DEF electorVars, ElectorInv, ElectorShape, OneClaim, ClaimOf, DeleteLate, RefresherWon
<1> QED BY <1>1, LateKeepsClaim, CampaignKeepsClaim, ResignKeepsClaim, RefreshKeepsClaim,
           CrashKeepsClaim DEF ElectorNext

\* "Only one node succeeds (the leader)": with any number of nodes, refresh threads, failing
\* requests and crashes, a node that thinks it leads on Consul holds the key, as long as
\* nobody resigns who is not leader.
THEOREM KeyNamesTheLeader == ElectorSpec => []ConsulLeaderHoldsKey
<1>1. ElectorInv => ConsulLeaderHoldsKey
  BY DEF ElectorInv, OneClaim, ClaimOf, ConsulLeaderHoldsKey
<1> QED BY <1>1, ElectorInvInit, ElectorInvNext, PTL DEF ElectorSpec

LEMMA ElectorTypes == ElectorInv => ElectorTypeOK
<1>1. CallerStage \subseteq Stage /\ RefreshStage \subseteq Stage
  BY DEF CallerStage, RefreshStage, Stage
<1>2. /\ [Elector -> CallerStage] \subseteq [Elector -> Stage]
      /\ [Thread -> RefreshStage] \subseteq [Thread -> Stage]
  BY <1>1
<1>3. [Elector -> [Thread -> RefreshStage]] \subseteq [Elector -> [Thread -> Stage]]
  BY <1>2
<1> QED BY <1>2, <1>3 DEF ElectorInv, ElectorShape, ElectorTypeOK

-----------------------------------------------------------------------------
\* Costs and the pause: BudgetController

SpendingShape ==
  /\ hour \in Nat /\ day \in Nat /\ ofTask \in [CostTask -> Nat]
  /\ level \in Level /\ budgetPaused \in BOOLEAN /\ crossed \in BOOLEAN
  /\ evaluating \in [Recorder -> Evaluation] /\ costs \in Nat

SumsBounded ==
  /\ costs <= MaxCosts /\ hour <= day /\ day <= 2 * costs
  /\ \A t \in CostTask : ofTask[t] <= 2 * costs

\* Unless evaluations overlapped, one thread evaluates at most, and the pause, or what it has
\* decided about it, is not behind the costs.
PauseFollows ==
  ~crossed =>
    /\ \A q, r \in Recorder : evaluating[q] # "none" /\ evaluating[r] # "none" => q = r
    /\ NobodyEvaluates /\ OverHard => budgetPaused
    /\ \A r \in Recorder : evaluating[r] \in Level /\ OverHard => evaluating[r] = "exhausted"

SpendingInv == SpendingShape /\ SumsBounded /\ PauseFollows


LEMMA SpendingInvInit == SpendingInit => SpendingInv
<1>1. SpendingInit => SpendingShape
  <2>1. SpendingInit => hour \in Nat /\ day \in Nat /\ ofTask \in [CostTask -> Nat] /\ costs \in Nat
    BY DEF SpendingInit
  <2>2. SpendingInit => level \in Level /\ budgetPaused \in BOOLEAN /\ crossed \in BOOLEAN
    BY DEF SpendingInit, Level
  <2>3. SpendingInit => evaluating \in [Recorder -> Evaluation]
    BY DEF SpendingInit, Evaluation
  <2> QED BY <2>1, <2>2, <2>3 DEF SpendingShape
<1>2. SpendingInit => PauseFollows
  BY SpendingAssumption DEF SpendingInit, PauseFollows, OverHard, Level
<1>3. SpendingInit => SumsBounded
  BY SpendingAssumption DEF SpendingInit, SumsBounded
<1> QED BY <1>1, <1>2, <1>3 DEF SpendingInv

LEMMA RecordKeepsPause ==
  ASSUME SpendingInv, NEW r \in Recorder, NEW t \in CostTask, NEW cost \in {1, 2},
         RecordCost(r, t, cost)
  PROVE  SpendingInv'
<1>1. SpendingShape'
  BY DEF SpendingInv, SpendingShape, RecordCost, Evaluation
<1>2. PauseFollows'
  BY DEF SpendingInv, SpendingShape, PauseFollows, RecordCost, NobodyEvaluates, Level
<1>3. SumsBounded'
  <2>1. /\ hour' = hour + cost /\ day' = day + cost /\ costs' = costs + 1 /\ costs < MaxCosts
        /\ cost <= 2 /\ cost \in Nat /\ ofTask' = [ofTask EXCEPT ![t] = ofTask[t] + cost]
    BY DEF RecordCost
  <2>2. hour \in Nat /\ day \in Nat /\ costs \in Nat /\ ofTask \in [CostTask -> Nat]
    BY DEF SpendingInv, SpendingShape
  <2>3. ASSUME NEW u \in CostTask PROVE ofTask'[u] <= 2 * (costs + 1)
    BY <2>1, <2>2 DEF SpendingInv, SumsBounded
  <2> QED BY <2>1, <2>2, <2>3, SpendingAssumption DEF SpendingInv, SumsBounded
<1> QED BY <1>1, <1>2, <1>3 DEF SpendingInv

LEMMA DecideKeepsPause ==
  ASSUME SpendingInv, NEW r \in Recorder, Decide(r)
  PROVE  SpendingInv'
<1>1. Decided \in Level /\ (OverHard => Decided = "exhausted")
  BY DEF Decided, Level
<1>2. SpendingShape'
  BY <1>1 DEF SpendingInv, SpendingShape, Decide, Evaluation
<1>3. OverHard' <=> OverHard
  BY DEF Decide, OverHard
<1>4. PauseFollows'
  BY <1>1, <1>3 DEF SpendingInv, SpendingShape, PauseFollows, Decide, NobodyEvaluates, Level
<1>5. SumsBounded'
  BY DEF SpendingInv, SumsBounded, Decide
<1> QED BY <1>2, <1>4, <1>5 DEF SpendingInv

LEMMA EvaluateKeepsPause ==
  ASSUME SpendingInv, NEW r \in Recorder, EvaluateLevel(r)
  PROVE  SpendingInv'
<1>1. SpendingShape'
  <2>1. PausedAfter(evaluating[r]) \in BOOLEAN
    BY DEF PausedAfter
  <2> QED BY <2>1 DEF SpendingInv, SpendingShape, EvaluateLevel, Evaluation
<1>2. OverHard' <=> OverHard
  BY DEF EvaluateLevel, OverHard
<1>3. OverHard /\ ~crossed => budgetPaused'
  BY DEF SpendingInv, PauseFollows, EvaluateLevel, PausedAfter
<1>4. PauseFollows'
  BY <1>2, <1>3 DEF SpendingInv, SpendingShape, PauseFollows, EvaluateLevel, Level
<1>5. SumsBounded'
  BY DEF SpendingInv, SumsBounded, EvaluateLevel
<1> QED BY <1>1, <1>4, <1>5 DEF SpendingInv

\* Sums that shrink, or an empty budget, reach no limit that was not reached before.
LEMMA LessKeepsPause == SpendingInv /\ (TimePasses \/ ResetBudget) => SpendingInv'
<1>1. ASSUME SpendingInv, TimePasses PROVE SpendingInv'
  <2>1. /\ hour' \in Nat /\ day' \in Nat /\ hour' <= hour /\ day' <= day
        /\ hour' <= day' /\ UNCHANGED <<ofTask, costs>>
    BY <1>1 DEF TimePasses, SpendingInv, SpendingShape
  <2>2. OverHard' => OverHard
    BY <1>1, <2>1, SpendingAssumption DEF TimePasses, OverHard, SpendingInv, SpendingShape
  <2>3. SumsBounded'
    BY <1>1, <2>1, SpendingAssumption DEF SpendingInv, SpendingShape, SumsBounded
  <2>4. SpendingShape' /\ PauseFollows'
    BY <1>1, <2>1, <2>2
       DEF TimePasses, SpendingInv, SpendingShape, PauseFollows, NobodyEvaluates
  <2> QED BY <2>3, <2>4 DEF SpendingInv
<1>2. ASSUME SpendingInv, ResetBudget PROVE SpendingInv'
  <2>1. ~OverHard'
    BY <1>2, SpendingAssumption DEF ResetBudget, OverHard
  <2>2. SpendingShape'
    <3>1. (~NobodyEvaluates) \in BOOLEAN
      BY DEF NobodyEvaluates
    <3> QED BY <1>2, <3>1 DEF ResetBudget, SpendingInv, SpendingShape, Level
  <2>3. PauseFollows'
    BY <1>2, <2>1 DEF ResetBudget, SpendingInv, PauseFollows, NobodyEvaluates
  <2>4. SumsBounded'
    BY <1>2 DEF ResetBudget, SpendingInv, SpendingShape, SumsBounded
  <2> QED BY <2>2, <2>3, <2>4 DEF SpendingInv
<1> QED BY <1>1, <1>2

LEMMA SpendingInvNext == SpendingInv /\ [SpendingNext]_spendingVars => SpendingInv'
<1>1. SpendingInv /\ UNCHANGED spendingVars => SpendingInv'
  BY DEF spendingVars, SpendingInv, SpendingShape, SumsBounded, PauseFollows, NobodyEvaluates, OverHard
<1> QED BY <1>1, RecordKeepsPause, DecideKeepsPause, EvaluateKeepsPause, LessKeepsPause
           DEF SpendingNext

LEMMA SpendingTypes == SpendingInv => SpendingTypeOK
<1> SUFFICES ASSUME SpendingInv PROVE SpendingTypeOK
  OBVIOUS
<1>1. /\ hour \in Nat /\ day \in Nat /\ costs \in Nat /\ ofTask \in [CostTask -> Nat]
      /\ MaxCosts \in Nat
  BY SpendingAssumption DEF SpendingInv, SpendingShape
<1>2. hour \in 0..day /\ day \in 0..(2 * MaxCosts)
  BY <1>1 DEF SpendingInv, SumsBounded
<1>3. \A t \in CostTask : ofTask[t] \in 0..(2 * MaxCosts)
  BY <1>1 DEF SpendingInv, SumsBounded
<1>4. ofTask \in [CostTask -> 0..(2 * MaxCosts)]
  BY <1>1, <1>3
<1> QED BY <1>2, <1>4 DEF SpendingInv, SpendingShape, SpendingTypeOK

\* "enforces thresholds with ... hard (pause) gates": for any threads, tasks, costs and limits,
\* costs that reach a hard limit have paused the agents once nobody evaluates, unless
\* evaluations overlapped and none has followed alone.
THEOREM CostsPause == SpendingSpec => []OverspendPauses
<1>1. SpendingInv => OverspendPauses
  BY DEF SpendingInv, PauseFollows, OverspendPauses
<1> QED BY <1>1, SpendingInvInit, SpendingInvNext, PTL DEF SpendingSpec

-----------------------------------------------------------------------------
\* Pauses and their answers: ApprovalGate

Pause == [task : GateTask, timeout : BOOLEAN, stale : BOOLEAN,
          status : Answer \cup {"pending", "timeout"}, resolved : Nat, audited : Nat]

OversightShape ==
  /\ pauses \in Seq(Pause)
  /\ waiting \in [GateTask -> 0..Len(pauses)]
  /\ sweep \in [todo : SUBSET (1..Len(pauses)), found : 0..Len(pauses)]
  /\ request \in {NoRequest} \cup [answer : Answer, object : 1..Len(pauses)]

Unanswered(o) == o.status \notin Answer /\ o.audited = 0

\* Whether in the gate or taken out by a request, an object has no person's answer yet, and
\* it is in one of the two.
AnsweredOnce ==
  /\ \A t \in GateTask : waiting[t] # 0 =>
       /\ pauses[waiting[t]].task = t /\ Unanswered(pauses[waiting[t]])
       /\ request.object # waiting[t]
  /\ request # NoRequest => Unanswered(pauses[request.object])
  /\ \A p \in 1..Len(pauses) : pauses[p].status \in Answer => pauses[p].audited = 1

\* What a sweep looks at is still the last pause of its task; what it has found is stale.
SweepIsCurrent ==
  /\ sweep.found # 0 => pauses[sweep.found].stale
  /\ \A p \in sweep.todo \cup ({sweep.found} \ {0}) : waiting[pauses[p].task] \in {0, p}

GateInv == OversightShape /\ AnsweredOnce /\ SweepIsCurrent /\ PauseNotLost


\* What an answer does to the objects.
LEMMA EndedPause ==
  ASSUME pauses \in Seq(Pause), NEW p \in 1..Len(pauses),
         NEW s \in Answer \cup {"pending", "timeout"}
  PROVE  /\ Ended(p, s) \in Seq(Pause) /\ Len(Ended(p, s)) = Len(pauses)
         /\ \A q \in 1..Len(pauses) :
              /\ q # p => Ended(p, s)[q] = pauses[q]
              /\ Ended(p, s)[q].task = pauses[q].task
              /\ Ended(p, s)[q].stale = pauses[q].stale
              /\ Ended(p, s)[q].audited = pauses[q].audited
         /\ Ended(p, s)[p].status = s
         /\ Ended(p, s)[p].resolved = pauses[p].resolved + 1 /\ Ended(p, s)[p].resolved > 0
<1> DEFINE ended == [pauses[p] EXCEPT !.status = s, !.resolved = pauses[p].resolved + 1]
<1>1. pauses[p] \in Pause
  OBVIOUS
<1>2. pauses[p].resolved \in Nat
  BY <1>1 DEF Pause
<1>3. pauses[p].resolved + 1 \in Nat /\ pauses[p].resolved + 1 > 0
  BY <1>2
<1>4. Ended(p, s) = [pauses EXCEPT ![p] = ended]
  BY <1>1, <1>3 DEF Ended, Pause
<1>5. ended \in Pause
  BY <1>1, <1>3 DEF Pause
<1>6. /\ ended.status = s /\ ended.resolved = pauses[p].resolved + 1 /\ ended.resolved > 0
      /\ ended.task = pauses[p].task /\ ended.stale = pauses[p].stale
      /\ ended.audited = pauses[p].audited
  BY <1>1, <1>3 DEF Pause
<1> HIDE DEF ended
<1> QED BY <1>4, <1>5, <1>6

\* Two entries of the dictionary are two objects.
LEMMA WaitingDiffer ==
  ASSUME GateInv, NEW t \in GateTask, NEW u \in GateTask, waiting[t] # 0, waiting[t] = waiting[u]
  PROVE  t = u
BY DEF GateInv, AnsweredOnce

LEMMA TaskOfPause ==
  ASSUME pauses \in Seq(Pause), NEW p \in 1..Len(pauses)
  PROVE  pauses[p].task \in GateTask
<1>1. pauses[p] \in Pause
  OBVIOUS
<1> QED BY <1>1 DEF Pause

LEMMA RequestObject ==
  ASSUME OversightShape, request # NoRequest
  PROVE  request.answer \in Answer /\ request.object \in 1..Len(pauses)
BY DEF OversightShape

LEMMA GateInvInit == OversightInit => GateInv
<1> SUFFICES ASSUME OversightInit PROVE GateInv
  OBVIOUS
<1>1. pauses = <<>> /\ Len(pauses) = 0 /\ DOMAIN pauses = {}
  BY DEF OversightInit
<1>2. OversightShape
  BY <1>1 DEF OversightInit, OversightShape, NoSweep
<1> QED
  BY <1>1, <1>2 DEF OversightInit, GateInv, AnsweredOnce, SweepIsCurrent, PauseNotLost,
                    NoSweep, NoRequest

LEMMA PauseKeepsGate ==
  ASSUME GateInv, NEW t \in GateTask, NEW timeout \in BOOLEAN, PauseTask(t, timeout)
  PROVE  GateInv'
<1> DEFINE new == [task |-> t, timeout |-> timeout, stale |-> FALSE,
                   status |-> "pending", resolved |-> 0, audited |-> 0]
           k == Len(pauses) + 1
<1>0. pauses \in Seq(Pause) /\ Len(pauses) \in Nat
  BY DEF GateInv, OversightShape
<1>1. new \in Pause
  BY DEF Pause
<1>2. /\ pauses' \in Seq(Pause) /\ Len(pauses') = k /\ pauses'[k] = new
      /\ \A p \in 1..Len(pauses) : pauses'[p] = pauses[p]
  <2>1. pauses' = Append(pauses, new)
    BY DEF PauseTask
  <2> QED BY <1>0, <1>1, <2>1
<1>3. waiting' = [waiting EXCEPT ![t] = k] /\ sweep = NoSweep /\ sweep' = NoSweep /\ request' = request
  BY <1>2 DEF PauseTask
<1>4. OversightShape'
  BY <1>0, <1>2, <1>3 DEF GateInv, OversightShape, NoSweep
<1>5. request.object \in 0..Len(pauses)
  BY RequestObject, <1>0 DEF GateInv, NoRequest
<1>6. AnsweredOnce'
  <2>2. ASSUME NEW u \in GateTask, waiting'[u] # 0
        PROVE  /\ pauses'[waiting'[u]].task = u /\ Unanswered(pauses'[waiting'[u]])
               /\ request'.object # waiting'[u]
    <3>1. CASE u = t
      <4>1. waiting'[u] = k
        BY <1>3, <3>1 DEF GateInv, OversightShape
      <4> QED BY <3>1, <4>1, <1>0, <1>2, <1>3, <1>5 DEF Unanswered, Answer
    <3>2. CASE u # t
      <4>1. waiting'[u] = waiting[u] /\ waiting[u] \in 1..Len(pauses)
        BY <1>0, <1>3, <2>2, <3>2 DEF GateInv, OversightShape
      <4>2. pauses[waiting[u]].task = u /\ Unanswered(pauses[waiting[u]]) /\ request.object # waiting[u]
        BY <2>2, <4>1 DEF GateInv, AnsweredOnce
      <4>3. pauses'[waiting[u]] = pauses[waiting[u]]
        BY <4>1, <1>2
      <4> QED BY <4>1, <4>2, <4>3, <1>3
    <3> QED BY <3>1, <3>2
  <2>3. ASSUME request' # NoRequest PROVE Unanswered(pauses'[request'.object])
    BY <1>2, <1>3, <2>3, RequestObject DEF GateInv, AnsweredOnce
  <2>4. ASSUME NEW p \in 1..Len(pauses'), pauses'[p].status \in Answer PROVE pauses'[p].audited = 1
    BY <1>0, <1>2, <2>4 DEF GateInv, AnsweredOnce, Answer
  <2> QED BY <2>2, <2>3, <2>4 DEF AnsweredOnce
<1>7. SweepIsCurrent'
  BY <1>3 DEF SweepIsCurrent, NoSweep
<1>8. PauseNotLost'
  <2> SUFFICES ASSUME NEW p \in 1..k
               PROVE  \/ waiting'[pauses'[p].task] = p
                      \/ request'.object = p
                      \/ pauses'[p].resolved > 0
                      \/ \E q \in 1..k : q > p /\ pauses'[q].task = pauses'[p].task
    <3>1. DOMAIN pauses' = 1..k
      BY <1>0, <1>2
    <3> QED BY <3>1 DEF PauseNotLost
  <2>1. CASE p = k
    BY <2>1, <1>2, <1>3 DEF GateInv, OversightShape
  <2>2. CASE p # k
    <3>1. p \in 1..Len(pauses) /\ pauses'[p] = pauses[p] /\ pauses[p] \in Pause
      BY <2>2, <1>0, <1>2
    <3>2. CASE pauses[p].task = t
      BY <3>1, <3>2, <1>0, <1>2
    <3>3. CASE pauses[p].task # t
      <4>1. waiting'[pauses[p].task] = waiting[pauses[p].task]
        BY <3>1, <3>3, <1>3 DEF GateInv, OversightShape, Pause
      <4>2. \/ waiting[pauses[p].task] = p \/ request.object = p \/ pauses[p].resolved > 0
            \/ \E q \in 1..Len(pauses) : q > p /\ pauses[q].task = pauses[p].task
        BY <3>1, <1>0 DEF GateInv, PauseNotLost
      <4> QED BY <3>1, <4>1, <4>2, <1>0, <1>2, <1>3
    <3> QED BY <3>2, <3>3
  <2> QED BY <2>1, <2>2
<1> QED BY <1>4, <1>6, <1>7, <1>8 DEF GateInv

LEMMA StaleKeepsGate ==
  ASSUME GateInv, NEW p \in DOMAIN pauses, GrowsStale(p)
  PROVE  GateInv'
<1> DEFINE old == pauses[p]
           aged == [old EXCEPT !.stale = TRUE]
<1>1. pauses \in Seq(Pause) /\ p \in 1..Len(pauses) /\ old \in Pause
  BY DEF GateInv, OversightShape
<1>2. /\ aged \in Pause /\ aged.stale /\ aged.task = old.task /\ aged.status = old.status
      /\ aged.resolved = old.resolved /\ aged.audited = old.audited
  BY <1>1 DEF Pause
<1>3. pauses' = [pauses EXCEPT ![p] = aged]
  BY <1>1 DEF GrowsStale
<1> HIDE DEF aged
<1>4. /\ pauses' \in Seq(Pause) /\ Len(pauses') = Len(pauses)
      /\ \A q \in 1..Len(pauses) :
           /\ pauses'[q].task = pauses[q].task /\ pauses'[q].status = pauses[q].status
           /\ pauses'[q].resolved = pauses[q].resolved /\ pauses'[q].audited = pauses[q].audited
           /\ pauses[q].stale => pauses'[q].stale
  BY <1>1, <1>2, <1>3
<1>5. UNCHANGED <<waiting, sweep, request>>
  BY DEF GrowsStale
<1>6. OversightShape'
  BY <1>4, <1>5 DEF GateInv, OversightShape
<1>7. AnsweredOnce'
  <2>1. \A t \in GateTask : waiting[t] \in 0..Len(pauses)
    BY DEF GateInv, OversightShape
  <2>2. request # NoRequest => request.object \in 1..Len(pauses)
    BY RequestObject DEF GateInv
  <2> QED BY <1>1, <1>4, <1>5, <2>1, <2>2 DEF GateInv, AnsweredOnce, Unanswered
<1>8. SweepIsCurrent'
  BY <1>1, <1>4, <1>5 DEF GateInv, SweepIsCurrent, OversightShape
<1>9. PauseNotLost'
  BY <1>1, <1>4, <1>5 DEF GateInv, PauseNotLost
<1> QED BY <1>6, <1>7, <1>8, <1>9 DEF GateInv

LEMMA SweepKeepsGate ==
  ASSUME GateInv, SweepStarts \/ \E p \in DOMAIN pauses : SweepLooks(p)
  PROVE  GateInv'
<1>1. UNCHANGED <<pauses, waiting, request>>
  BY DEF SweepStarts, SweepLooks
<1>2. AnsweredOnce' /\ PauseNotLost'
  BY <1>1 DEF GateInv, AnsweredOnce, PauseNotLost
<1>3. CASE SweepStarts
  <2>1. sweep' = [todo |-> {waiting[t] : t \in GateTask} \ {0}, found |-> 0]
    BY <1>3 DEF SweepStarts
  <2>2. OversightShape'
    BY <1>1, <2>1 DEF GateInv, OversightShape
  <2>3. SweepIsCurrent'
    BY <1>1, <2>1 DEF GateInv, SweepIsCurrent, AnsweredOnce
  <2> QED BY <1>2, <2>2, <2>3 DEF GateInv
<1>4. ASSUME NEW p \in DOMAIN pauses, SweepLooks(p) PROVE GateInv'
  <2>1. /\ sweep' = [todo |-> sweep.todo \ {p}, found |-> Found(p)]
        /\ p \in sweep.todo
        /\ Found(p) \in {0, p} /\ (Found(p) # 0 => pauses[p].stale)
    BY <1>4 DEF SweepLooks, Found
  <2>2. OversightShape'
    BY <1>1, <2>1 DEF GateInv, OversightShape
  <2>3. SweepIsCurrent'
    BY <1>1, <2>1 DEF GateInv, SweepIsCurrent
  <2> QED BY <1>2, <2>2, <2>3 DEF GateInv
<1> QED BY <1>3, <1>4

LEMMA ApproveKeepsGate == GateInv /\ SweepApproves => GateInv'
<1> SUFFICES ASSUME GateInv, SweepApproves PROVE GateInv'
  OBVIOUS
<1> DEFINE p == sweep.found
           t == pauses[p].task
<1>1. pauses \in Seq(Pause) /\ p \in 1..Len(pauses) /\ pauses[p] \in Pause /\ t \in GateTask
  <2>1. pauses \in Seq(Pause) /\ p \in 1..Len(pauses)
    BY DEF GateInv, OversightShape, SweepApproves
  <2>2. pauses[p] \in Pause
    BY <2>1
  <2> QED BY <2>1, <2>2 DEF Pause
<1>2. /\ pauses' = Ended(p, "timeout") /\ waiting' = [waiting EXCEPT ![t] = 0]
      /\ sweep' = [sweep EXCEPT !.found = 0] /\ request' = request
  BY DEF SweepApproves
<1>3. /\ pauses' \in Seq(Pause) /\ Len(pauses') = Len(pauses)
      /\ \A q \in 1..Len(pauses) :
           /\ q # p => pauses'[q] = pauses[q]
           /\ pauses'[q].task = pauses[q].task
           /\ pauses'[q].stale = pauses[q].stale
           /\ pauses'[q].audited = pauses[q].audited
      /\ pauses'[p].status = "timeout" /\ pauses'[p].resolved > 0
  BY <1>1, <1>2, EndedPause
<1>4. waiting[t] \in {0, p}
  BY <1>1 DEF GateInv, SweepIsCurrent
<1>5. OversightShape'
  <2>1. waiting' \in [GateTask -> 0..Len(pauses)]
    BY <1>1, <1>2 DEF GateInv, OversightShape
  <2>2. sweep' \in [todo : SUBSET (1..Len(pauses)), found : 0..Len(pauses)]
    <3>1. sweep \in [todo : SUBSET (1..Len(pauses)), found : 0..Len(pauses)]
      BY DEF GateInv, OversightShape
    <3>2. 0 \in 0..Len(pauses)
      BY <1>1
    <3> QED BY <1>2, <3>1, <3>2
  <2> QED BY <1>2, <1>3, <2>1, <2>2 DEF GateInv, OversightShape
<1>6. AnsweredOnce'
  <2>1. ASSUME NEW u \in GateTask, waiting'[u] # 0
        PROVE  /\ pauses'[waiting'[u]].task = u /\ Unanswered(pauses'[waiting'[u]])
               /\ request'.object # waiting'[u]
    <3>1. u # t /\ waiting'[u] = waiting[u] /\ waiting[u] \in 1..Len(pauses)
      BY <1>1, <1>2, <2>1 DEF GateInv, OversightShape
    <3>2. pauses[waiting[u]].task = u /\ Unanswered(pauses[waiting[u]]) /\ request.object # waiting[u]
      BY <2>1, <3>1 DEF GateInv, AnsweredOnce
    <3>3. waiting[u] # p
      BY <3>1, <3>2
    <3> QED BY <1>2, <1>3, <3>1, <3>2, <3>3
  <2>2. ASSUME NEW q \in 1..Len(pauses), Unanswered(pauses[q]) PROVE Unanswered(pauses'[q])
    BY <1>1, <1>3, <2>2 DEF Unanswered, Answer
  <2>3. ASSUME request' # NoRequest PROVE Unanswered(pauses'[request'.object])
    BY <1>2, <2>2, <2>3, RequestObject DEF GateInv, AnsweredOnce
  <2>4. ASSUME NEW q \in 1..Len(pauses'), pauses'[q].status \in Answer PROVE pauses'[q].audited = 1
    BY <1>1, <1>3, <2>4 DEF GateInv, AnsweredOnce, Answer
  <2> QED BY <2>1, <2>3, <2>4 DEF AnsweredOnce
<1>7. SweepIsCurrent'
  <2>1. sweep'.todo = sweep.todo /\ sweep'.found = 0 /\ sweep.todo \subseteq 1..Len(pauses)
    BY <1>2 DEF GateInv, OversightShape
  <2>2. \A u \in GateTask : waiting'[u] \in {0, waiting[u]}
    BY <1>2 DEF GateInv, OversightShape
  <2>3. \A q \in sweep.todo : pauses[q].task \in GateTask
    BY <1>1, <2>1, TaskOfPause
  <2> QED BY <1>3, <2>1, <2>2, <2>3 DEF GateInv, SweepIsCurrent
<1>8. PauseNotLost'
  <2> SUFFICES ASSUME NEW q \in 1..Len(pauses)
               PROVE  \/ waiting'[pauses'[q].task] = q
                      \/ request'.object = q
                      \/ pauses'[q].resolved > 0
                      \/ \E r \in 1..Len(pauses) : r > q /\ pauses'[r].task = pauses'[q].task
    BY <1>3 DEF PauseNotLost
  <2>1. CASE q = p
    BY <1>3, <2>1
  <2>2. CASE q # p
    <3>1. pauses'[q] = pauses[q] /\ pauses[q].task \in GateTask
      BY <1>1, <1>3, <2>2, TaskOfPause
    <3>2. waiting[pauses[q].task] = q => waiting'[pauses[q].task] = q
      BY <1>1, <1>2, <1>4, <2>2, <3>1 DEF GateInv, OversightShape
    <3>3. \/ waiting[pauses[q].task] = q \/ request.object = q \/ pauses[q].resolved > 0
          \/ \E r \in 1..Len(pauses) : r > q /\ pauses[r].task = pauses[q].task
      BY <1>1 DEF GateInv, PauseNotLost
    <3> QED BY <1>2, <1>3, <3>1, <3>2, <3>3
  <2> QED BY <2>1, <2>2
<1> QED BY <1>5, <1>6, <1>7, <1>8 DEF GateInv

LEMMA TakesKeepsGate ==
  ASSUME GateInv, NEW t \in GateTask, NEW a \in Answer, Takes(t, a)
  PROVE  GateInv'
<1> DEFINE p == waiting[t]
<1>1. pauses \in Seq(Pause) /\ p \in 1..Len(pauses) /\ pauses[p].task = t /\ Unanswered(pauses[p])
  BY DEF GateInv, OversightShape, AnsweredOnce, Takes
<1>2. /\ request = NoRequest /\ request' = [answer |-> a, object |-> p]
      /\ waiting' = [waiting EXCEPT ![t] = 0] /\ pauses' = pauses /\ sweep' = sweep
  BY DEF Takes
<1>3. OversightShape'
  BY <1>1, <1>2 DEF GateInv, OversightShape
<1>4. AnsweredOnce'
  <2>1. ASSUME NEW u \in GateTask, waiting'[u] # 0
        PROVE  /\ pauses[waiting'[u]].task = u /\ Unanswered(pauses[waiting'[u]])
               /\ request'.object # waiting'[u]
    <3>1. u # t /\ waiting'[u] = waiting[u]
      BY <1>2, <2>1 DEF GateInv, OversightShape
    <3> QED BY <1>1, <1>2, <2>1, <3>1 DEF GateInv, AnsweredOnce
  <2>2. Unanswered(pauses[request'.object])
    BY <1>1, <1>2
  <2> QED BY <1>2, <2>1, <2>2 DEF GateInv, AnsweredOnce
<1>5. SweepIsCurrent'
  <2>1. \A u \in GateTask : waiting'[u] \in {0, waiting[u]}
    BY <1>2 DEF GateInv, OversightShape
  <2>2. sweep.todo \cup ({sweep.found} \ {0}) \subseteq 1..Len(pauses)
    BY DEF GateInv, OversightShape
  <2>3. \A q \in 1..Len(pauses) : pauses[q].task \in GateTask
    BY <1>1, TaskOfPause
  <2> QED BY <1>2, <2>1, <2>2, <2>3 DEF GateInv, SweepIsCurrent
<1>6. PauseNotLost'
  <2> SUFFICES ASSUME NEW q \in 1..Len(pauses)
               PROVE  \/ waiting'[pauses[q].task] = q
                      \/ request'.object = q
                      \/ pauses[q].resolved > 0
                      \/ \E r \in 1..Len(pauses) : r > q /\ pauses[r].task = pauses[q].task
    BY <1>1, <1>2 DEF PauseNotLost
  <2>1. pauses[q].task \in GateTask
    BY <1>1, TaskOfPause
  <2>2. waiting[pauses[q].task] = q => waiting'[pauses[q].task] = q \/ request'.object = q
    BY <1>1, <1>2, <2>1 DEF GateInv, OversightShape
  <2>3. \/ waiting[pauses[q].task] = q \/ pauses[q].resolved > 0
        \/ \E r \in 1..Len(pauses) : r > q /\ pauses[r].task = pauses[q].task
    BY <1>1, <1>2 DEF GateInv, PauseNotLost, NoRequest
  <2> QED BY <2>2, <2>3
<1> QED BY <1>3, <1>4, <1>5, <1>6 DEF GateInv

\* What a person's answer does to the object.
LEMMA AnsweredPause ==
  ASSUME GateInv, Answers
  PROVE  LET p == request.object IN
         /\ p \in 1..Len(pauses) /\ Unanswered(pauses[p])
         /\ pauses' \in Seq(Pause) /\ Len(pauses') = Len(pauses)
         /\ \A q \in 1..Len(pauses) :
              /\ q # p => pauses'[q] = pauses[q]
              /\ pauses'[q].task = pauses[q].task
              /\ pauses'[q].stale = pauses[q].stale
         /\ pauses'[p].status \in Answer /\ pauses'[p].audited = 1
         /\ pauses'[p].resolved = pauses[p].resolved + 1 /\ pauses'[p].resolved > 0
         /\ waiting' = waiting /\ sweep' = sweep /\ request' = NoRequest
<1> DEFINE p == request.object
           e == Ended(p, request.answer)
<1>1. /\ pauses \in Seq(Pause) /\ p \in 1..Len(pauses) /\ request.answer \in Answer
      /\ Unanswered(pauses[p])
  BY RequestObject DEF GateInv, OversightShape, AnsweredOnce, Answers
<1>2. /\ e \in Seq(Pause) /\ Len(e) = Len(pauses)
      /\ \A q \in 1..Len(pauses) :
           /\ q # p => e[q] = pauses[q]
           /\ e[q].task = pauses[q].task /\ e[q].stale = pauses[q].stale
           /\ e[q].audited = pauses[q].audited
      /\ e[p].status = request.answer /\ e[p].resolved > 0
      /\ e[p].resolved = pauses[p].resolved + 1
  BY <1>1, EndedPause
<1>3. /\ pauses' = [e EXCEPT ![p].audited = e[p].audited + 1]
      /\ waiting' = waiting /\ sweep' = sweep /\ request' = NoRequest
  BY DEF Answers
<1> HIDE DEF e
<1>4. e[p] \in Pause /\ e[p].audited + 1 = 1
  BY <1>1, <1>2 DEF Unanswered
<1> DEFINE done == [e[p] EXCEPT !.audited = 1]
<1>5. /\ done \in Pause /\ done.task = pauses[p].task /\ done.stale = pauses[p].stale
      /\ done.status = request.answer /\ done.resolved = e[p].resolved /\ done.audited = 1
  BY <1>1, <1>2, <1>4 DEF Pause
<1>6. pauses' = [e EXCEPT ![p] = done]
  BY <1>3, <1>4
<1> HIDE DEF done
<1>7. /\ pauses' \in Seq(Pause) /\ Len(pauses') = Len(pauses)
      /\ \A q \in 1..Len(pauses) :
           /\ q # p => pauses'[q] = pauses[q]
           /\ pauses'[q].task = pauses[q].task
           /\ pauses'[q].stale = pauses[q].stale
      /\ pauses'[p] = done
  BY <1>1, <1>2, <1>5, <1>6
<1> QED BY <1>1, <1>2, <1>3, <1>5, <1>7

LEMMA AnswerKeepsGate == GateInv /\ Answers => GateInv'
<1> SUFFICES ASSUME GateInv, Answers PROVE GateInv'
  OBVIOUS
<1> DEFINE p == request.object
<1>1. /\ pauses \in Seq(Pause) /\ p \in 1..Len(pauses) /\ Unanswered(pauses[p])
  BY AnsweredPause DEF GateInv, OversightShape
<1>2. waiting' = waiting /\ sweep' = sweep /\ request' = NoRequest
  BY DEF Answers
<1>3. /\ pauses' \in Seq(Pause) /\ Len(pauses') = Len(pauses)
      /\ \A q \in 1..Len(pauses) :
           /\ q # p => pauses'[q] = pauses[q]
           /\ pauses'[q].task = pauses[q].task
           /\ pauses'[q].stale = pauses[q].stale
      /\ pauses'[p].status \in Answer /\ pauses'[p].resolved > 0 /\ pauses'[p].audited = 1
  BY AnsweredPause
<1>4. OversightShape'
  BY <1>2, <1>3 DEF GateInv, OversightShape
<1>5. AnsweredOnce'
  <2>1. ASSUME NEW u \in GateTask, waiting[u] # 0
        PROVE  pauses'[waiting[u]].task = u /\ Unanswered(pauses'[waiting[u]])
    <3>1. waiting[u] \in 1..Len(pauses)
      BY <1>1, <2>1 DEF GateInv, OversightShape
    <3> QED BY <1>3, <2>1, <3>1 DEF GateInv, AnsweredOnce
  <2>2. \A q \in 1..Len(pauses) : pauses'[q].status \in Answer => pauses'[q].audited = 1
    BY <1>1, <1>3 DEF GateInv, AnsweredOnce
  <2>3. \A u \in GateTask : waiting[u] # 0 => 0 # waiting[u]
    OBVIOUS
  <2> QED BY <1>2, <1>3, <2>1, <2>2, <2>3 DEF AnsweredOnce, NoRequest
<1>6. SweepIsCurrent'
  <2>1. /\ sweep.todo \subseteq 1..Len(pauses)
        /\ sweep.found # 0 => sweep.found \in 1..Len(pauses)
    BY <1>1 DEF GateInv, OversightShape
  <2> QED BY <1>2, <1>3, <2>1 DEF GateInv, SweepIsCurrent
<1>7. PauseNotLost'
  <2> SUFFICES ASSUME NEW q \in 1..Len(pauses)
               PROVE  \/ waiting[pauses'[q].task] = q
                      \/ pauses'[q].resolved > 0
                      \/ \E r \in 1..Len(pauses) : r > q /\ pauses'[r].task = pauses'[q].task
    BY <1>2, <1>3 DEF PauseNotLost
  <2>1. CASE q = p
    BY <1>3, <2>1
  <2>2. CASE q # p
    <3>1. \/ waiting[pauses[q].task] = q \/ pauses[q].resolved > 0
          \/ \E r \in 1..Len(pauses) : r > q /\ pauses[r].task = pauses[q].task
      BY <1>1, <2>2 DEF GateInv, PauseNotLost
    <3> QED BY <1>3, <2>2, <3>1
  <2> QED BY <2>1, <2>2
<1> QED BY <1>4, <1>5, <1>6, <1>7 DEF GateInv

LEMMA GateInvNext == GateInv /\ [OversightNext]_oversightVars => GateInv'
<1>1. GateInv /\ UNCHANGED <<pauses, waiting, sweep, request>> => GateInv'
  BY DEF GateInv, OversightShape, AnsweredOnce, SweepIsCurrent, PauseNotLost
<1>2. GateInv /\ UNCHANGED oversightVars => GateInv'
  BY <1>1 DEF oversightVars
<1>3. GateInv /\ (\E t \in GateTask : Escalate(t)) => GateInv'
  BY <1>1 DEF Escalate
<1>4. GateInv /\ (\E e \in DOMAIN escalations, a \in Answer : AnswersEscalation(e, a)) => GateInv'
  BY <1>1 DEF AnswersEscalation
<1> QED
  BY <1>2, <1>3, <1>4, PauseKeepsGate, StaleKeepsGate, SweepKeepsGate, ApproveKeepsGate,
     TakesKeepsGate, AnswerKeepsGate
     DEF OversightNext

\* "Pause running tasks for human review": for any tasks and pauses, a pause waits, is being
\* answered, has an answer or was replaced, wherever a request meets the sweep.
THEOREM PausesAreAnswered == OversightSpec => []PauseNotLost
<1>1. GateInv => PauseNotLost
  BY DEF GateInv
<1> QED BY <1>1, GateInvInit, GateInvNext, PTL DEF OversightSpec

\* "Approve/Reject paused tasks", "Full audit trail": for any tasks and pauses, a person's answer
\* to a pause that was not stale is in the audit log once and is never changed.
THEOREM HumanAnswersStand == OversightSpec => HumanAnswerStands
<1> DEFINE Stands == \A p \in DOMAIN pauses :
             pauses[p].status \in Answer /\ ~pauses[p].stale =>
               pauses'[p].status = pauses[p].status /\ pauses'[p].audited = 1
<1>1. ASSUME GateInv, [OversightNext]_oversightVars PROVE [Stands]_oversightVars
  <2> SUFFICES ASSUME NEW p \in 1..Len(pauses), pauses[p].status \in Answer, ~pauses[p].stale,
                      OversightNext
               PROVE  pauses'[p].status = pauses[p].status /\ pauses'[p].audited = 1
    BY <1>1 DEF GateInv, OversightShape
  <2>1. pauses \in Seq(Pause) /\ pauses[p].audited = 1 /\ pauses[p] \in Pause
    BY <1>1 DEF GateInv, OversightShape, AnsweredOnce
  <2>2. CASE pauses' = pauses
    BY <2>1, <2>2
  <2>3. ASSUME NEW t \in GateTask, NEW timeout \in BOOLEAN, PauseTask(t, timeout)
        PROVE  pauses'[p] = pauses[p]
    BY <2>1, <2>3 DEF PauseTask
  <2>4. ASSUME NEW q \in DOMAIN pauses, GrowsStale(q)
        PROVE  pauses'[p].status = pauses[p].status /\ pauses'[p].audited = pauses[p].audited
    BY <2>1, <2>4 DEF GrowsStale, Pause
  <2>5. ASSUME SweepApproves PROVE pauses'[p] = pauses[p]
    <3>1. sweep.found \in 1..Len(pauses) /\ pauses[sweep.found].stale
      BY <1>1, <2>5 DEF SweepApproves, GateInv, OversightShape, SweepIsCurrent
    <3>2. pauses' = Ended(sweep.found, "timeout")
      BY <2>5 DEF SweepApproves
    <3>3. sweep.found # p
      BY <3>1
    <3> QED BY <2>1, <3>1, <3>2, <3>3, EndedPause
  <2>6. ASSUME Answers PROVE pauses'[p] = pauses[p]
    <3>1. /\ request.object \in 1..Len(pauses) /\ request.answer \in Answer
          /\ request.object # p
      BY <1>1, <2>1, <2>6, RequestObject DEF Answers, GateInv, AnsweredOnce, Unanswered
    <3> DEFINE e == Ended(request.object, request.answer)
    <3>2. e \in Seq(Pause) /\ Len(e) = Len(pauses) /\ e[p] = pauses[p]
      BY <2>1, <3>1, EndedPause
    <3>3. pauses' = [e EXCEPT ![request.object].audited = e[request.object].audited + 1]
      BY <2>6 DEF Answers
    <3> HIDE DEF e
    <3> QED BY <3>1, <3>2, <3>3
  <2>7. pauses' = pauses \/ (\E t \in GateTask, timeout \in BOOLEAN : PauseTask(t, timeout))
          \/ (\E q \in DOMAIN pauses : GrowsStale(q)) \/ SweepApproves \/ Answers
    BY DEF OversightNext, Escalate, Takes, SweepLooks, SweepStarts, AnswersEscalation
  <2> QED BY <2>1, <2>2, <2>3, <2>4, <2>5, <2>6, <2>7
<1> HIDE DEF Stands
<1>2. OversightInit /\ [][OversightNext]_oversightVars => []GateInv
  BY GateInvInit, GateInvNext, PTL
<1>3. OversightSpec => [][Stands]_oversightVars
  BY <1>1, <1>2, PTL DEF OversightSpec
<1> QED BY <1>3 DEF Stands, HumanAnswerStands

\* An object ends twice at most: by the sweep, and by a person.  While the sweep may still
\* come to it, the answer of a person is the only one.
EndsAccounted ==
  /\ \A p \in 1..Len(pauses) :
       pauses[p].audited <= 1 /\ pauses[p].resolved <= pauses[p].audited + 1
  /\ \A p \in sweep.todo \cup ({sweep.found} \ {0}) : pauses[p].resolved = pauses[p].audited
  /\ \A t \in GateTask : waiting[t] # 0 => pauses[waiting[t]].resolved = 0
  /\ sweep.found \notin sweep.todo

Escalation == [task : GateTask, status : Answer \cup {"pending"}]

EscalationsQueued ==
  /\ escalations \in Seq(Escalation) /\ escalated \subseteq 1..Len(escalations)
  /\ \A e \in 1..Len(escalations) : (escalations[e].status = "pending") <=> e \in escalated

GateCounts == EndsAccounted /\ EscalationsQueued

LEMMA PauseCounts ==
  ASSUME pauses \in Seq(Pause), NEW p \in 1..Len(pauses)
  PROVE  pauses[p].resolved \in Nat /\ pauses[p].audited \in Nat
<1>1. pauses[p] \in Pause
  OBVIOUS
<1> QED BY <1>1 DEF Pause

LEMMA GateCountsInit == OversightInit => GateCounts
<1> SUFFICES ASSUME OversightInit PROVE GateCounts
  OBVIOUS
<1>1. /\ pauses = <<>> /\ Len(pauses) = 0 /\ escalations = <<>> /\ Len(escalations) = 0
      /\ escalated = {} /\ waiting = [t \in GateTask |-> 0] /\ sweep = NoSweep
  BY DEF OversightInit
<1> QED BY <1>1 DEF GateCounts, EndsAccounted, EscalationsQueued, NoSweep

LEMMA PauseKeepsCounts ==
  ASSUME GateInv, EndsAccounted, NEW t \in GateTask, NEW timeout \in BOOLEAN, PauseTask(t, timeout)
  PROVE  EndsAccounted'
<1> DEFINE new == [task |-> t, timeout |-> timeout, stale |-> FALSE,
                   status |-> "pending", resolved |-> 0, audited |-> 0]
           k == Len(pauses) + 1
<1>1. pauses \in Seq(Pause) /\ Len(pauses) \in Nat /\ pauses' = Append(pauses, new)
  BY DEF GateInv, OversightShape, PauseTask
<1>2. Len(pauses') = k /\ pauses'[k] = new /\ \A p \in 1..Len(pauses) : pauses'[p] = pauses[p]
  BY <1>1
<1>3. new.resolved = 0 /\ new.audited = 0
  OBVIOUS
<1> HIDE DEF new
<1>4. /\ waiting' = [waiting EXCEPT ![t] = k] /\ sweep' = NoSweep
      /\ waiting \in [GateTask -> 0..Len(pauses)]
  BY <1>2 DEF PauseTask, GateInv, OversightShape
<1>5. \A u \in GateTask : waiting'[u] # 0 => pauses'[waiting'[u]].resolved = 0
  <2> SUFFICES ASSUME NEW u \in GateTask, waiting'[u] # 0 PROVE pauses'[waiting'[u]].resolved = 0
    OBVIOUS
  <2>1. CASE u = t
    BY <1>2, <1>3, <1>4, <2>1
  <2>2. CASE u # t
    <3>1. waiting'[u] = waiting[u] /\ waiting[u] \in 1..Len(pauses)
      BY <1>1, <1>4, <2>2
    <3> QED BY <1>2, <3>1 DEF EndsAccounted
  <2> QED BY <2>1, <2>2
<1>6. ASSUME NEW p \in 1..k
      PROVE  pauses'[p].audited <= 1 /\ pauses'[p].resolved <= pauses'[p].audited + 1
  <2>1. CASE p = k
    BY <1>2, <1>3, <2>1
  <2>2. CASE p # k
    BY <1>1, <1>2, <2>2 DEF EndsAccounted
  <2> QED BY <2>1, <2>2
<1> QED BY <1>2, <1>4, <1>5, <1>6 DEF EndsAccounted, NoSweep

LEMMA SweepKeepsCounts ==
  ASSUME GateInv, EndsAccounted, SweepStarts \/ (\E p \in DOMAIN pauses : SweepLooks(p))
  PROVE  EndsAccounted'
<1>1. /\ UNCHANGED <<pauses, waiting>> /\ pauses \in Seq(Pause)
      /\ \A t \in GateTask : waiting[t] \in 0..Len(pauses)
  BY DEF SweepStarts, SweepLooks, GateInv, OversightShape
<1>2. CASE SweepStarts
  <2>1. sweep' = [todo |-> {waiting[t] : t \in GateTask} \ {0}, found |-> 0]
    BY <1>2 DEF SweepStarts
  <2>2. ASSUME NEW t \in GateTask, waiting[t] # 0
        PROVE  pauses[waiting[t]].resolved = pauses[waiting[t]].audited
    BY <2>2 DEF EndsAccounted, GateInv, AnsweredOnce, Unanswered
  <2> QED BY <1>1, <2>1, <2>2 DEF EndsAccounted
<1>3. ASSUME NEW p \in DOMAIN pauses, SweepLooks(p) PROVE EndsAccounted'
  <2>1. /\ sweep' = [todo |-> sweep.todo \ {p}, found |-> Found(p)]
        /\ p \in sweep.todo /\ Found(p) \in {0, p} /\ 0 \notin sweep.todo
    BY <1>3 DEF SweepLooks, Found, GateInv, OversightShape
  <2> QED BY <1>1, <2>1 DEF EndsAccounted
<1> QED BY <1>2, <1>3

LEMMA ApproveKeepsCounts == GateInv /\ EndsAccounted /\ SweepApproves => EndsAccounted'
<1> SUFFICES ASSUME GateInv, EndsAccounted, SweepApproves PROVE EndsAccounted'
  OBVIOUS
<1> DEFINE p == sweep.found
           t == pauses[p].task
<1>1. /\ pauses \in Seq(Pause) /\ p \in 1..Len(pauses) /\ sweep.todo \subseteq 1..Len(pauses)
      /\ \A u \in GateTask : waiting[u] \in 0..Len(pauses)
  BY DEF GateInv, OversightShape, SweepApproves
<1>2. t \in GateTask /\ pauses[p].resolved \in Nat /\ pauses[p].resolved = pauses[p].audited
  BY <1>1, TaskOfPause, PauseCounts DEF EndsAccounted
<1>3. /\ pauses' = Ended(p, "timeout") /\ waiting' = [waiting EXCEPT ![t] = 0]
      /\ sweep' = [sweep EXCEPT !.found = 0] /\ waiting \in [GateTask -> 0..Len(pauses)]
  BY DEF SweepApproves, GateInv, OversightShape
<1>4. /\ Len(pauses') = Len(pauses)
      /\ \A q \in 1..Len(pauses) : q # p => pauses'[q] = pauses[q]
      /\ pauses'[p].audited = pauses[p].audited /\ pauses'[p].resolved = pauses[p].resolved + 1
  BY <1>1, <1>3, EndedPause
<1>5. sweep'.todo = sweep.todo /\ sweep'.found = 0
  BY <1>3 DEF GateInv, OversightShape
<1>6. ASSUME NEW u \in GateTask, waiting'[u] # 0
      PROVE  waiting'[u] = waiting[u] /\ waiting[u] # p
  <2>1. u # t /\ waiting'[u] = waiting[u]
    BY <1>2, <1>3, <1>6
  <2> QED BY <1>6, <2>1 DEF GateInv, AnsweredOnce
<1>7. \A q \in 1..Len(pauses) :
        pauses'[q].audited <= 1 /\ pauses'[q].resolved <= pauses'[q].audited + 1
  BY <1>1, <1>2, <1>4 DEF EndsAccounted
<1>8. \A u \in GateTask : waiting'[u] # 0 => pauses'[waiting'[u]].resolved = 0
  BY <1>1, <1>4, <1>6 DEF EndsAccounted
<1>9. p \notin sweep.todo
  BY DEF EndsAccounted
<1>10. \A q \in sweep.todo : pauses'[q].resolved = pauses'[q].audited
  BY <1>1, <1>4, <1>9 DEF EndsAccounted
<1>11. 0 \notin sweep.todo
  BY <1>1
<1> QED BY <1>4, <1>5, <1>7, <1>8, <1>10, <1>11 DEF EndsAccounted

LEMMA AnswerKeepsCounts == GateInv /\ EndsAccounted /\ Answers => EndsAccounted'
<1> SUFFICES ASSUME GateInv, EndsAccounted, Answers PROVE EndsAccounted'
  OBVIOUS
<1> DEFINE p == request.object
<1>1. /\ pauses \in Seq(Pause) /\ sweep.todo \subseteq 1..Len(pauses)
      /\ sweep.found # 0 => sweep.found \in 1..Len(pauses)
      /\ \A u \in GateTask : waiting[u] \in 0..Len(pauses)
  BY DEF GateInv, OversightShape
<1>2. /\ p \in 1..Len(pauses) /\ pauses[p].audited = 0
      /\ Len(pauses') = Len(pauses) /\ \A q \in 1..Len(pauses) : q # p => pauses'[q] = pauses[q]
      /\ pauses'[p].audited = 1 /\ pauses'[p].resolved = pauses[p].resolved + 1
      /\ waiting' = waiting /\ sweep' = sweep
  BY AnsweredPause DEF Unanswered
<1>3. pauses[p].resolved \in Nat /\ pauses[p].resolved <= 1
  BY <1>1, <1>2, PauseCounts DEF EndsAccounted
<1>4. \A u \in GateTask : waiting[u] # 0 => waiting[u] # p
  BY <1>2 DEF GateInv, AnsweredOnce, Answers
<1>5. \A q \in 1..Len(pauses) :
        pauses'[q].audited <= 1 /\ pauses'[q].resolved <= pauses'[q].audited + 1
  BY <1>2, <1>3 DEF EndsAccounted
<1>6. \A q \in sweep.todo \cup ({sweep.found} \ {0}) : pauses'[q].resolved = pauses'[q].audited
  BY <1>1, <1>2 DEF EndsAccounted
<1>7. \A u \in GateTask : waiting[u] # 0 => pauses'[waiting[u]].resolved = 0
  BY <1>1, <1>2, <1>4 DEF EndsAccounted
<1> QED BY <1>2, <1>5, <1>6, <1>7 DEF EndsAccounted

LEMMA OtherStepsKeepCounts ==
  ASSUME GateInv, EndsAccounted,
         \/ \E p \in DOMAIN pauses : GrowsStale(p)
         \/ \E t \in GateTask, a \in Answer : Takes(t, a)
         \/ UNCHANGED <<pauses, waiting, sweep>>
  PROVE  EndsAccounted'
<1>1. /\ pauses \in Seq(Pause) /\ sweep.todo \subseteq 1..Len(pauses)
      /\ sweep.found # 0 => sweep.found \in 1..Len(pauses)
      /\ waiting \in [GateTask -> 0..Len(pauses)]
  BY DEF GateInv, OversightShape
<1>2. ASSUME NEW p \in DOMAIN pauses, GrowsStale(p) PROVE EndsAccounted'
  <2>1. pauses[p] \in Pause /\ p \in 1..Len(pauses)
    BY <1>1
  <2>2. pauses' = [pauses EXCEPT ![p] = [pauses[p] EXCEPT !.stale = TRUE]]
        /\ UNCHANGED <<waiting, sweep>>
    BY <1>1, <1>2 DEF GrowsStale
  <2> DEFINE aged == [pauses[p] EXCEPT !.stale = TRUE]
  <2>3. aged.audited = pauses[p].audited /\ aged.resolved = pauses[p].resolved
    BY <2>1 DEF Pause
  <2> HIDE DEF aged
  <2>4. /\ Len(pauses') = Len(pauses)
        /\ \A q \in 1..Len(pauses) : /\ pauses'[q].audited = pauses[q].audited
                                     /\ pauses'[q].resolved = pauses[q].resolved
    BY <1>1, <2>1, <2>2, <2>3
  <2> QED BY <1>1, <2>2, <2>4 DEF EndsAccounted
<1>3. ASSUME NEW t \in GateTask, NEW a \in Answer, Takes(t, a) PROVE EndsAccounted'
  <2>1. UNCHANGED <<pauses, sweep>> /\ waiting' = [waiting EXCEPT ![t] = 0]
    BY <1>3 DEF Takes
  <2>2. \A u \in GateTask : waiting'[u] \in {0, waiting[u]}
    BY <1>1, <2>1
  <2> QED BY <2>1, <2>2 DEF EndsAccounted
<1>4. CASE UNCHANGED <<pauses, waiting, sweep>>
  BY <1>4 DEF EndsAccounted
<1> QED BY <1>2, <1>3, <1>4

LEMMA EscalationsKept ==
  EscalationsQueued /\ [OversightNext]_oversightVars => EscalationsQueued'
<1> SUFFICES ASSUME EscalationsQueued, [OversightNext]_oversightVars PROVE EscalationsQueued'
  OBVIOUS
<1>1. CASE UNCHANGED <<escalations, escalated>>
  BY <1>1 DEF EscalationsQueued
<1>2. ASSUME NEW t \in GateTask, Escalate(t) PROVE EscalationsQueued'
  <2> DEFINE new == [task |-> t, status |-> "pending"]
             k == Len(escalations) + 1
  <2>1. new \in Escalation /\ new.status = "pending"
    BY DEF Escalation
  <2>2. /\ escalations' = Append(escalations, new) /\ escalations \in Seq(Escalation)
        /\ escalated' = escalated \cup {Len(escalations')}
    BY <1>2 DEF Escalate, EscalationsQueued
  <2> HIDE DEF new
  <2>3. /\ escalations' \in Seq(Escalation) /\ Len(escalations') = k /\ escalations'[k] = new
        /\ k \in Nat /\ \A e \in 1..Len(escalations) : escalations'[e] = escalations[e]
    BY <2>1, <2>2
  <2>4. escalated \subseteq 1..Len(escalations) /\ escalated' = escalated \cup {k}
    BY <2>2, <2>3 DEF EscalationsQueued
  <2>5. Len(escalations) \in Nat /\ escalated' \subseteq 1..k
    <3>1. Len(escalations) \in Nat
      BY <2>2
    <3>2. 1..Len(escalations) \subseteq 1..k /\ k \in 1..k
      BY <3>1
    <3> HIDE DEF k
    <3> QED BY <2>4, <3>1, <3>2
  <2>6. ASSUME NEW e \in 1..k PROVE (escalations'[e].status = "pending") <=> e \in escalated'
    <3>1. CASE e = k
      BY <2>1, <2>3, <2>4, <3>1
    <3>2. CASE e # k
      <4>1. e \in 1..Len(escalations) /\ escalations'[e] = escalations[e]
        BY <2>3, <2>5, <3>2
      <4> QED BY <2>4, <3>2, <4>1 DEF EscalationsQueued
    <3> QED BY <3>1, <3>2
  <2> QED BY <2>3, <2>5, <2>6 DEF EscalationsQueued
<1>3. ASSUME NEW e \in DOMAIN escalations, NEW a \in Answer, AnswersEscalation(e, a)
      PROVE  EscalationsQueued'
  <2>1. escalations \in Seq(Escalation) /\ e \in 1..Len(escalations)
    BY DEF EscalationsQueued
  <2> DEFINE done == [escalations[e] EXCEPT !.status = a]
  <2>2. escalations[e] \in Escalation
    BY <2>1
  <2>3. done \in Escalation /\ done.status # "pending"
    BY <2>2 DEF Escalation, Answer
  <2>4. escalations' = [escalations EXCEPT ![e] = done] /\ escalated' = escalated \ {e}
    BY <1>3, <2>1 DEF AnswersEscalation, Reviews
  <2> HIDE DEF done
  <2> QED BY <2>1, <2>3, <2>4 DEF EscalationsQueued
<1> QED
  BY <1>1, <1>2, <1>3 DEF OversightNext, oversightVars, PauseTask, Takes, GrowsStale, SweepLooks,
     SweepStarts, SweepApproves, Answers

LEMMA GateCountsNext == GateInv /\ GateCounts /\ [OversightNext]_oversightVars => GateCounts'
<1> SUFFICES ASSUME GateInv, EndsAccounted, [OversightNext]_oversightVars PROVE EndsAccounted'
  BY EscalationsKept DEF GateCounts
<1>1. \/ UNCHANGED <<pauses, waiting, sweep>>
      \/ \E t \in GateTask : \/ \E timeout \in BOOLEAN : PauseTask(t, timeout)
                             \/ \E a \in Answer : Takes(t, a)
      \/ \E p \in DOMAIN pauses : GrowsStale(p) \/ SweepLooks(p)
      \/ SweepStarts \/ SweepApproves \/ Answers
  BY DEF OversightNext, oversightVars, Escalate, AnswersEscalation
<1> QED BY <1>1, PauseKeepsCounts, SweepKeepsCounts, ApproveKeepsCounts, AnswerKeepsCounts,
           OtherStepsKeepCounts

LEMMA GateTypes == GateInv /\ GateCounts => OversightTypeOK
<1> SUFFICES ASSUME GateInv, GateCounts PROVE OversightTypeOK
  OBVIOUS
<1>1. ASSUME NEW p \in DOMAIN pauses
      PROVE  /\ pauses[p].task \in GateTask /\ pauses[p].resolved \in 0..2
             /\ pauses[p].status \in Answer \cup {"pending", "timeout"}
  <2>1. pauses \in Seq(Pause) /\ p \in 1..Len(pauses) /\ pauses[p] \in Pause
    BY DEF GateInv, OversightShape
  <2>2. pauses[p].resolved \in 0..2
    BY <2>1, PauseCounts DEF GateCounts, EndsAccounted
  <2> QED BY <2>1, <2>2 DEF Pause
<1>2. \A t \in GateTask : waiting[t] # 0 => pauses[waiting[t]].task = t
  BY DEF GateInv, AnsweredOnce
<1>3. \A e \in DOMAIN escalations : (escalations[e].status = "pending") <=> e \in escalated
  BY DEF GateCounts, EscalationsQueued
<1> QED BY <1>1, <1>2, <1>3 DEF OversightTypeOK

-----------------------------------------------------------------------------
\* What is written offline: OfflineManager and HybridConsensusNode.reconnect

PendingOp == [cmd : Command, applied : BOOLEAN]

WritesShape ==
  /\ homeLog \in Seq(Command) /\ pending \in Seq(PendingOp)
  /\ sync \in [kind : {"none", "online", "reconnect"},
               step : {"none", "send", "merge", "resolve"}, i : Nat]
  /\ sync.kind # "none" => sync.i > 0
  /\ given \in [home : Nat, away : Nat]

InLog(id)   == \E k \in 1..Len(homeLog) : homeLog[k].id = id
ToBeSent(k) == ~pending[k].applied

\* The ids of offline writes tell them apart, in the log and in the list, and what is still
\* to be sent is not in the log.
WritesDiffer ==
  /\ \A k \in 1..Len(homeLog) : homeLog[k].id <= given.away
  /\ \A k, l \in 1..Len(homeLog) : homeLog[k].id = homeLog[l].id /\ homeLog[k].id # 0 => k = l
  /\ \A k \in 1..Len(pending) : pending[k].cmd.id \in 1..given.away
  /\ \A k, l \in 1..Len(pending) : pending[k].cmd.id = pending[l].cmd.id => k = l
  /\ \A k \in 1..Len(pending) : ToBeSent(k) => ~InLog(pending[k].cmd.id)

\* A write is in the log, to be sent or excused.
WritesKept ==
  \A id \in 1..given.away :
    \/ InLog(id) \/ id \in excused
    \/ \E k \in 1..Len(pending) : pending[k].cmd.id = id /\ ToBeSent(k)

\* What a reconnect has passed is sent or excused; it passes all before it clears the list.
ReconnectPassed ==
  sync.kind = "reconnect" =>
    \A k \in 1..Len(pending) :
      sync.step = "resolve" \/ k < sync.i => ~ToBeSent(k) \/ pending[k].cmd.id \in excused

WritesInv == WritesShape /\ WritesDiffer /\ WritesKept /\ ReconnectPassed

LEMMA PendingShape ==
  ASSUME WritesShape, NEW k \in 1..Len(pending)
  PROVE  pending[k] \in PendingOp /\ pending[k].cmd \in Command /\ pending[k].cmd.id \in Nat
<1>1. pending[k] \in PendingOp
  BY DEF WritesShape
<1>2. pending[k].cmd \in Command
  BY <1>1 DEF PendingOp
<1> QED BY <1>1, <1>2 DEF Command

LEMMA LogShape ==
  ASSUME WritesShape, NEW k \in 1..Len(homeLog)
  PROVE  homeLog[k] \in Command /\ homeLog[k].id \in Nat
<1>1. homeLog[k] \in Command
  BY DEF WritesShape
<1> QED BY <1>1 DEF Command

LEMMA GivenCommand ==
  ASSUME NEW c \in Given
  PROVE  c \in Command /\ c.id = 0
BY OfflineAssumption DEF Command

LEMMA WritesInvInit == OfflineInit => WritesInv
<1> SUFFICES ASSUME OfflineInit PROVE WritesInv
  OBVIOUS
<1>1. /\ homeLog = <<>> /\ pending = <<>> /\ sync = Awake
      /\ given = [home |-> 0, away |-> 0]
  BY DEF OfflineInit
<1>2. WritesShape
  BY <1>1 DEF WritesShape, Awake
<1>3. WritesDiffer
  BY <1>1 DEF WritesDiffer
<1>4. WritesKept
  BY <1>1 DEF WritesKept
<1>5. ReconnectPassed
  BY <1>1 DEF ReconnectPassed
<1> QED BY <1>2, <1>3, <1>4, <1>5 DEF WritesInv

\* Steps that touch neither the log nor the list
LEMMA ProcedureKeepsWrites ==
  ASSUME WritesInv,
         UNCHANGED <<homeLog, pending, excused, given>>,
         \/ sync' = sync
         \/ GoOnline \/ MergeOp \/ OnlineEnds \/ Reconnect \/ SentAll \/ ResolveOp
  PROVE  WritesInv'
<1>1. WritesDiffer' /\ WritesKept'
  BY DEF WritesInv, WritesDiffer, WritesKept, InLog, ToBeSent
<1> USE DEF WritesInv
<1>2. CASE sync' = sync
  BY <1>1, <1>2 DEF WritesShape, ReconnectPassed, ToBeSent
<1>3. CASE GoOnline
  BY <1>1, <1>3 DEF GoOnline, WritesShape, ReconnectPassed
<1>4. CASE MergeOp
  <2>1. sync' = [sync EXCEPT !.step = "send", !.i = sync.i + 1] /\ sync.kind = "online"
    BY <1>4 DEF MergeOp, NextOp, OpOf
  <2>2. sync.i + 1 \in Nat /\ sync.i + 1 > 0
    BY DEF WritesShape
  <2> QED BY <1>1, <2>1, <2>2 DEF WritesShape, ReconnectPassed
<1>5. CASE OnlineEnds
  BY <1>1, <1>5 DEF OnlineEnds, Awake, WritesShape, ReconnectPassed
<1>6. CASE Reconnect
  <2>1. sync' = [kind |-> "reconnect", step |-> "send", i |-> 1]
    BY <1>6 DEF Reconnect
  <2> QED BY <1>1, <2>1 DEF WritesShape, ReconnectPassed
<1>7. CASE SentAll
  <2>1. /\ sync' = [sync EXCEPT !.step = "resolve", !.i = 1]
        /\ sync.kind = "reconnect" /\ sync.i > Len(pending)
    BY <1>7 DEF SentAll
  <2>2. ReconnectPassed'
    BY <2>1 DEF WritesShape, ReconnectPassed, ToBeSent
  <2>3. WritesShape'
    <3>1. sync \in [kind : {"none", "online", "reconnect"},
                    step : {"none", "send", "merge", "resolve"}, i : Nat]
      BY DEF WritesShape
    <3>2. sync'.i = 1 /\ sync' \in [kind : {"none", "online", "reconnect"},
                                    step : {"none", "send", "merge", "resolve"}, i : Nat]
      BY <2>1, <3>1
    <3> QED BY <3>2 DEF WritesShape
  <2> QED BY <1>1, <2>2, <2>3
<1>8. CASE ResolveOp
  <2>1. /\ sync' = [sync EXCEPT !.i = sync.i + 1] /\ sync.step = "resolve"
    BY <1>8 DEF ResolveOp, OpOf
  <2>2. sync.i + 1 \in Nat /\ sync.i + 1 > 0
    BY DEF WritesShape
  <2>3. ReconnectPassed'
    BY <2>1 DEF WritesShape, ReconnectPassed, ToBeSent
  <2> QED BY <1>1, <2>1, <2>2, <2>3 DEF WritesShape
<1> QED BY <1>2, <1>3, <1>4, <1>5, <1>6, <1>7, <1>8

LEMMA HomeKeepsWrites ==
  ASSUME WritesInv, NEW c \in Given, HomeApplies(c)
  PROVE  WritesInv'
<1>1. /\ homeLog' = Append(homeLog, c) /\ given' = [given EXCEPT !.home = given.home + 1]
      /\ UNCHANGED <<pending, sync, excused>>
  BY DEF HomeApplies, Propose
<1>2. /\ homeLog \in Seq(Command) /\ Len(homeLog) \in Nat /\ given.home \in Nat
      /\ given.away \in Nat /\ given'.away = given.away
  BY <1>1 DEF WritesInv, WritesShape
<1>3. /\ homeLog' \in Seq(Command) /\ Len(homeLog') = Len(homeLog) + 1
      /\ homeLog'[Len(homeLog) + 1].id = 0
      /\ \A k \in 1..Len(homeLog) : homeLog'[k] = homeLog[k]
  BY <1>1, <1>2, GivenCommand
<1>4. WritesShape'
  BY <1>1, <1>2, <1>3 DEF WritesInv, WritesShape
<1>5. \A id \in Nat \ {0} : InLog(id)' <=> InLog(id)
  BY <1>2, <1>3 DEF InLog
<1>6. WritesDiffer'
  <2>1. \A k \in 1..Len(pending) : pending[k].cmd.id \in Nat \ {0}
    BY <1>2 DEF WritesInv, WritesDiffer
  <2> QED BY <1>1, <1>2, <1>3, <1>5, <2>1 DEF WritesInv, WritesDiffer, ToBeSent
<1>7. WritesKept'
  BY <1>1, <1>2, <1>5 DEF WritesInv, WritesKept, ToBeSent
<1>8. ReconnectPassed'
  BY <1>1 DEF WritesInv, ReconnectPassed, ToBeSent
<1> QED BY <1>4, <1>6, <1>7, <1>8 DEF WritesInv

LEMMA AwayKeepsWrites ==
  ASSUME WritesInv, NEW c \in Given, AwayApplies(c)
  PROVE  WritesInv'
<1> DEFINE n == given.away + 1
           op == [c EXCEPT !.id = n]
           new == [cmd |-> op, applied |-> FALSE]
           k0 == Len(pending) + 1
<1>1. /\ pending' = Append(pending, new) /\ given' = [given EXCEPT !.away = n]
      /\ excused' = IF sync = Awake THEN excused ELSE excused \cup {op.id}
      /\ UNCHANGED <<homeLog, sync>>
  BY DEF AwayApplies
<1>2. /\ pending \in Seq(PendingOp) /\ Len(pending) \in Nat
      /\ given.away \in Nat /\ n \in Nat /\ n > given.away
  BY DEF WritesInv, WritesShape
<1>3. op \in Command /\ op.id = n
  BY <1>2, GivenCommand DEF Command
<1>4. new \in PendingOp /\ new.cmd = op /\ ~new.applied
  BY <1>3 DEF PendingOp
<1>5. /\ pending' \in Seq(PendingOp) /\ Len(pending') = k0 /\ pending'[k0] = new
      /\ \A k \in 1..Len(pending) : pending'[k] = pending[k]
  BY <1>1, <1>2, <1>4
<1> HIDE DEF new, op
<1>6. pending'[k0].cmd.id = n /\ ~pending'[k0].applied
  BY <1>3, <1>4, <1>5
<1>7. given'.away = n /\ given' \in [home : Nat, away : Nat]
  BY <1>1, <1>2 DEF WritesInv, WritesShape
<1>8. WritesShape'
  BY <1>1, <1>5, <1>7 DEF WritesInv, WritesShape
<1>9. ~InLog(n)
  BY <1>2, LogShape DEF WritesInv, WritesDiffer, InLog
<1>10. WritesDiffer'
  <2>1. \A k \in 1..Len(homeLog) : homeLog[k].id <= n
    BY <1>2, LogShape DEF WritesInv, WritesDiffer
  <2>2. \A k \in 1..k0 : pending'[k].cmd.id \in 1..n
    BY <1>2, <1>5, <1>6 DEF WritesInv, WritesDiffer
  <2>3. \A k, l \in 1..k0 : pending'[k].cmd.id = pending'[l].cmd.id => k = l
    BY <1>2, <1>5, <1>6 DEF WritesInv, WritesDiffer
  <2>4. \A k \in 1..k0 : ~pending'[k].applied => ~InLog(pending'[k].cmd.id)
    BY <1>2, <1>5, <1>6, <1>9 DEF WritesInv, WritesDiffer, ToBeSent
  <2>5. \A k \in 1..k0 : ToBeSent(k)' => ~InLog(pending[k].cmd.id)'
    BY <1>1, <2>4 DEF ToBeSent, InLog
  <2>6. \A k, l \in 1..Len(homeLog) : homeLog[k].id = homeLog[l].id /\ homeLog[k].id # 0 => k = l
    BY DEF WritesInv, WritesDiffer
  <2> QED BY <1>1, <1>5, <1>7, <2>1, <2>2, <2>3, <2>5, <2>6 DEF WritesDiffer
<1>11. WritesKept'
  <2> SUFFICES ASSUME NEW id \in 1..n
               PROVE  \/ InLog(id)' \/ id \in excused'
                      \/ \E k \in 1..k0 : pending'[k].cmd.id = id /\ ~pending'[k].applied
    BY <1>5, <1>7 DEF WritesKept, ToBeSent
  <2>1. CASE id = n
    BY <1>2, <1>6, <2>1
  <2>2. CASE id # n
    <3>1. \/ InLog(id) \/ id \in excused
          \/ \E k \in 1..Len(pending) : pending[k].cmd.id = id /\ ~pending[k].applied
      BY <1>2, <2>2 DEF WritesInv, WritesKept, ToBeSent
    <3> QED BY <1>1, <1>2, <1>5, <3>1 DEF InLog
  <2> QED BY <2>1, <2>2
<1>12. ReconnectPassed'
  <2> SUFFICES ASSUME sync.kind = "reconnect", NEW k \in 1..k0, sync.step = "resolve" \/ k < sync.i
               PROVE  pending'[k].applied \/ pending'[k].cmd.id \in excused'
    BY <1>1, <1>5 DEF ReconnectPassed, ToBeSent
  <2>1. sync # Awake
    BY DEF Awake
  <2>2. CASE k = k0
    BY <1>1, <1>3, <1>6, <2>1, <2>2
  <2>3. CASE k # k0
    BY <1>1, <1>2, <1>5, <2>3 DEF WritesInv, ReconnectPassed, ToBeSent
  <2> QED BY <2>2, <2>3
<1> QED BY <1>8, <1>10, <1>11, <1>12 DEF WritesInv

\* One round of the loop that sends: it passes the operation, or goes on to its merge.
LEMMA SendKeepsWrites == WritesInv /\ SendOp => WritesInv'
<1> SUFFICES ASSUME WritesInv, SendOp PROVE WritesInv'
  OBVIOUS
<1> DEFINE i == sync.i
           old == pending[i]
           id0 == old.cmd.id
           marked == [old EXCEPT !.applied = TRUE]
<1>1. /\ i \in 1..Len(pending) /\ sync.step = "send" /\ sync.kind \in {"online", "reconnect"}
      /\ pending \in Seq(PendingOp) /\ homeLog \in Seq(Command)
      /\ Len(pending) \in Nat /\ Len(homeLog) \in Nat /\ i + 1 \in Nat /\ given.away \in Nat
  BY DEF SendOp, OpOf, WritesInv, WritesShape
<1>2. old \in PendingOp /\ old.cmd \in Command /\ id0 \in 1..given.away
  BY <1>1, PendingShape DEF WritesInv, WritesDiffer
<1>3. given' = given
  BY DEF SendOp
<1> DEFINE Passed(j) == [sync EXCEPT !.step = "send", !.i = j]
<1>4. /\ Passed(i + 1).kind = sync.kind /\ Passed(i + 1).step = "send"
      /\ Passed(i + 1).i = i + 1 /\ i + 1 > 0
      /\ Passed(i + 1) \in [kind : {"none", "online", "reconnect"},
                           step : {"none", "send", "merge", "resolve"}, i : Nat]
  <2>1. sync \in [kind : {"none", "online", "reconnect"},
                  step : {"none", "send", "merge", "resolve"}, i : Nat]
    BY DEF WritesInv, WritesShape
  <2>2. i + 1 \in Nat /\ i + 1 > 0
    BY <1>1
  <2>3. \A j \in Nat : /\ Passed(j).kind = sync.kind /\ Passed(j).step = "send" /\ Passed(j).i = j
                      /\ Passed(j) \in [kind : {"none", "online", "reconnect"},
                                        step : {"none", "send", "merge", "resolve"}, i : Nat]
    BY <2>1
  <2> HIDE DEF Passed
  <2> QED BY <2>2, <2>3
<1> HIDE DEF Passed
<1>5. CASE NextOp /\ UNCHANGED <<pending, homeLog>>
           /\ excused \subseteq excused' /\ (old.applied \/ id0 \in excused')
  <2>1. sync' = Passed(i + 1)
    BY <1>5 DEF NextOp, Passed
  <2>2. WritesShape'
    BY <1>3, <1>4, <1>5, <2>1 DEF WritesInv, WritesShape
  <2>3. WritesDiffer' /\ WritesKept'
    BY <1>3, <1>5 DEF WritesInv, WritesDiffer, WritesKept, InLog, ToBeSent
  <2>4. ReconnectPassed'
    BY <1>1, <1>4, <1>5, <2>1 DEF WritesInv, ReconnectPassed, ToBeSent
  <2> QED BY <2>2, <2>3, <2>4 DEF WritesInv
<1>6. CASE UNCHANGED <<pending, homeLog, excused>> /\ sync.kind = "online"
           /\ sync' = [sync EXCEPT !.step = "merge"]
  <2>1. WritesShape' /\ WritesDiffer'
    BY <1>1, <1>3, <1>6 DEF WritesInv, WritesShape, WritesDiffer, InLog, ToBeSent
  <2>2. WritesKept' /\ ReconnectPassed'
    BY <1>1, <1>3, <1>6 DEF WritesInv, WritesShape, WritesKept, ReconnectPassed, InLog, ToBeSent
  <2> QED BY <2>1, <2>2 DEF WritesInv
<1>7. CASE NextOp /\ Mark /\ Propose(old.cmd) /\ excused' = excused /\ ~old.applied
  <2>1. /\ sync' = Passed(i + 1)
        /\ pending' = [pending EXCEPT ![i] = marked]
        /\ homeLog' = Append(homeLog, old.cmd)
    BY <1>1, <1>2, <1>7 DEF NextOp, Mark, Propose, PendingOp, Passed
  <2>2. marked \in PendingOp /\ marked.cmd = old.cmd /\ marked.applied
    BY <1>2 DEF PendingOp
  <2> HIDE DEF marked
  <2>3. /\ pending' \in Seq(PendingOp) /\ Len(pending') = Len(pending)
        /\ \A k \in 1..Len(pending) : pending'[k].cmd = pending[k].cmd
        /\ pending'[i].applied
        /\ \A k \in 1..Len(pending) : k # i => pending'[k].applied = pending[k].applied
    BY <1>1, <2>1, <2>2
  <2>4. /\ homeLog' \in Seq(Command) /\ Len(homeLog') = Len(homeLog) + 1
        /\ homeLog'[Len(homeLog) + 1].id = id0
        /\ \A k \in 1..Len(homeLog) : homeLog'[k] = homeLog[k]
    BY <1>1, <1>2, <2>1
  <2>5. ~InLog(id0) /\ \A id : InLog(id)' <=> InLog(id) \/ id = id0
    <3>1. ~InLog(id0)
      BY <1>1, <1>7 DEF WritesInv, WritesDiffer, ToBeSent
    <3>2. ASSUME NEW id, InLog(id)' PROVE InLog(id) \/ id = id0
      <4>1. PICK k \in 1..Len(homeLog') : homeLog'[k].id = id
        BY <3>2 DEF InLog
      <4>2. CASE k = Len(homeLog) + 1
        BY <2>4, <4>1, <4>2
      <4>3. CASE k \in 1..Len(homeLog)
        BY <2>4, <4>1, <4>3 DEF InLog
      <4> QED BY <1>1, <2>4, <4>2, <4>3
    <3>3. ASSUME NEW id, InLog(id) \/ id = id0 PROVE InLog(id)'
      <4>1. Len(homeLog) + 1 \in 1..Len(homeLog')
        BY <1>1, <2>4
      <4>2. \A k \in 1..Len(homeLog) : k \in 1..Len(homeLog')
        BY <1>1, <2>4
      <4> QED BY <2>4, <3>3, <4>1, <4>2 DEF InLog
    <3> QED BY <3>1, <3>2, <3>3
  <2>6. WritesShape'
    BY <1>3, <1>4, <2>1, <2>3, <2>4 DEF WritesInv, WritesShape
  <2>7. WritesDiffer'
    <3>1. ASSUME NEW k \in 1..Len(homeLog') PROVE homeLog'[k].id <= given.away
      <4>1. CASE k = Len(homeLog) + 1
        BY <1>1, <1>2, <2>4, <4>1
      <4>2. CASE k \in 1..Len(homeLog)
        BY <2>4, <4>2 DEF WritesInv, WritesDiffer
      <4> QED BY <1>1, <2>4, <4>1, <4>2
    <3>2. ASSUME NEW k \in 1..Len(homeLog'), NEW l \in 1..Len(homeLog'),
                 homeLog'[k].id = homeLog'[l].id, homeLog'[k].id # 0
          PROVE  k = l
      <4>1. \A j \in 1..Len(homeLog) : homeLog'[j].id = homeLog[j].id /\ homeLog[j].id # id0
        BY <2>4, <2>5 DEF InLog
      <4>2. CASE k \in 1..Len(homeLog) /\ l \in 1..Len(homeLog)
        BY <3>2, <4>1, <4>2 DEF WritesInv, WritesDiffer
      <4>3. CASE k = Len(homeLog) + 1 \/ l = Len(homeLog) + 1
        BY <1>1, <2>4, <3>2, <4>1, <4>3
      <4> QED BY <1>1, <2>4, <4>2, <4>3
    <3>3. \A k \in 1..Len(pending) : pending'[k].cmd.id \in 1..given.away
      BY <2>3 DEF WritesInv, WritesDiffer
    <3>4. \A k, l \in 1..Len(pending) : pending'[k].cmd.id = pending'[l].cmd.id => k = l
      BY <2>3 DEF WritesInv, WritesDiffer
    <3>5. \A k \in 1..Len(pending) : ToBeSent(k)' => ~InLog(pending[k].cmd.id)'
      <4> SUFFICES ASSUME NEW k \in 1..Len(pending), ~pending'[k].applied
                   PROVE  ~InLog(pending[k].cmd.id)'
        BY DEF ToBeSent
      <4>1. k # i /\ ~pending[k].applied
        BY <2>3
      <4>2. ~InLog(pending[k].cmd.id) /\ pending[k].cmd.id # id0
        BY <1>1, <4>1 DEF WritesInv, WritesDiffer, ToBeSent
      <4>3. ASSUME NEW j \in 1..Len(homeLog') PROVE homeLog'[j].id # pending'[k].cmd.id
        <5>1. CASE j = Len(homeLog) + 1
          BY <2>3, <2>4, <4>2, <5>1
        <5>2. CASE j \in 1..Len(homeLog)
          BY <2>3, <2>4, <4>2, <5>2 DEF InLog
        <5> QED BY <1>1, <2>4, <5>1, <5>2
      <4> QED BY <4>3 DEF InLog
    <3> QED BY <1>3, <2>3, <3>1, <3>2, <3>3, <3>4, <3>5 DEF WritesDiffer
  <2>8. WritesKept'
    <3> SUFFICES ASSUME NEW id \in 1..given.away
                 PROVE  \/ InLog(id)' \/ id \in excused
                        \/ \E k \in 1..Len(pending) : pending'[k].cmd.id = id /\ ~pending'[k].applied
      BY <1>3, <1>7, <2>3 DEF WritesKept, ToBeSent
    <3>1. \/ InLog(id) \/ id \in excused
          \/ \E k \in 1..Len(pending) : pending[k].cmd.id = id /\ ~pending[k].applied
      BY DEF WritesInv, WritesKept, ToBeSent
    <3> QED BY <2>3, <2>5, <3>1
  <2>9. ReconnectPassed'
    BY <1>1, <1>4, <1>7, <2>1, <2>3 DEF WritesInv, ReconnectPassed, ToBeSent
  <2> QED BY <2>6, <2>7, <2>8, <2>9 DEF WritesInv
<1> QED BY <1>1, <1>5, <1>6, <1>7 DEF SendOp

LEMMA EndKeepsWrites == WritesInv /\ ReconnectEnds => WritesInv'
<1> SUFFICES ASSUME WritesInv, ReconnectEnds PROVE WritesInv'
  OBVIOUS
<1>1. /\ sync.kind = "reconnect" /\ sync.step = "resolve"
      /\ pending' = <<>> /\ Len(pending') = 0 /\ sync' = Awake
      /\ UNCHANGED <<homeLog, excused, given>>
  BY DEF ReconnectEnds
<1>2. WritesShape'
  BY <1>1 DEF WritesInv, WritesShape, Awake
<1>3. WritesDiffer'
  BY <1>1 DEF WritesInv, WritesDiffer
<1>4. WritesKept'
  <2> SUFFICES ASSUME NEW id \in 1..given.away PROVE InLog(id) \/ id \in excused
    BY <1>1 DEF WritesKept, InLog
  <2> QED BY <1>1 DEF WritesInv, WritesKept, ReconnectPassed
<1>5. ReconnectPassed'
  BY <1>1 DEF ReconnectPassed, Awake
<1> QED BY <1>2, <1>3, <1>4, <1>5 DEF WritesInv

LEMMA WritesInvNext == WritesInv /\ [OfflineNext]_offlineVars => WritesInv'
<1>1. WritesInv /\ (UNCHANGED offlineVars \/ HomeWins \/ HomeStepsDown \/ GoOffline) => WritesInv'
  BY ProcedureKeepsWrites DEF offlineVars, HomeWins, HomeStepsDown, GoOffline
<1>2. WritesInv /\ HomeRestarts => WritesInv'
  BY ProcedureKeepsWrites DEF HomeRestarts
<1>3. WritesInv /\ (GoOnline \/ MergeOp \/ OnlineEnds \/ Reconnect \/ SentAll \/ ResolveOp)
        => WritesInv'
  BY ProcedureKeepsWrites DEF GoOnline, MergeOp, OnlineEnds, Reconnect, SentAll, ResolveOp
<1> QED BY <1>1, <1>2, <1>3, HomeKeepsWrites, AwayKeepsWrites, SendKeepsWrites, EndKeepsWrites
        DEF OfflineNext

\* "Reconnect: pending log -> Leader approval": for any runs, commands and trips, an offline
\* write is in home's log or still to be sent, once, unless a reconnect was refused it or it
\* came while one ran.
THEOREM OfflineWritesKeptOnce == OfflineSpec => []OfflineWriteKeptOnce
<1>1. WritesInv => OfflineWriteKeptOnce
  <2> SUFFICES ASSUME WritesInv, NEW id \in 1..given.away
               PROVE  LET sent == {k \in 1..Len(homeLog) : homeLog[k].id = id}
                          toSend == {k \in 1..Len(pending) : pending[k].cmd.id = id /\ ~pending[k].applied}
                          copies == Cardinality(sent) + Cardinality(toSend)
                      IN  copies <= 1 /\ (copies = 1 \/ id \in excused)
    BY DEF OfflineWriteKeptOnce
  <2> DEFINE sent == {k \in 1..Len(homeLog) : homeLog[k].id = id}
             toSend == {k \in 1..Len(pending) : pending[k].cmd.id = id /\ ~pending[k].applied}
  <2>1. sent = {} \/ \E k : sent = {k}
    <3>1. \A k, l \in sent : k = l
      BY DEF WritesInv, WritesDiffer
    <3> QED BY <3>1
  <2>2. toSend = {} \/ \E k : toSend = {k}
    <3>1. \A k, l \in toSend : k = l
      BY DEF WritesInv, WritesDiffer
    <3> QED BY <3>1
  <2>3. sent = {} \/ toSend = {}
    BY DEF WritesInv, WritesDiffer, InLog, ToBeSent
  <2>4. sent # {} \/ toSend # {} \/ id \in excused
    BY DEF WritesInv, WritesKept, InLog, ToBeSent
  <2> HIDE DEF sent, toSend
  <2>5. Cardinality({}) = 0 /\ \A k : Cardinality({k}) = 1
    BY FS_EmptySet, FS_Singleton
  <2>6. /\ sent = {} => Cardinality(sent) = 0
        /\ sent # {} => Cardinality(sent) = 1
        /\ toSend = {} => Cardinality(toSend) = 0
        /\ toSend # {} => Cardinality(toSend) = 1
    BY <2>1, <2>2, <2>5
  <2>7. LET copies == Cardinality(sent) + Cardinality(toSend)
        IN  copies <= 1 /\ (copies = 1 \/ id \in excused)
    BY <2>3, <2>4, <2>6
  <2> QED BY <2>7 DEF sent, toSend
<1> QED BY <1>1, WritesInvInit, WritesInvNext, PTL DEF OfflineSpec

-----------------------------------------------------------------------------
\* What home's states are: _apply_command, _apply_committed, provide_merge

HIDE OfflineAssumption

\* What holds of one number and of the next wherever it holds, holds to the end.
LEMMA StepByStep ==
  ASSUME NEW S, NEW a \in Nat, NEW b \in Nat, a \in S,
         \A k \in a..b : k \in S /\ k + 1 <= b => k + 1 \in S
  PROVE  \A k \in a..b : k \in S
<1> SUFFICES ASSUME NEW k \in a..b, k \notin S PROVE FALSE
  OBVIOUS
<1> DEFINE Bad == {i \in a..b : i \notin S}
<1>1. Bad \subseteq Nat /\ Bad # {}
  OBVIOUS
<1>2. PICK i \in Bad : \A j \in Bad : ~(<<j, i>> \in OpToRel(<, Nat))
  BY <1>1, WFMin, NatLessThanWellFounded
<1>3. \A j \in Bad : ~(j < i)
  BY <1>1, <1>2 DEF OpToRel
<1>4. i \in a..b /\ i # a /\ i - 1 \in a..b /\ i - 1 < i
  OBVIOUS
<1>5. i - 1 \in S
  BY <1>3, <1>4
<1> QED BY <1>4, <1>5

\* The log of commands is applied one entry after the other.
Trace(f, m, node, entries, from, to) ==
  /\ f[from] = m
  /\ \A k \in (from + 1)..to : f[k] = ApplyCommand(f[k - 1], node, entries[k])

Unfolded(f, m, node, entries, from, to) ==
  [k \in from..to |-> IF k = from THEN m ELSE ApplyCommand(f[k - 1], node, entries[k])]

LEMMA TraceExists ==
  ASSUME NEW m, NEW node, NEW entries, NEW from \in Nat, NEW to \in Nat, from <= to
  PROVE  \E f : f = Unfolded(f, m, node, entries, from, to)
<1> DEFINE Step(f, k) == IF k = from THEN m ELSE ApplyCommand(f[k - 1], node, entries[k])
           Defined == {n \in Nat : \E f : f = [k \in from..n |-> Step(f, k)]}
<1>1. from \in Defined
  <2> DEFINE f == [k \in from..from |-> m]
  <2>1. f = [k \in from..from |-> Step(f, k)]
    OBVIOUS
  <2> QED BY <2>1
<1>2. ASSUME NEW n \in from..to, n \in Defined PROVE n + 1 \in Defined
  <2>1. PICK f : f = [k \in from..n |-> Step(f, k)]
    BY <1>2
  <2> DEFINE g == [k \in from..(n + 1) |-> IF k = n + 1 THEN Step(f, k) ELSE f[k]]
  <2>2. ASSUME NEW k \in from..(n + 1) PROVE g[k] = Step(g, k)
    <3>1. CASE k = from
      BY <2>1, <3>1
    <3>2. CASE k # from
      <4>1. k - 1 \in from..n /\ g[k - 1] = f[k - 1]
        BY <3>2
      <4> QED BY <2>1, <3>2, <4>1
    <3> QED BY <3>1, <3>2
  <2>3. g = [k \in from..(n + 1) |-> Step(g, k)]
    BY <2>2
  <2>4. n + 1 \in Nat
    OBVIOUS
  <2> HIDE DEF g
  <2> QED BY <2>3, <2>4
<1> HIDE DEF Defined
<1>3. to \in Defined
  <2>1. \A k \in from..to : k \in Defined
    BY <1>1, <1>2, StepByStep
  <2> QED BY <2>1
<1> QED BY <1>3 DEF Defined, Unfolded

LEMMA AppliedByTrace ==
  ASSUME NEW m, NEW node, NEW entries, NEW from \in Nat, Len(entries) \in Nat, from <= Len(entries)
  PROVE  \E f : Trace(f, m, node, entries, from, Len(entries))
                  /\ ApplyCommitted(m, node, entries, from) = f[Len(entries)]
<1> DEFINE to == Len(entries)
           upto[k \in from..to] ==
             IF k = from THEN m ELSE ApplyCommand(upto[k - 1], node, entries[k])
<1>1. \E f : f = Unfolded(f, m, node, entries, from, to)
  <2> HIDE DEF upto
  <2> QED BY TraceExists
<1>2. upto = Unfolded(upto, m, node, entries, from, to)
  BY <1>1 DEF Unfolded
<1>3. ApplyCommitted(m, node, entries, from) = IF from < to THEN upto[to] ELSE m
  BY SMTT(60) DEF ApplyCommitted
<1> HIDE DEF upto, to
<1>4. to \in Nat /\ from <= to
  BY DEF to
<1>5. upto[from] = m
  BY <1>2, <1>4 DEF Unfolded
<1>6. ASSUME NEW k \in (from + 1)..to PROVE upto[k] = ApplyCommand(upto[k - 1], node, entries[k])
  <2>1. k \in from..to /\ k # from
    BY <1>4
  <2> QED BY <1>2, <2>1 DEF Unfolded
<1>7. Trace(upto, m, node, entries, from, to)
  BY <1>5, <1>6 DEF Trace
<1>8. ApplyCommitted(m, node, entries, from) = upto[to]
  BY <1>3, <1>4, <1>5
<1> QED BY <1>7, <1>8 DEF to

\* Both nodes' states, and the objects they share
States == [home : [Slug -> NodeState], away : [Slug -> NodeState], shared : SUBSET Slug]

\* Two nodes that share an object see the same, and both know the run.
SharedAgree(m) == \A s \in m.shared : m.home[s] = m.away[s] /\ RunKnown(m.home[s])

\* What a command makes of a run's state
NewState(m, node, c) ==
  [state   |-> IF c.type = "archive" THEN Archived ELSE c.to,
   version |-> IF c.type = "create" THEN 1 ELSE StateOf(m[node], c.slug).version + 1]

InPlace(m, c) == c.type = "transition" /\ c.slug \in m.shared

LEMMA StateOfType ==
  ASSUME NEW h \in [Slug -> NodeState], NEW s \in Slug
  PROVE  StateOf(h, s) \in NodeState /\ StateOf(h, s).version \in Nat
<1>1. StateOf(h, s) \in NodeState
  BY DEF NodeState, NoState, StateOf
<1> QED BY <1>1 DEF NodeState

LEMMA NewStateType ==
  ASSUME NEW m, NEW node, m[node] \in [Slug -> NodeState], NEW c \in Command
  PROVE  NewState(m, node, c) \in NodeState /\ RunKnown(NewState(m, node, c))
<1>1. c.slug \in Slug /\ c.to \in RunState
  BY DEF Command
<1> DEFINE version == IF c.type = "create" THEN 1 ELSE StateOf(m[node], c.slug).version + 1
           state == IF c.type = "archive" THEN Archived ELSE c.to
<1>2. version \in Nat /\ version # 0
  <2>1. StateOf(m[node], c.slug).version \in Nat
    BY <1>1, StateOfType
  <2> QED BY <2>1
<1>3. state \in RunState \cup {Unset, Archived}
  BY <1>1
<1>4. NewState(m, node, c) = [state |-> state, version |-> version]
  BY DEF NewState
<1> HIDE DEF version, state
<1>5. NewState(m, node, c) \in NodeState
  BY <1>2, <1>3, <1>4 DEF NodeState
<1>6. NewState(m, node, c).version # Missing.version
  BY <1>2, <1>4 DEF Missing
<1> QED BY <1>5, <1>6 DEF RunKnown

LEMMA AppliedHome ==
  ASSUME NEW m \in States, NEW c \in Command
  PROVE  /\ ApplyCommand(m, "home", c) \in States /\ NewState(m, "home", c) \in NodeState
         /\ ApplyCommand(m, "home", c).home = [m.home EXCEPT ![c.slug] = NewState(m, "home", c)]
         /\ ApplyCommand(m, "home", c).away =
              IF InPlace(m, c) THEN [m.away EXCEPT ![c.slug] = NewState(m, "home", c)] ELSE m.away
         /\ ApplyCommand(m, "home", c).shared =
              IF c.type = "transition" THEN m.shared ELSE m.shared \ {c.slug}
<1> DEFINE new == NewState(m, "home", c)
           away == IF InPlace(m, c) THEN [m.away EXCEPT ![c.slug] = new] ELSE m.away
           shared == IF c.type = "transition" THEN m.shared ELSE m.shared \ {c.slug}
<1>1. c.slug \in Slug /\ m.home \in [Slug -> NodeState] /\ m.away \in [Slug -> NodeState]
      /\ m.shared \in SUBSET Slug
  BY DEF Command, States
<1>2. new \in NodeState
  <2>1. m["home"] \in [Slug -> NodeState]
    BY <1>1 DEF States
  <2> QED BY <2>1, NewStateType
<1>3. ApplyCommand(m, "home", c) =
        [m EXCEPT !["home"] = [m.home EXCEPT ![c.slug] = new], !["away"] = away, !.shared = shared]
  BY DEF ApplyCommand, NewState, Other, InPlace, States
<1> HIDE DEF new
<1>4. away \in [Slug -> NodeState] /\ shared \in SUBSET Slug
      /\ [m.home EXCEPT ![c.slug] = new] \in [Slug -> NodeState]
  BY <1>1, <1>2
<1> HIDE DEF away, shared
<1>5. ApplyCommand(m, "home", c) =
        [home |-> [m.home EXCEPT ![c.slug] = new], away |-> away, shared |-> shared]
  BY <1>3 DEF States
<1> QED BY <1>2, <1>4, <1>5 DEF States, new, away, shared

LEMMA AppliedAway ==
  ASSUME NEW m \in States, NEW c \in Command
  PROVE  /\ ApplyCommand(m, "away", c) \in States /\ NewState(m, "away", c) \in NodeState
         /\ ApplyCommand(m, "away", c).away = [m.away EXCEPT ![c.slug] = NewState(m, "away", c)]
         /\ ApplyCommand(m, "away", c).home =
              IF InPlace(m, c) THEN [m.home EXCEPT ![c.slug] = NewState(m, "away", c)] ELSE m.home
         /\ ApplyCommand(m, "away", c).shared =
              IF c.type = "transition" THEN m.shared ELSE m.shared \ {c.slug}
<1> DEFINE new == NewState(m, "away", c)
           home == IF InPlace(m, c) THEN [m.home EXCEPT ![c.slug] = new] ELSE m.home
           shared == IF c.type = "transition" THEN m.shared ELSE m.shared \ {c.slug}
<1>1. c.slug \in Slug /\ m.home \in [Slug -> NodeState] /\ m.away \in [Slug -> NodeState]
      /\ m.shared \in SUBSET Slug
  BY DEF Command, States
<1>2. new \in NodeState
  <2>1. m["away"] \in [Slug -> NodeState]
    BY <1>1 DEF States
  <2> QED BY <2>1, NewStateType
<1>3. ApplyCommand(m, "away", c) =
        [m EXCEPT !["away"] = [m.away EXCEPT ![c.slug] = new], !["home"] = home, !.shared = shared]
  BY DEF ApplyCommand, NewState, Other, InPlace, States
<1> HIDE DEF new
<1>4. home \in [Slug -> NodeState] /\ shared \in SUBSET Slug
      /\ [m.away EXCEPT ![c.slug] = new] \in [Slug -> NodeState]
  BY <1>1, <1>2
<1> HIDE DEF home, shared
<1>5. ApplyCommand(m, "away", c) =
        [away |-> [m.away EXCEPT ![c.slug] = new], home |-> home, shared |-> shared]
  BY <1>3 DEF States
<1> QED BY <1>2, <1>4, <1>5 DEF States, new, home, shared

LEMMA AppliedAgrees ==
  ASSUME NEW m \in States, NEW c \in Command, NEW node \in {"home", "away"}, SharedAgree(m)
  PROVE  ApplyCommand(m, node, c) \in States /\ SharedAgree(ApplyCommand(m, node, c))
<1> DEFINE a == ApplyCommand(m, node, c)
           new == NewState(m, node, c)
<1>1. /\ a \in States
      /\ a.shared = IF c.type = "transition" THEN m.shared ELSE m.shared \ {c.slug}
      /\ \A s \in Slug : /\ s # c.slug => a.home[s] = m.home[s] /\ a.away[s] = m.away[s]
                         /\ s = c.slug /\ InPlace(m, c) => a.home[s] = new /\ a.away[s] = new
  <2>1. m.home \in [Slug -> NodeState] /\ m.away \in [Slug -> NodeState]
    BY DEF States
  <2>2. CASE node = "home"
    BY <2>1, <2>2, AppliedHome
  <2>3. CASE node = "away"
    BY <2>1, <2>3, AppliedAway
  <2> QED BY <2>2, <2>3
<1>0. RunKnown(new)
  <2>1. m[node] \in [Slug -> NodeState]
    BY DEF States
  <2> QED BY <2>1, NewStateType
<1> HIDE DEF a, new
<1>2. m.shared \subseteq Slug
  BY DEF States
<1>3. SharedAgree(a)
  <2> SUFFICES ASSUME NEW s \in a.shared
               PROVE  a.home[s] = a.away[s] /\ RunKnown(a.home[s])
    BY DEF SharedAgree
  <2>1. s \in m.shared /\ s \in Slug /\ m.home[s] = m.away[s] /\ RunKnown(m.home[s])
    BY <1>1, <1>2 DEF SharedAgree
  <2>2. s = c.slug => InPlace(m, c)
    BY <1>1, <2>1 DEF InPlace
  <2>3. CASE s = c.slug
    BY <1>0, <1>1, <2>1, <2>2, <2>3
  <2>4. CASE s # c.slug
    BY <1>1, <2>1, <2>4
  <2> QED BY <2>3, <2>4
<1> QED BY <1>1, <1>3 DEF a

LEMMA TraceTyped ==
  ASSUME NEW f, NEW m \in States, SharedAgree(m), NEW node \in {"home", "away"},
         NEW entries, NEW from \in Nat, NEW to \in Nat,
         Trace(f, m, node, entries, from, to), from <= to,
         \A k \in (from + 1)..to : entries[k] \in Command
  PROVE  \A k \in from..to : f[k] \in States /\ SharedAgree(f[k])
<1> DEFINE Good == {k \in from..to : f[k] \in States /\ SharedAgree(f[k])}
<1>1. from \in Good
  BY DEF Trace
<1>2. ASSUME NEW k \in from..to, k \in Good, k + 1 <= to PROVE k + 1 \in Good
  <2>1. k + 1 \in (from + 1)..to /\ k + 1 \in from..to /\ (k + 1) - 1 = k
    BY <1>2
  <2>2. f[k + 1] = ApplyCommand(f[k], node, entries[k + 1])
    BY <2>1 DEF Trace
  <2> QED BY <1>2, <2>1, <2>2, AppliedAgrees
<1> HIDE DEF Good
<1>3. \A k \in from..to : k \in Good
  BY <1>1, <1>2, StepByStep
<1> QED BY <1>3 DEF Good

\* _apply_committed keeps the types, and leaves shared objects shared.
LEMMA CommittedAgrees ==
  ASSUME NEW m \in States, SharedAgree(m), NEW node \in {"home", "away"},
         NEW entries \in Seq(Command), NEW from \in Nat
  PROVE  /\ ApplyCommitted(m, node, entries, from) \in States
         /\ SharedAgree(ApplyCommitted(m, node, entries, from))
<1>1. Len(entries) \in Nat /\ \A k \in 1..Len(entries) : entries[k] \in Command
  OBVIOUS
<1>2. CASE from <= Len(entries)
  <2>1. PICK f : /\ Trace(f, m, node, entries, from, Len(entries))
                 /\ ApplyCommitted(m, node, entries, from) = f[Len(entries)]
    BY <1>1, <1>2, AppliedByTrace
  <2>2. \A k \in from..Len(entries) : f[k] \in States /\ SharedAgree(f[k])
    BY <1>1, <1>2, <2>1, TraceTyped
  <2> QED BY <1>1, <1>2, <2>1, <2>2
<1>3. CASE ~(from <= Len(entries))
  <2>1. ApplyCommitted(m, node, entries, from) = m
    BY <1>1, <1>3 DEF ApplyCommitted
  <2> QED BY <2>1
<1> QED BY <1>2, <1>3

\* An away node that shares nothing leaves home's states alone.
LEMMA TraceApart ==
  ASSUME NEW f, NEW m \in States, m.shared = {}, NEW entries, NEW from \in Nat, NEW to \in Nat,
         Trace(f, m, "away", entries, from, to), from <= to,
         \A k \in (from + 1)..to : entries[k] \in Command
  PROVE  f[to].home = m.home
<1> DEFINE Good == {k \in from..to : f[k] \in States /\ f[k].shared = {} /\ f[k].home = m.home}
<1>1. from \in Good
  BY DEF Trace
<1>2. ASSUME NEW k \in from..to, k \in Good, k + 1 <= to PROVE k + 1 \in Good
  <2>1. k + 1 \in (from + 1)..to /\ k + 1 \in from..to /\ (k + 1) - 1 = k
    BY <1>2
  <2>2. f[k + 1] = ApplyCommand(f[k], "away", entries[k + 1])
    BY <2>1 DEF Trace
  <2>3. f[k] \in States /\ f[k].shared = {} /\ ~InPlace(f[k], entries[k + 1])
    BY <1>2 DEF InPlace
  <2>4. entries[k + 1] \in Command
    BY <2>1
  <2> DEFINE a == ApplyCommand(f[k], "away", entries[k + 1])
  <2>5. a \in States
    BY <2>3, <2>4, AppliedAway
  <2>6. a.home = f[k].home
    BY <2>3, <2>4, AppliedAway
  <2>7. a.shared = IF entries[k + 1].type = "transition" THEN f[k].shared
                   ELSE f[k].shared \ {entries[k + 1].slug}
    BY <2>3, <2>4, AppliedAway
  <2> HIDE DEF a
  <2>8. f[k + 1] \in States /\ f[k + 1].home = f[k].home /\ f[k + 1].shared = {}
    BY <2>2, <2>3, <2>5, <2>6, <2>7 DEF a
  <2> QED BY <1>2, <2>1, <2>8
<1> HIDE DEF Good
<1>3. \A k \in from..to : k \in Good
  BY <1>1, <1>2, StepByStep
<1> QED BY <1>3 DEF Good

LEMMA CommittedApart ==
  ASSUME NEW m \in States, m.shared = {}, NEW entries \in Seq(Command), NEW from \in Nat
  PROVE  ApplyCommitted(m, "away", entries, from).home = m.home
<1>1. Len(entries) \in Nat /\ \A k \in 1..Len(entries) : entries[k] \in Command
  OBVIOUS
<1>2. CASE from <= Len(entries)
  <2>1. PICK f : /\ Trace(f, m, "away", entries, from, Len(entries))
                 /\ ApplyCommitted(m, "away", entries, from) = f[Len(entries)]
    BY <1>1, <1>2, AppliedByTrace
  <2>2. \A k \in (from + 1)..Len(entries) : entries[k] \in Command
    BY <1>1
  <2>3. f[Len(entries)].home = m.home
    BY <1>1, <1>2, <2>1, <2>2, TraceApart
  <2> QED BY <2>1, <2>3
<1>3. CASE ~(from <= Len(entries))
  BY <1>1, <1>3 DEF ApplyCommitted
<1> QED BY <1>2, <1>3

SameCommands(entries, other, from, to) ==
  \A k \in (from + 1)..to : entries[k] \in Command /\ other[k] = entries[k]

\* What home's states become depends on home's states and on the commands.
LEMMA TracesMeet ==
  ASSUME NEW f, NEW g, NEW m \in States, NEW n \in States, m.home = n.home,
         NEW entries, NEW other, NEW from \in Nat, NEW to \in Nat, from <= to,
         Trace(f, m, "home", entries, from, to), Trace(g, n, "home", other, from, to),
         SameCommands(entries, other, from, to)
  PROVE  f[to] \in States /\ g[to] \in States /\ f[to].home = g[to].home
<1> DEFINE Good == {k \in from..to : f[k] \in States /\ g[k] \in States /\ f[k].home = g[k].home}
<1>1. from \in Good
  BY DEF Trace
<1>2. ASSUME NEW k \in from..to, k \in Good, k + 1 <= to PROVE k + 1 \in Good
  <2>1. k + 1 \in (from + 1)..to /\ k + 1 \in from..to /\ (k + 1) - 1 = k
    BY <1>2
  <2>2. /\ f[k + 1] = ApplyCommand(f[k], "home", entries[k + 1])
        /\ g[k + 1] = ApplyCommand(g[k], "home", entries[k + 1])
    BY <2>1 DEF Trace, SameCommands
  <2>3. /\ f[k] \in States /\ g[k] \in States /\ f[k].home = g[k].home /\ entries[k + 1] \in Command
        /\ NewState(f[k], "home", entries[k + 1]) = NewState(g[k], "home", entries[k + 1])
    BY <1>2, <2>1 DEF NewState, SameCommands
  <2>4. /\ f[k + 1] \in States
        /\ f[k + 1].home = [f[k].home EXCEPT ![entries[k + 1].slug] = NewState(f[k], "home", entries[k + 1])]
    <3>1. ApplyCommand(f[k], "home", entries[k + 1]) \in States
      BY <2>3, AppliedHome
    <3>2. ApplyCommand(f[k], "home", entries[k + 1]).home =
            [f[k].home EXCEPT ![entries[k + 1].slug] = NewState(f[k], "home", entries[k + 1])]
      BY <2>3, AppliedHome
    <3> QED BY <2>2, <3>1, <3>2
  <2>5. /\ g[k + 1] \in States
        /\ g[k + 1].home = [g[k].home EXCEPT ![entries[k + 1].slug] = NewState(g[k], "home", entries[k + 1])]
    <3>1. ApplyCommand(g[k], "home", entries[k + 1]) \in States
      BY <2>3, AppliedHome
    <3>2. ApplyCommand(g[k], "home", entries[k + 1]).home =
            [g[k].home EXCEPT ![entries[k + 1].slug] = NewState(g[k], "home", entries[k + 1])]
      BY <2>3, AppliedHome
    <3> QED BY <2>2, <3>1, <3>2
  <2> QED BY <2>1, <2>3, <2>4, <2>5
<1> HIDE DEF Good
<1>3. \A k \in from..to : k \in Good
  BY <1>1, <1>2, StepByStep
<1> QED BY <1>3 DEF Good

\* The replay of a whole log
Blank == [home |-> [s \in Slug |-> Missing], away |-> [s \in Slug |-> Missing], shared |-> {}]
ReplayOf(entries) == ApplyCommitted(Blank, "home", entries, 0).home

LEMMA BlankType == Blank \in States /\ SharedAgree(Blank)
<1>1. Missing \in NodeState
  BY DEF Missing, NodeState
<1> QED BY <1>1 DEF Blank, States, SharedAgree

\* Where a node applied the first n commands, to apply the rest gives what the log says.
LEMMA ReplayContinues ==
  ASSUME NEW entries \in Seq(Command), NEW n \in 0..Len(entries), NEW m \in States,
         m.home = ReplayOf(SubSeq(entries, 1, n))
  PROVE  ApplyCommitted(m, "home", entries, n).home = ReplayOf(entries)
<1> DEFINE first == SubSeq(entries, 1, n)
<1>1. Len(entries) \in Nat /\ n \in Nat /\ n <= Len(entries) /\ \A k \in 1..Len(entries) : entries[k] \in Command
  OBVIOUS
<1>2. Len(first) = n /\ \A k \in 1..n : first[k] = entries[k]
  BY <1>1
<1> HIDE DEF first
<1>3. PICK f : Trace(f, Blank, "home", first, 0, n)
                 /\ ApplyCommitted(Blank, "home", first, 0) = f[n]
  BY <1>1, <1>2, AppliedByTrace
<1>4. PICK g : Trace(g, Blank, "home", entries, 0, Len(entries))
                 /\ ApplyCommitted(Blank, "home", entries, 0) = g[Len(entries)]
  BY <1>1, AppliedByTrace
<1>5. PICK h : Trace(h, m, "home", entries, n, Len(entries))
                 /\ ApplyCommitted(m, "home", entries, n) = h[Len(entries)]
  BY <1>1, AppliedByTrace
<1>6. Trace(g, Blank, "home", entries, 0, n) /\ Trace(g, g[n], "home", entries, n, Len(entries))
  BY <1>1, <1>4 DEF Trace
<1>7. f[n] \in States /\ g[n] \in States /\ f[n].home = g[n].home
  <2>1. SameCommands(first, entries, 0, n)
    BY <1>1, <1>2 DEF SameCommands
  <2>2. 0 \in Nat /\ n \in Nat /\ 0 <= n /\ Blank \in States
    BY <1>1, BlankType
  <2>3. Trace(f, Blank, "home", first, 0, n) /\ Trace(g, Blank, "home", entries, 0, n)
    BY <1>3, <1>6
  <2> QED BY <2>1, <2>2, <2>3, TracesMeet
<1>8. m.home = g[n].home
  BY <1>3, <1>7 DEF ReplayOf, first
<1>9. h[Len(entries)].home = g[Len(entries)].home
  <2>1. SameCommands(entries, entries, n, Len(entries))
    BY <1>1 DEF SameCommands
  <2>2. Trace(h, m, "home", entries, n, Len(entries)) /\ Trace(g, g[n], "home", entries, n, Len(entries))
    BY <1>5, <1>6
  <2>3. n \in Nat /\ Len(entries) \in Nat /\ n <= Len(entries) /\ g[n] \in States
    BY <1>1, <1>7
  <2> QED BY <1>8, <2>1, <2>2, <2>3, TracesMeet
<1> QED BY <1>4, <1>5, <1>9 DEF ReplayOf

\* As long as nothing changed home's states outside its log, they are its replay.
StatesShape ==
  /\ sm \in States /\ SharedAgree(sm) /\ snapshot \in [Slug -> NodeState]
  /\ applied \in [home : Nat, away : Nat] /\ applied.home <= Len(homeLog)

StatesInv == StatesShape /\ HomeFollowsLog

LEMMA FollowsLog ==
  HomeFollowsLog <=> (~outside => sm.home = ReplayOf(SubSeq(homeLog, 1, applied.home)))
BY DEF HomeFollowsLog, Replayed, ReplayOf, Blank

LEMMA StatesInvInit == OfflineInit => StatesInv
<1> SUFFICES ASSUME OfflineInit PROVE StatesInv
  OBVIOUS
<1>1. /\ sm = Blank /\ homeLog = <<>> /\ Len(homeLog) = 0 /\ applied = [home |-> 0, away |-> 0]
      /\ snapshot = [s \in Slug |-> Missing]
  BY DEF OfflineInit, Blank
<1>2. StatesShape
  <2>1. Missing \in NodeState
    BY DEF Missing, NodeState
  <2>2. applied \in [home : Nat, away : Nat] /\ applied.home = 0
    BY <1>1
  <2> QED BY <1>1, <2>1, <2>2, BlankType DEF StatesShape
<1>3. ReplayOf(SubSeq(homeLog, 1, applied.home)) = Blank.home
  <2>1. applied.home = 0 /\ SubSeq(homeLog, 1, 0) = <<>> /\ Len(<<>>) = 0
    BY <1>1
  <2>2. ApplyCommitted(Blank, "home", <<>>, 0) = Blank
    BY <2>1 DEF ApplyCommitted
  <2> QED BY <2>1, <2>2 DEF ReplayOf
<1> QED BY <1>1, <1>2, <1>3, FollowsLog DEF StatesInv

\* Steps that leave log and states alone
LEMMA SameStates ==
  ASSUME StatesInv, UNCHANGED <<homeLog, sm, snapshot, applied>>, outside => outside'
  PROVE  StatesInv'
BY DEF StatesInv, StatesShape, HomeFollowsLog, Replayed

LEMMA ProposeKeepsStates ==
  ASSUME WritesShape, StatesInv, NEW c \in Command, Propose(c), UNCHANGED <<snapshot, outside>>
  PROVE  StatesInv'
<1> DEFINE n == applied.home
<1>1. /\ homeLog \in Seq(Command) /\ Len(homeLog) \in Nat /\ n \in Nat /\ n <= Len(homeLog)
      /\ applied \in [home : Nat, away : Nat]
  BY DEF WritesShape, StatesInv, StatesShape
<1>2. homeLog' = Append(homeLog, c)
  BY DEF Propose
<1>3. /\ homeLog' \in Seq(Command) /\ Len(homeLog') = Len(homeLog) + 1
      /\ n \in 0..Len(homeLog')
  BY <1>1, <1>2
<1>4. SubSeq(homeLog', 1, n) = SubSeq(homeLog, 1, n)
  BY <1>1, <1>2, <1>3
<1>5. CASE ~alone
  <2>1. UNCHANGED <<sm, applied>>
    BY <1>1, <1>5 DEF Propose
  <2>2. StatesShape'
    BY <1>1, <1>3, <2>1 DEF StatesInv, StatesShape
  <2>3. HomeFollowsLog'
    BY <1>4, <2>1 DEF StatesInv, HomeFollowsLog, Replayed
  <2> QED BY <2>2, <2>3 DEF StatesInv
<1>6. CASE alone
  <2>1. /\ sm' = ApplyCommitted(sm, "home", homeLog', n)
        /\ applied' = [applied EXCEPT !.home = Len(homeLog')]
    BY <1>6 DEF Propose
  <2>2. sm \in States /\ SharedAgree(sm)
    BY DEF StatesInv, StatesShape
  <2>3. sm' \in States /\ SharedAgree(sm)'
    BY <1>1, <1>3, <2>1, <2>2, CommittedAgrees
  <2>4. applied' \in [home : Nat, away : Nat] /\ applied'.home = Len(homeLog')
    BY <1>1, <1>3, <2>1
  <2>5. StatesShape'
    BY <1>3, <2>3, <2>4 DEF StatesInv, StatesShape
  <2>6. ASSUME ~outside' PROVE sm'.home = ReplayOf(SubSeq(homeLog', 1, applied'.home))
    <3>1. sm.home = ReplayOf(SubSeq(homeLog', 1, n))
      BY <1>4, <2>6, FollowsLog DEF StatesInv
    <3>2. sm'.home = ReplayOf(homeLog')
      BY <1>3, <2>1, <2>2, <3>1, ReplayContinues
    <3>3. SubSeq(homeLog', 1, Len(homeLog')) = homeLog'
      BY <1>3
    <3> QED BY <2>4, <3>2, <3>3
  <2>7. HomeFollowsLog'
    BY <2>6 DEF HomeFollowsLog, Replayed, ReplayOf, Blank
  <2> QED BY <2>5, <2>7 DEF StatesInv
<1> QED BY <1>5, <1>6

LEMMA HomeKeepsStates ==
  ASSUME WritesShape, StatesInv,
         HomeWins \/ HomeStepsDown \/ HomeRestarts \/ (\E c \in Given : HomeApplies(c))
  PROVE  StatesInv'
<1>1. CASE HomeWins \/ HomeStepsDown
  BY <1>1, SameStates DEF HomeWins, HomeStepsDown
<1>2. CASE HomeRestarts
  <2>1. /\ sm' = [sm EXCEPT !.home = snapshot, !.shared = {}] /\ outside'
        /\ applied' = [applied EXCEPT !.home = 0] /\ UNCHANGED <<homeLog, snapshot>>
    BY <1>2 DEF HomeRestarts
  <2>2. sm \in States /\ snapshot \in [Slug -> NodeState] /\ applied \in [home : Nat, away : Nat]
    BY DEF StatesInv, StatesShape
  <2>3. sm' \in States /\ sm'.shared = {}
    BY <2>1, <2>2 DEF States
  <2>4. applied' \in [home : Nat, away : Nat] /\ applied'.home = 0 /\ 0 <= Len(homeLog)
    BY <2>1, <2>2 DEF WritesShape
  <2>5. SharedAgree(sm)'
    BY <2>3 DEF SharedAgree
  <2> QED BY <2>1, <2>2, <2>3, <2>4, <2>5 DEF StatesInv, StatesShape, HomeFollowsLog
<1>3. CASE \E c \in Given : HomeApplies(c)
  BY <1>3, GivenCommand, ProposeKeepsStates DEF HomeApplies
<1> QED BY <1>1, <1>2, <1>3

LEMMA AwayKeepsStates ==
  ASSUME WritesShape, StatesInv, NEW c \in Given, AwayApplies(c)
  PROVE  StatesInv'
<1> DEFINE op == [c EXCEPT !.id = given.away + 1]
           known == [sm EXCEPT !.away[c.slug] = StateOf(sm.away, c.slug)]
<1>1. /\ sm' = IF c.type = "transition" THEN ApplyCommand(known, "away", op) ELSE known
      /\ outside' = (outside \/ (c.type = "transition" /\ c.slug \in sm.shared))
      /\ UNCHANGED <<homeLog, snapshot, applied>>
  BY DEF AwayApplies
<1>2. op \in Command /\ op.type = c.type /\ op.slug = c.slug /\ c.slug \in Slug
  <2>1. c \in Command /\ given.away + 1 \in Nat
    BY GivenCommand DEF WritesShape
  <2> QED BY <2>1 DEF Command
<1>3. sm \in States /\ SharedAgree(sm)
  BY DEF StatesInv, StatesShape
<1>4. /\ known \in States /\ known.shared = sm.shared /\ known.home = sm.home
      /\ known.away = [sm.away EXCEPT ![c.slug] = StateOf(sm.away, c.slug)]
  <2>1. sm.away \in [Slug -> NodeState]
    BY <1>3 DEF States
  <2> DEFINE away == [sm.away EXCEPT ![c.slug] = StateOf(sm.away, c.slug)]
  <2>2. away \in [Slug -> NodeState]
    BY <1>2, <2>1, StateOfType
  <2>3. known = [sm EXCEPT !.away = away]
    BY <1>3 DEF States
  <2> HIDE DEF away
  <2>4. known = [home |-> sm.home, away |-> away, shared |-> sm.shared]
    BY <1>3, <2>3 DEF States
  <2>5. known \in States /\ known.shared = sm.shared /\ known.home = sm.home /\ known.away = away
    BY <1>3, <2>2, <2>4 DEF States
  <2> QED BY <2>5 DEF away
<1> HIDE DEF op, known
<1>5. SharedAgree(known)
  <2> SUFFICES ASSUME NEW s \in sm.shared
               PROVE  known.home[s] = known.away[s] /\ RunKnown(known.home[s])
    BY <1>4 DEF SharedAgree
  <2>1. s \in Slug /\ sm.home[s] = sm.away[s] /\ RunKnown(sm.home[s]) /\ sm.away \in [Slug -> NodeState]
    BY <1>3 DEF States, SharedAgree
  <2>2. StateOf(sm.away, s) = sm.away[s]
    BY <2>1 DEF StateOf
  <2>3. known.away[s] = sm.away[s]
    BY <1>2, <1>4, <2>1, <2>2
  <2> QED BY <1>4, <2>1, <2>3
<1>6. CASE c.type # "transition"
  BY <1>1, <1>4, <1>5, <1>6 DEF StatesInv, StatesShape, HomeFollowsLog, Replayed
<1>7. CASE c.type = "transition"
  <2>1. sm' = ApplyCommand(known, "away", op)
    BY <1>1, <1>7
  <2>2. sm' \in States /\ SharedAgree(sm)'
    BY <1>2, <1>4, <1>5, <2>1, AppliedAgrees
  <2>3. ASSUME ~outside' PROVE ~outside /\ sm'.home = sm.home
    <3>1. ~outside /\ ~InPlace(known, op)
      BY <1>1, <1>2, <1>4, <1>7, <2>3 DEF InPlace
    <3>2. ApplyCommand(known, "away", op).home = known.home
      BY <1>2, <1>4, <3>1, AppliedAway
    <3> QED BY <1>4, <2>1, <3>1, <3>2
  <2> QED BY <1>1, <2>2, <2>3 DEF StatesInv, StatesShape, HomeFollowsLog, Replayed
<1> QED BY <1>6, <1>7

\* A merge that keeps what away has shares its object with home.
LEMMA ProvideShares ==
  ASSUME StatesInv, NEW s \in Slug, RunKnown(sm.away[s]), NEW which, ProvideMerge(s, which)
  PROVE  /\ sm' \in States /\ SharedAgree(sm)' /\ snapshot' \in [Slug -> NodeState]
         /\ ~leads \/ which = "remote" => sm' = sm
<1>1. /\ sm \in States /\ SharedAgree(sm) /\ snapshot \in [Slug -> NodeState]
      /\ sm.home \in [Slug -> NodeState] /\ sm.away \in [Slug -> NodeState]
      /\ sm.shared \in SUBSET Slug
  BY DEF StatesInv, StatesShape, States
<1>2. CASE ~leads \/ which = "remote"
  <2>1. sm' = sm /\ (snapshot' = snapshot \/ snapshot' = sm'.home)
    BY <1>2 DEF ProvideMerge
  <2> QED BY <1>1, <2>1
<1>3. CASE leads /\ which # "remote"
  <2> DEFINE home == [sm.home EXCEPT ![s] = sm.away[s]]
  <2>1. sm' = [sm EXCEPT !.home = home, !.shared = sm.shared \cup {s}] /\ snapshot' = sm'.home
    BY <1>3 DEF ProvideMerge
  <2>2. home \in [Slug -> NodeState] /\ home[s] = sm.away[s]
        /\ \A u \in Slug : u # s => home[u] = sm.home[u]
    BY <1>1
  <2> HIDE DEF home
  <2>3. sm' = [home |-> home, away |-> sm.away, shared |-> sm.shared \cup {s}]
    BY <1>1, <2>1 DEF States
  <2>4. sm' \in States /\ snapshot' = home
    BY <1>1, <2>1, <2>2, <2>3 DEF States
  <2>5. ASSUME NEW u \in sm.shared \cup {s} PROVE home[u] = sm.away[u] /\ RunKnown(home[u])
    <3>1. CASE u = s
      BY <2>2, <3>1
    <3>2. CASE u # s
      BY <1>1, <2>2, <3>2 DEF SharedAgree
    <3> QED BY <3>1, <3>2
  <2>6. SharedAgree(sm)'
    BY <2>3, <2>5 DEF SharedAgree
  <2> QED BY <1>3, <2>2, <2>4, <2>6
<1> QED BY <1>2, <1>3

LEMMA MergesKeepStates ==
  ASSUME WritesShape, StatesInv, MergeOp \/ ResolveOp
  PROVE  StatesInv'
<1> DEFINE s == pending[sync.i].cmd.slug
           l == sm.away[s]
           r == sm.home[s]
<1>1. s \in Slug /\ UNCHANGED <<homeLog, applied>>
  <2>1. sync.i \in Nat /\ sync.i > 0 /\ sync.i <= Len(pending) /\ Len(pending) \in Nat
    BY DEF MergeOp, ResolveOp, OpOf, WritesShape
  <2>2. pending[sync.i].cmd \in Command
    BY <2>1, PendingShape
  <2> QED BY <2>2 DEF Command, MergeOp, ResolveOp
<1>2. CASE UNCHANGED <<sm, snapshot>> /\ (outside => outside')
  BY <1>1, <1>2, SameStates
<1>3. CASE MergeOp
  <2>1. \/ RunKnown(l) /\ ProvideMerge(s, Merge(l, r))
        \/ UNCHANGED <<sm, snapshot>>
    BY <1>3 DEF MergeOp
  <2>2. outside' = (outside \/ leads)
    BY <1>3 DEF MergeOp
  <2>3. CASE RunKnown(l) /\ ProvideMerge(s, Merge(l, r))
    <3>1. /\ sm' \in States /\ SharedAgree(sm)' /\ snapshot' \in [Slug -> NodeState]
          /\ ~leads => sm' = sm
      BY <1>1, <2>3, ProvideShares
    <3> QED BY <1>1, <2>2, <3>1 DEF StatesInv, StatesShape, HomeFollowsLog, Replayed
  <2> QED BY <1>2, <2>1, <2>2, <2>3
<1>4. CASE ResolveOp
  <2>1. \/ Resolves(l, r) /\ ProvideMerge(s, Merge(l, r))
        \/ UNCHANGED <<sm, snapshot>>
    BY <1>4 DEF ResolveOp
  <2>2. outside' = outside
    BY <1>4 DEF ResolveOp
  <2>3. CASE Resolves(l, r) /\ ProvideMerge(s, Merge(l, r))
    <3>1. RunKnown(l) /\ Merge(l, r) = "remote"
      BY <2>3 DEF Resolves, MergedValue
    <3>2. sm' \in States /\ SharedAgree(sm)' /\ snapshot' \in [Slug -> NodeState] /\ sm' = sm
      BY <1>1, <2>3, <3>1, ProvideShares
    <3> QED BY <1>1, <2>2, <3>2 DEF StatesInv, StatesShape, HomeFollowsLog, Replayed
  <2> QED BY <1>2, <2>1, <2>2, <2>3
<1> QED BY <1>3, <1>4

LEMMA ReconnectKeepsStates ==
  ASSUME WritesShape, StatesInv, Reconnect \/ ReconnectEnds
  PROVE  StatesInv'
<1>1. /\ sm \in States /\ SharedAgree(sm) /\ applied \in [home : Nat, away : Nat]
      /\ homeLog \in Seq(Command) /\ Len(homeLog) \in Nat /\ applied.away \in Nat
      /\ applied.home <= Len(homeLog) /\ snapshot \in [Slug -> NodeState]
  BY DEF WritesShape, StatesInv, StatesShape
<1>2. CASE Reconnect
  <2>1. /\ sm' = ApplyCommitted(sm, "away", homeLog, applied.away)
        /\ applied' = [applied EXCEPT !.away = IF applied.away < Len(homeLog)
                                               THEN Len(homeLog) ELSE applied.away]
        /\ outside' = (outside \/ (sm.shared # {} /\ applied.away < Len(homeLog)))
        /\ UNCHANGED <<homeLog, snapshot>>
    BY <1>2 DEF Reconnect
  <2>2. sm' \in States /\ SharedAgree(sm)'
    BY <1>1, <2>1, CommittedAgrees
  <2>3. applied' \in [home : Nat, away : Nat] /\ applied'.home = applied.home
    BY <1>1, <2>1
  <2>4. ASSUME ~outside' PROVE ~outside /\ sm'.home = sm.home
    <3>1. CASE sm.shared = {}
      BY <1>1, <2>1, <2>4, <3>1, CommittedApart
    <3>2. CASE ~(applied.away < Len(homeLog))
      BY <2>1, <2>4, <3>2 DEF ApplyCommitted
    <3> QED BY <2>1, <2>4, <3>1, <3>2
  <2> QED BY <1>1, <2>1, <2>2, <2>3, <2>4 DEF StatesInv, StatesShape, HomeFollowsLog, Replayed
<1>3. CASE ReconnectEnds
  <2> DEFINE shared == {s \in Slug : RunKnown(sm.home[s])}
  <2>1. sm' = [sm EXCEPT !.away = sm.home, !.shared = shared]
        /\ UNCHANGED <<homeLog, snapshot, applied, outside>>
    BY <1>3 DEF ReconnectEnds
  <2>2. sm' = [home |-> sm.home, away |-> sm.home, shared |-> shared]
    BY <1>1, <2>1 DEF States
  <2>3. sm' \in States /\ SharedAgree(sm)' /\ sm'.home = sm.home
    BY <1>1, <2>2 DEF States, SharedAgree
  <2> QED BY <1>1, <2>1, <2>3 DEF StatesInv, StatesShape, HomeFollowsLog, Replayed
<1> QED BY <1>2, <1>3

LEMMA SendKeepsStates ==
  ASSUME WritesShape, StatesInv, SendOp
  PROVE  StatesInv'
<1>1. UNCHANGED <<snapshot, outside>>
  BY DEF SendOp
<1>2. CASE UNCHANGED <<homeLog, sm, applied>>
  BY <1>1, <1>2, SameStates
<1>3. CASE Propose(pending[sync.i].cmd)
  <2>1. sync.i \in Nat /\ sync.i > 0 /\ sync.i <= Len(pending) /\ Len(pending) \in Nat
    BY DEF SendOp, OpOf, WritesShape
  <2>2. pending[sync.i].cmd \in Command
    BY <2>1, PendingShape
  <2> QED BY <1>1, <1>3, <2>2, ProposeKeepsStates
<1> QED BY <1>2, <1>3 DEF SendOp

LEMMA StatesInvNext ==
  WritesShape /\ StatesInv /\ [OfflineNext]_offlineVars => StatesInv'
<1>1. StatesInv /\ (UNCHANGED offlineVars \/ GoOffline \/ GoOnline \/ OnlineEnds \/ SentAll)
        => StatesInv'
  BY SameStates DEF offlineVars, GoOffline, GoOnline, OnlineEnds, SentAll
<1> QED BY <1>1, HomeKeepsStates, AwayKeepsStates, MergesKeepStates, ReconnectKeepsStates,
           SendKeepsStates DEF OfflineNext

LEMMA OfflineTypes == WritesInv /\ StatesInv => OfflineTypeOK
<1> SUFFICES ASSUME WritesShape, StatesInv PROVE OfflineTypeOK
  BY DEF WritesInv
<1>1. /\ \A s \in Slug : sm.home[s] \in NodeState /\ sm.away[s] \in NodeState
      /\ sm.shared \subseteq Slug /\ \A s \in sm.shared : sm.home[s] = sm.away[s]
  BY DEF StatesInv, StatesShape, States, SharedAgree
<1>2. \A k \in 1..Len(pending) : pending[k].cmd \in Command
  BY PendingShape
<1>3. /\ homeLog \in Seq(Command) /\ sync.kind \in {"none", "online", "reconnect"}
      /\ sync.step \in {"none", "send", "merge", "resolve"}
  BY DEF WritesShape
<1> QED BY <1>1, <1>2, <1>3 DEF OfflineTypeOK

LEMMA MergesAgree ==
  ASSUME NEW l \in NodeState, NEW r \in NodeState,
         l.version # r.version \/ Reaches(l.state, r.state) # Reaches(r.state, l.state)
  PROVE  MergedValue(l, r) = MergedValue(r, l)
<1>1. l.version \in Nat /\ r.version \in Nat
  BY DEF NodeState
<1>2. CASE l.version # r.version
  BY <1>1, <1>2 DEF MergedValue, Merge
<1>3. CASE l.version = r.version
  <2>1. Reaches(l.state, r.state) \in BOOLEAN /\ Reaches(r.state, l.state) \in BOOLEAN
    BY DEF Reaches
  <2>2. Reaches(l.state, r.state) # Reaches(r.state, l.state) /\ l.state # r.state
    BY <1>3
  <2>3. CASE Reaches(l.state, r.state)
    <3>1. ~Reaches(r.state, l.state)
      BY <2>1, <2>2, <2>3
    <3> QED BY <1>3, <2>2, <2>3, <3>1 DEF MergedValue, Merge
  <2>4. CASE ~Reaches(l.state, r.state)
    <3>1. Reaches(r.state, l.state)
      BY <2>1, <2>2, <2>4
    <3> QED BY <1>3, <2>2, <2>4, <3>1 DEF MergedValue, Merge
  <2> QED BY <2>3, <2>4
<1> QED BY <1>2, <1>3

LEMMA StatesAlways == OfflineSpec => [](WritesInv /\ StatesInv)
<1>1. OfflineInit => WritesInv /\ StatesInv
  BY WritesInvInit, StatesInvInit
<1>2. WritesInv /\ StatesInv /\ [OfflineNext]_offlineVars => (WritesInv /\ StatesInv)'
  BY WritesInvNext, StatesInvNext DEF WritesInv
<1> QED BY <1>1, <1>2, PTL DEF OfflineSpec

\* "State machine runs only on the leader": for any runs, commands, trips and restarts, home's
\* states are the replay of its applied log, unless they were changed outside of it.
THEOREM HomeStatesFollow == OfflineSpec => []HomeFollowsLog
<1>1. StatesInv => HomeFollowsLog
  BY DEF StatesInv
<1> QED BY <1>1, StatesAlways, PTL

-----------------------------------------------------------------------------
\* All parts of a grid

\* "Concurrency limits", "hard (pause) gates", "Pause running tasks for human review": for any
\* nodes, tasks and threads, a grid keeps its types, no node gets more than its workers, no
\* pause is lost and overspending pauses.
THEOREM GridHoldsAgents == GridSpec => []AgentsHeld
<1>1. OversightSpec => []OversightTypeOK
  <2>1. OversightInit => GateInv /\ GateCounts
    BY GateInvInit, GateCountsInit
  <2>2. GateInv /\ GateCounts /\ [OversightNext]_oversightVars => (GateInv /\ GateCounts)'
    BY GateInvNext, GateCountsNext
  <2> QED BY <2>1, <2>2, GateTypes, PTL DEF OversightSpec
<1>2. SpendingSpec => []SpendingTypeOK
  BY SpendingInvInit, SpendingInvNext, SpendingTypes, PTL DEF SpendingSpec
<1>3. ElectorSpec => []ElectorTypeOK
  BY ElectorInvInit, ElectorInvNext, ElectorTypes, PTL DEF ElectorSpec
<1>4. OfflineSpec => []OfflineTypeOK
  BY StatesAlways, OfflineTypes, PTL
<1>5. CSpec => [](CTypeOK /\ WithinCapacity)
  <2>1. CoordinatorInv => CTypeOK
    BY DEF CoordinatorInv
  <2> QED BY <2>1, CoordinatorCorrect, NodesWithinCapacity, PTL
<1>6. GridSpec => [](GridTypeOK /\ WithinCapacity)
  <2>1. CTypeOK /\ OversightTypeOK /\ SpendingTypeOK /\ ElectorTypeOK /\ OfflineTypeOK => GridTypeOK
    BY DEF GridTypeOK
  <2> QED BY <1>1, <1>2, <1>3, <1>4, <1>5, <2>1, PTL DEF GridSpec
<1>7. GridTypeOK /\ WithinCapacity /\ PauseNotLost /\ OverspendPauses => AgentsHeld
  BY DEF AgentsHeld
<1> QED BY <1>6, <1>7, PausesAreAnswered, CostsPause, PTL DEF GridSpec

\* "Only one node succeeds (the leader)", "Reconnect: pending log -> Leader approval", "CRDT":
\* for any nodes, runs and failures, the nodes of a grid agree who leads on Consul, what was
\* written offline, what the leader's states are and what merges give.
THEOREM GridNodesAgree == GridSpec => []AgreementKept
<1>1. OfflineTypeOK => MergeAgrees
  BY MergesAgree DEF OfflineTypeOK, MergeAgrees
<1>2. OfflineSpec => []MergeAgrees
  BY <1>1, StatesAlways, OfflineTypes, PTL
<1>3. ConsulLeaderHoldsKey /\ OfflineWriteKeptOnce /\ HomeFollowsLog /\ MergeAgrees => AgreementKept
  BY DEF AgreementKept
<1> QED BY <1>2, <1>3, KeyNamesTheLeader, OfflineWritesKeptOnce, HomeStatesFollow, PTL DEF GridSpec

===============================================================================
