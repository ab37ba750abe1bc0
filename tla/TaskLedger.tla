----------------------------- MODULE TaskLedger -----------------------------
(***************************************************************************)
(* What the task queue promises to whoever submits tasks, without its heap, *)
(* its id sets and its log: a ledger of statuses that a crash leaves alone. *)
(* A task the ledger could not save, because a write failed or came after   *)
(* the ledger was shut, is the only one a restart may get wrong; a restart  *)
(* after a proper close queues the unfinished tasks again and drops the     *)
(* others.  Module TaskQueue implements it (TaskQueue!Ledger).              *)
(***************************************************************************)
CONSTANT Task

VARIABLES
  status,    \* of each task
  unsaved,   \* tasks whose last changes are not on disk
  shut       \* closed, with the unfinished tasks saved as queued

Live     == {"QUEUED", "ASSIGNED"}
Terminal == {"COMPLETED", "FAILED", "CANCELLED"}
Status   == {"absent"} \cup Live \cup Terminal

Init == status = [t \in Task |-> "absent"] /\ unsaved = {} /\ shut = FALSE

\* The tasks in S, each in a status of From, all get the same one.
Change(S, From, to) ==
  /\ \A t \in S : status[t] \in From
  /\ status' = [t \in Task |-> IF t \in S THEN to ELSE status[t]]
  /\ unsaved \subseteq unsaved' /\ unsaved' \subseteq unsaved \cup S
  /\ shut => S \subseteq unsaved'
  /\ shut' = shut

Submit(t) == Change({t}, {"absent"}, "QUEUED")
Take(t)   == Change({t}, {"QUEUED"}, "ASSIGNED")
Retry(t)  == Change({t}, Live \cup Terminal, "QUEUED")
Finish(S) == \E s \in Terminal : Change(S, Live \cup Terminal, s)

Shut == shut' = TRUE /\ unsaved' = {} /\ status' = status

\* A restart, after a crash or a close, of which only a close is told apart
Restart ==
  /\ status' \in [Task -> Status]
  /\ \A t \in Task \ unsaved :
       status'[t] = IF ~shut THEN status[t]
                    ELSE IF status[t] \in Live THEN "QUEUED" ELSE "absent"
  /\ unsaved' = {} /\ shut' = FALSE

Next ==
  \/ \E t \in Task : Submit(t) \/ Take(t) \/ Retry(t)
  \/ \E S \in SUBSET Task : Finish(S)
  \/ Shut
  \/ Restart

Spec == Init /\ [][Next]_<<status, unsaved, shut>>
=============================================================================
