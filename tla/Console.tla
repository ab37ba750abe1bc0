------------------------------- MODULE Console -------------------------------
(* The commands of the grid (engine/cli.py). Every command is a process of    *)
(* its own, with its own objects, and nothing but files joins it to a         *)
(* coordinator that already runs: "coordinator submit", "coordinator queue"   *)
(* and "coordinator nodes" each start a whole coordinator over the same       *)
(* write-ahead log and stop it again, which compacts the log. Tasks are seen  *)
(* here as in TaskQueue, where the log of ONE process is modelled in full;    *)
(* what is added is that a compaction replaces the file, so that a process    *)
(* that holds the old file open goes on writing to a file without a name.     *)
EXTENDS Integers, FiniteSets

CONSTANTS
  Job,          \* task identifiers
  Command,      \* processes that run a coordinator command
  MaxAborts     \* how many processes may be killed
ASSUME ConsoleAssumption == MaxAborts \in Nat /\ "daemon" \notin Command

VARIABLES
  alive,      \* the processes that have started a coordinator
  mem,        \* _tasks of each process
  attached,   \* the processes whose open file is the one that has the name
  file,       \* what a replay of the file that has the name rebuilds
  acked,      \* the tasks whose submission was reported as done
  completed,  \* the tasks that were completed
  shared,     \* two of the processes have run at the same time
  aborts      \* processes killed so far

consoleVars == <<alive, mem, attached, file, acked, completed, shared, aborts>>

Proc == Command \union {"daemon"}
Unfinished == {"queued", "assigned"}
Nothing == [t \in Job |-> "absent"]

ConsoleInit ==
  /\ alive = {} /\ mem = [p \in Proc |-> Nothing] /\ attached = {}
  /\ file = Nothing /\ acked = {} /\ completed = {} /\ shared = FALSE /\ aborts = 0

\* Processes, the tasks each holds and the log file keep their types.
ConsoleTypeOK ==
  /\ alive \subseteq Proc /\ attached \subseteq alive
  /\ mem \in [Proc -> [Job -> {"absent", "queued", "assigned", "done"}]]
  /\ file \in [Job -> {"absent", "queued", "assigned", "done"}]
  /\ acked \subseteq Job /\ completed \subseteq acked /\ shared \in BOOLEAN /\ aborts \in 0..MaxAborts
-----------------------------------------------------------------------------
\* CoordinatorNode.start: the queue replays the log and opens it for appending.
ProcStarts(p) ==
  /\ p \notin alive
  /\ alive' = alive \union {p} /\ attached' = attached \union {p}
  /\ mem' = [mem EXCEPT ![p] = file]
  /\ shared' = (shared \/ alive # {})
  /\ UNCHANGED <<file, acked, completed, aborts>>

\* The process notes a new status of a task: in its memory and, as long as its
\* file has the name, where a replay will find it.
Notes(p, t, status) ==
  /\ mem' = [mem EXCEPT ![p][t] = status]
  /\ file' = IF p \in attached THEN [file EXCEPT ![t] = status] ELSE file

\* submit_task: a new identifier, in the daemon (its API) or in the command.
SubmitTask(p, t) ==
  /\ p \in alive /\ t \notin acked
  /\ Notes(p, t, "queued") /\ acked' = acked \union {t}
  /\ UNCHANGED <<alive, attached, completed, shared, aborts>>

\* Only the daemon has worker nodes to assign a task to.
DaemonAssigns(t) ==
  /\ "daemon" \in alive /\ mem["daemon"][t] = "queued"
  /\ Notes("daemon", t, "assigned")
  /\ UNCHANGED <<alive, attached, acked, completed, shared, aborts>>

DaemonCompletes(t) ==
  /\ "daemon" \in alive /\ mem["daemon"][t] = "assigned"
  /\ Notes("daemon", t, "done") /\ completed' = completed \union {t}
  /\ UNCHANGED <<alive, attached, acked, shared, aborts>>

\* Variant: tasks that somebody works on are left out.
CompactedQueued(m) == [t \in Job |-> IF m[t] = "queued" THEN "queued" ELSE "absent"]

\* _compact_wal: the unfinished tasks the process knows of, to be queued again.
Compacted(m) == [t \in Job |-> IF m[t] \in Unfinished THEN "queued" ELSE "absent"]

(* TaskQueue.close: the new file takes the name, and whoever has the old one  *)
(* open keeps it; with nothing unfinished the file is emptied where it is.    *)
(* A compaction that fails leaves the file as it was.                         *)
ProcStops(p) ==
  /\ p \in alive /\ alive' = alive \ {p} /\ mem' = [mem EXCEPT ![p] = Nothing]
  /\ \/ /\ file' = Compacted(mem[p])
        /\ attached' = IF \E t \in Job : mem[p][t] \in Unfinished THEN {}
                                                               ELSE attached \ {p}
     \/ file' = file /\ attached' = attached \ {p}
  /\ UNCHANGED <<acked, completed, shared, aborts>>

\* coordinator_start, and what its users ask of it until it is interrupted
CoordinatorStart ==
  \/ ProcStarts("daemon") \/ ProcStops("daemon")
  \/ \E t \in Job : SubmitTask("daemon", t) \/ DaemonAssigns(t) \/ DaemonCompletes(t)

\* coordinator_submit: start, submit, report the identifier, stop
CoordinatorSubmit(c) == ProcStarts(c) \/ (\E t \in Job : SubmitTask(c, t)) \/ ProcStops(c)

\* coordinator_queue and coordinator_nodes: start, show, stop
CoordinatorShow(c) == ProcStarts(c) \/ ProcStops(c)

\* A process is killed: what it wrote is in the file it wrote to.
Aborted(p) ==
  /\ p \in alive /\ aborts < MaxAborts
  /\ aborts' = aborts + 1 /\ alive' = alive \ {p} /\ attached' = attached \ {p}
  /\ mem' = [mem EXCEPT ![p] = Nothing]
  /\ UNCHANGED <<file, acked, completed, shared>>

ConsoleNext ==
  \/ CoordinatorStart
  \/ \E c \in Command : CoordinatorSubmit(c) \/ CoordinatorShow(c)
  \/ \E p \in Proc : Aborted(p)
-----------------------------------------------------------------------------
(* As long as no two of these processes have run at the same time, a task     *)
(* whose submission was reported and that was not completed is found by the   *)
(* next replay, whether its process stopped or was killed: the log of one     *)
(* process after another loses nothing. With two at once it does: the stop of *)
(* the daemon writes the tasks that IT knows of over those a command has      *)
(* submitted, and a command that only looks replaces the daemon's file.       *)
KeptAlone ==
  ~shared => \A t \in acked \ completed : file[t] \in Unfinished
=============================================================================
