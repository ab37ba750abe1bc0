-------------------------------- MODULE Tools ---------------------------------
(* The tool executor of the agents (agent_runtime/tool_executor.py): tools    *)
(* that are coroutines, plain functions or generators, called concurrently by *)
(* the coroutines of one event loop. Functions and generators run on the      *)
(* threads of the loop's default executor; the time limit of a call ends the  *)
(* wait for the thread and not the thread, and a generator has no limit.      *)
EXTENDS Integers, Sequences, FiniteSets, Naturals

CONSTANTS
  Tool, Kind,      \* the tools; each is "async", "sync" or "gen"
  Hanging,         \* the tools whose handler never returns
  ToolCall,        \* identifiers of calls
  NoCall,
  Threads,         \* the threads of the default executor
  Links            \* the tools of a chain, in order
ASSUME ToolsAssumption ==
  /\ Kind \in [Tool -> {"async", "sync", "gen"}] /\ Hanging \subseteq Tool
  /\ NoCall \notin ToolCall /\ Threads \in Nat \ {0} /\ Links \in Seq(Tool)

VARIABLES
  toolStatus,   \* _status ("none": not registered)
  calls,        \* each call: the tool, and how far it is
  job,          \* the job of a call in the default executor
  chained,      \* the links of the chain that are still to run
  link          \* the call of the link under way

toolsVars == <<toolStatus, calls, job, chained, link>>
chainVars == <<chained, link>>

Fresh == [tool |-> "", at |-> "new"]
Over == {"ok", "error", "timeout", "cancelled", "unknown"}

ToolsInit ==
  /\ toolStatus = [t \in Tool |-> "none"]
  /\ calls = [c \in ToolCall |-> Fresh] /\ job = [c \in ToolCall |-> "none"]
  /\ chained = <<>> /\ link = NoCall

\* Tools, calls and the threads they hold keep their types.
ToolsTypeOK ==
  /\ toolStatus \in [Tool -> {"none", "available", "busy", "error"}]
  /\ calls \in [ToolCall -> [tool : Tool \union {""}, at : {"new", "waiting"} \union Over]]
  /\ job \in [ToolCall -> {"none", "pending", "running", "left"}]
  /\ Cardinality({c \in ToolCall : job[c] \in {"running", "left"}}) <= Threads
  /\ chained \in Seq(Tool) /\ link \in ToolCall \union {NoCall}
-----------------------------------------------------------------------------
\* _register, also for a name that is registered and perhaps being called.
Register(t) ==
  /\ toolStatus' = [toolStatus EXCEPT ![t] = "available"]
  /\ UNCHANGED <<calls, job, chainVars>>

\* _init_tools: every tool and adapter of the enabled plugins.
RegisterAll(ts) ==
  /\ toolStatus' = [t \in Tool |-> IF t \in ts THEN "available" ELSE toolStatus[t]]
  /\ UNCHANGED <<calls, job, chainVars>>

\* execute up to its await: a name that is not registered is answered at once;
\* a function or a generator is handed to the executor.
Called(c, t) ==
  /\ calls[c] = Fresh
  /\ IF toolStatus[t] = "none"
       THEN /\ calls' = [calls EXCEPT ![c] = [tool |-> t, at |-> "unknown"]]
            /\ UNCHANGED <<toolStatus, job>>
       ELSE /\ calls' = [calls EXCEPT ![c] = [tool |-> t, at |-> "waiting"]]
            /\ toolStatus' = [toolStatus EXCEPT ![t] = "busy"]
            /\ job' = [job EXCEPT ![c] = IF Kind[t] = "async" THEN "none" ELSE "pending"]

Execute(c, t) == Called(c, t) /\ UNCHANGED chainVars

\* A thread of the executor takes the job.
ThreadTakes(c) ==
  /\ job[c] = "pending"
  /\ Cardinality({d \in ToolCall : job[d] \in {"running", "left"}}) < Threads
  /\ job' = [job EXCEPT ![c] = "running"]
  /\ UNCHANGED <<toolStatus, calls, chainVars>>

\* Variant: the time limit leaves the tool marked as being called.
NotedBusy(t, outcome) ==
  [toolStatus EXCEPT ![t] = IF outcome = "error" THEN "error"
                            ELSE IF outcome = "timeout" THEN @ ELSE "available"]

\* Variant: the outcome of the call is stored as the status of its tool.
NotedOutcome(t, outcome) == [toolStatus EXCEPT ![t] = outcome]

\* What a call that ended leaves as the status of its tool; the record of the
\* call goes to the history.
Noted(t, outcome) ==
  [toolStatus EXCEPT ![t] = IF outcome = "error" THEN "error" ELSE "available"]

\* The handler returned or raised, and execute goes on.
HandlerReturns(c, outcome) ==
  /\ calls[c].at = "waiting" /\ calls[c].tool \notin Hanging
  /\ Kind[calls[c].tool] # "async" => job[c] = "running"
  /\ calls' = [calls EXCEPT ![c].at = outcome]
  /\ toolStatus' = Noted(calls[c].tool, outcome)
  /\ job' = [job EXCEPT ![c] = "none"]
  /\ UNCHANGED chainVars

\* Nobody waits for the job any more: one that no thread had taken is
\* withdrawn, one that runs goes on.
Abandoned(c) == IF job[c] = "running" THEN "left" ELSE "none"

\* Variant: the wait for a plain function has no limit either.
LimitedAsync == {"async"}

\* The kinds of tools whose call goes through asyncio.wait_for.
Limited == {"async", "sync"}

TimesOut(c) ==
  /\ calls[c].at = "waiting" /\ Kind[calls[c].tool] \in Limited
  /\ calls' = [calls EXCEPT ![c].at = "timeout"]
  /\ toolStatus' = Noted(calls[c].tool, "timeout")
  /\ job' = [job EXCEPT ![c] = Abandoned(c)]
  /\ UNCHANGED chainVars

\* The coroutine that called is cancelled: no branch of execute handles that,
\* so that neither the status nor the history hears of it.
CallCancelled(c) ==
  /\ calls[c].at = "waiting" /\ c # link
  /\ calls' = [calls EXCEPT ![c].at = "cancelled"]
  /\ job' = [job EXCEPT ![c] = Abandoned(c)]
  /\ UNCHANGED <<toolStatus, chainVars>>

\* A job that nobody waits for returns at last.
LeftReturns(c) ==
  /\ job[c] = "left" /\ calls[c].tool \notin Hanging
  /\ job' = [job EXCEPT ![c] = "none"]
  /\ UNCHANGED <<toolStatus, calls, chainVars>>

(* chain: one link after the other, whatever became of the one before; the    *)
(* values passed on are left out (a reference to a value that a failed link   *)
(* did not leave is passed on as it is written).                              *)
ChainBegins ==
  /\ chained = <<>> /\ link = NoCall /\ Links # <<>>
  /\ chained' = Links
  /\ UNCHANGED <<toolStatus, calls, job, link>>

ChainLink(c) ==
  /\ chained # <<>> /\ link = NoCall
  /\ Called(c, Head(chained))
  /\ link' = c /\ UNCHANGED chained

LinkEnds ==
  /\ link # NoCall /\ calls[link].at \in Over
  /\ chained' = Tail(chained) /\ link' = NoCall
  /\ UNCHANGED <<toolStatus, calls, job>>

ToolsNext ==
  \/ \E t \in Tool : Register(t)
  \/ \E ts \in SUBSET Tool : RegisterAll(ts)
  \/ \E c \in ToolCall, t \in Tool : Execute(c, t)
  \/ \E c \in ToolCall : \/ ThreadTakes(c) \/ TimesOut(c) \/ CallCancelled(c)
                         \/ LeftReturns(c) \/ ChainLink(c)
                         \/ \E outcome \in {"ok", "error"} : HandlerReturns(c, outcome)
  \/ ChainBegins \/ LinkEnds

\* Threads take jobs, handlers that end do end, limits expire, chains go on.
ToolsFairness ==
  /\ \A c \in ToolCall :
       /\ WF_toolsVars(ThreadTakes(c)) /\ WF_toolsVars(TimesOut(c))
       /\ WF_toolsVars(LeftReturns(c))
       /\ WF_toolsVars(\E outcome \in {"ok", "error"} : HandlerReturns(c, outcome))
  /\ WF_toolsVars(LinkEnds)
-----------------------------------------------------------------------------
Generators == {t \in Tool : Kind[t] = "gen"}

\* Every thread is held by a handler that will not return.
Exhausted ==
  Cardinality({c \in ToolCall : job[c] \in {"running", "left"}
                                /\ calls[c].tool \in Hanging}) = Threads

(* A call ends, whatever its handler does: by the handler, by the time limit  *)
(* or by the cancellation of its caller. The exceptions are the generators:   *)
(* one that never ends, and one that waits for a thread while every thread is *)
(* held by a handler whose call has long timed out.                           *)
CallEnds ==
  \A c \in ToolCall :
    (calls[c].at = "waiting")
      ~> \/ calls[c].at \in Over
         \/ calls[c].tool \in Generators /\ (Exhausted \/ calls[c].tool \in Hanging)

(* A tool that is shown as busy is being called, or was when a caller was     *)
(* cancelled: no call that ended leaves the mark behind.                      *)
BusyIsCalled ==
  \A t \in Tool : toolStatus[t] = "busy"
    => \E c \in ToolCall : calls[c].tool = t /\ calls[c].at \in {"waiting", "cancelled"}

-----------------------------------------------------------------------------
(* "agent run" (engine/cli.py): the command starts a supervisor of its own,   *)
(* gives it one task and looks at the status of its worker until that is one  *)
(* it waits for. The supervisor is modelled in full in Supervisor; here it is *)
(* what the command sees of it.                                               *)

CONSTANT MaxWorkerCrashes      \* bound: how often the worker may crash
ASSUME AgentRunAssumption == MaxWorkerCrashes \in Nat

VARIABLES
  worker,     \* the status of the worker
  mishaps,    \* how often it crashed
  waiting     \* the command: "no", "polling", "ended"

agentRunVars == <<worker, mishaps, waiting>>

AgentRunInit == worker = "none" /\ mishaps = 0 /\ waiting = "no"

\* The worker's status, the count of crashes and the command keep their types.
AgentRunTypeOK ==
  /\ worker \in {"none", "pending", "running", "completed", "failed", "crashed"}
  /\ mishaps \in 0..MaxWorkerCrashes /\ waiting \in {"no", "polling", "ended"}
-----------------------------------------------------------------------------
\* "agent run": a supervisor of its own, one worker, and a look at its status
\* every half second.
AgentRun ==
  /\ waiting = "no" /\ waiting' = "polling" /\ worker' = "pending"
  /\ UNCHANGED mishaps

\* AgentSupervisor._run_worker, seen from outside; a worker that crashed is
\* run again, under its identifier, after a pause (enable_auto_recovery).
WorkerStarts ==
  /\ worker \in {"pending", "crashed"} /\ worker' = "running"
  /\ UNCHANGED <<waiting, mishaps>>
WorkerEnds ==         \* nobody else has its handle, so nobody cancels it
  /\ worker = "running" /\ worker' \in {"completed", "failed"}
  /\ UNCHANGED <<waiting, mishaps>>
WorkerCrashes ==
  /\ worker = "running" /\ mishaps < MaxWorkerCrashes
  /\ worker' = "crashed" /\ mishaps' = mishaps + 1
  /\ UNCHANGED waiting

\* Variant: a worker that failed is expected to be run again.
AwaitedOutcomes == {"completed", "cancelled"}

\* The statuses at which the command stops waiting.
Awaited == {"completed", "failed", "cancelled"}

\* The worker has such a status: stop the supervisor, report, end.
RunEnds ==
  /\ waiting = "polling" /\ worker \in Awaited
  /\ waiting' = "ended" /\ UNCHANGED <<worker, mishaps>>

AgentRunNext == AgentRun \/ WorkerStarts \/ WorkerEnds \/ WorkerCrashes \/ RunEnds

\* The event loop runs the worker, whose execution has a time limit, and the
\* command's own loop.
AgentRunFairness == WF_agentRunVars(WorkerStarts) /\ WF_agentRunVars(WorkerEnds) /\ WF_agentRunVars(RunEnds)
-----------------------------------------------------------------------------
(* The command that runs an agent ends once its worker has, also when the     *)
(* worker crashed on the way: the status "crashed" is not one it waits for,   *)
(* and it depends on the worker being run again under the same identifier.    *)
AgentRunReturns == (waiting = "polling") ~> (waiting = "ended")
===============================================================================
