----------------------------- MODULE EngineLoops -----------------------------
(***************************************************************************)
(* The background loops of the engine: start and stop of AsyncEngine        *)
(* (engine/runtime.py), whose loops watch timeouts and health, and the      *)
(* WarmAgentCoordinator (engine/agent_coordinator.py), whose main loop runs *)
(* periodic tasks.                                                          *)
(*                                                                         *)
(* All of it shares one event loop: a coroutine gives way only where it     *)
(* sleeps, gathers, or runs a handler that suspends.  A cancelled coroutine *)
(* gets CancelledError where it waits.  Signals may stop the engine several *)
(* times; it is started again only after stop() has returned.               *)
(***************************************************************************)
EXTENDS Naturals, FiniteSets

CONSTANTS
  AgentTask,    \* ids of periodic tasks
  DefaultTask,  \* the ones setup_default_tasks registers
  Suspending,   \* the ones whose handler awaits something
  NoAgentTask,
  MaxStarts,    \* bound: starts
  MaxStops,     \* bound: calls of stop under way at once
  MaxChanges    \* bound: tasks added and removed by others

ASSUME LoopsAssumption ==
  /\ DefaultTask \subseteq AgentTask /\ Suspending \subseteq AgentTask
  /\ NoAgentTask \notin AgentTask
  /\ MaxStarts \in Nat /\ MaxStops \in Nat /\ MaxChanges \in Nat

VARIABLES
  engineOn,  \* _running of the engine
  warmOn,    \* _running of the warm agent coordinator
  tracked,   \* _tasks of the engine
  mainLoop,  \* _main_loop_task of the coordinator, as a set
  loop,      \* the loops that were started
  stopping,  \* the calls of stop() under way
  shutdown,  \* _shutdown_event
  agent,     \* _tasks of the coordinator
  starts, changes

loopCounts == <<starts, changes>>
loopVars == <<engineOn, warmOn, tracked, mainLoop, loop, stopping, shutdown, agent, loopCounts>>

LoopId == {"watcher", "health", "warm"} \X (1..MaxStarts)
StopId == 1..MaxStops

\* Where a loop is, whether it was cancelled, and, in a handler, the tasks still to
\* visit, the size the dictionary had, and the task whose handler is suspended.
LoopAt(where) ==
  [at |-> where, cancelled |-> FALSE, todo |-> {}, size |-> 0, cur |-> NoAgentTask]
LoopOver == LoopAt("over")

NotStopping == [stage |-> "none", awaits |-> {}]

\* AgentTask: whether it is registered and due, and its status
NoSuchTask == [known |-> FALSE, due |-> FALSE, status |-> "pending"]
NewTask    == [known |-> TRUE, due |-> TRUE, status |-> "pending"]
KnownTasks == {t \in AgentTask : agent[t].known}

LoopsInit ==
  /\ engineOn = FALSE /\ warmOn = FALSE /\ tracked = {} /\ mainLoop = {} /\ shutdown = FALSE
  /\ loop = [l \in LoopId |-> LoopOver] /\ stopping = [i \in StopId |-> NotStopping]
  /\ agent = [t \in AgentTask |-> NoSuchTask]
  /\ starts = 0 /\ changes = 0

\* task.cancel()
CancelledIn(f, L) ==
  [l \in LoopId |-> IF l \in L /\ f[l].at # "over" THEN [f[l] EXCEPT !.cancelled = TRUE] ELSE f[l]]
AllOver(L) == \A l \in L : loop[l].at = "over"

-----------------------------------------------------------------------------
\* AsyncEngine.start, with the start of the coordinator

\* setup_default_tasks: the four periodic tasks, each as new
WithDefaults(f) == [t \in AgentTask |-> IF t \in DefaultTask THEN NewTask ELSE f[t]]

\* WarmAgentCoordinator.start: the main loop, unless it runs
WarmStarts == IF warmOn THEN mainLoop ELSE {<<"warm", starts + 1>>}

EngineStart ==
  /\ ~engineOn /\ starts < MaxStarts /\ \A i \in StopId : stopping[i] = NotStopping
  /\ engineOn' = TRUE /\ warmOn' = TRUE /\ starts' = starts + 1
  /\ tracked' = {<<"watcher", starts + 1>>, <<"health", starts + 1>>}
  /\ agent' = WithDefaults(agent)
  /\ mainLoop' = WarmStarts
  /\ loop' = [l \in LoopId |-> IF l \in (tracked' \cup mainLoop') \ mainLoop THEN LoopAt("new")
                               ELSE loop[l]]
  /\ UNCHANGED <<stopping, shutdown, changes>>

\* Variant: stop() does not cancel the main loop of the coordinator and leaves _running.
WarmStopForgets(i, f) ==
  /\ loop' = f /\ UNCHANGED <<warmOn, shutdown>>
  /\ stopping' = [stopping EXCEPT ![i] = [stage |-> "warm", awaits |-> mainLoop]]

\* The rest of stop(), once no task of the engine is left: WarmAgentCoordinator.stop
WarmStop(i, f) ==
  /\ warmOn' = FALSE /\ loop' = CancelledIn(f, mainLoop)
  /\ IF mainLoop = {}
     THEN shutdown' = TRUE /\ stopping' = [stopping EXCEPT ![i] = NotStopping]
     ELSE /\ stopping' = [stopping EXCEPT ![i] = [stage |-> "warm", awaits |-> mainLoop]]
          /\ UNCHANGED shutdown

\* Variant: stop() waits for nobody.
StopsAtOnce(i) ==
  /\ stopping[i] = NotStopping /\ starts > 0 /\ engineOn
  /\ engineOn' = FALSE /\ warmOn' = FALSE /\ shutdown' = TRUE /\ tracked' = {} /\ mainLoop' = {}
  /\ loop' = CancelledIn(loop, tracked \cup mainLoop)
  /\ UNCHANGED <<stopping, agent, loopCounts>>

\* AsyncEngine.stop, up to where it waits
StopCalled(i) ==
  /\ stopping[i] = NotStopping /\ starts > 0
  /\ engineOn' = FALSE
  /\ IF tracked = {}
     THEN WarmStop(i, loop)
     ELSE /\ loop' = CancelledIn(loop, tracked)
          /\ stopping' = [stopping EXCEPT ![i] = [stage |-> "gathering", awaits |-> tracked]]
          /\ UNCHANGED <<warmOn, shutdown>>
  /\ UNCHANGED <<tracked, mainLoop, agent, loopCounts>>

\* The loops are over: _tasks.clear(), then the stop() of the coordinator
StopGathered(i) ==
  /\ stopping[i].stage = "gathering" /\ AllOver(stopping[i].awaits)
  /\ tracked' = {} /\ WarmStop(i, loop)
  /\ UNCHANGED <<engineOn, mainLoop, agent, loopCounts>>

\* The main loop is over, too: the end of both stops
StopReturns(i) ==
  /\ stopping[i].stage = "warm" /\ AllOver(stopping[i].awaits)
  /\ mainLoop' = {} /\ shutdown' = TRUE
  /\ stopping' = [stopping EXCEPT ![i] = NotStopping]
  /\ UNCHANGED <<engineOn, warmOn, tracked, loop, agent, loopCounts>>

-----------------------------------------------------------------------------
\* The loops

Alive(l) == loop[l].at # "over" /\ ~loop[l].cancelled

\* CancelledError: every loop breaks, or does not catch it.  A task whose handler
\* it interrupts stays as it is.
CancelArrives(l) ==
  /\ loop[l].cancelled
  /\ loop' = [loop EXCEPT ![l] = LoopOver]
  /\ UNCHANGED <<engineOn, warmOn, tracked, mainLoop, stopping, shutdown, agent, loopCounts>>

\* _timeout_watcher and _health_checker: a round, and the test of _running
Round(l) ==
  /\ Alive(l) /\ l[1] # "warm"
  /\ loop' = [loop EXCEPT ![l] = IF engineOn THEN LoopAt("asleep") ELSE LoopOver]
  /\ UNCHANGED <<engineOn, warmOn, tracked, mainLoop, stopping, shutdown, agent, loopCounts>>

\* _run_task of a set of tasks whose handlers do not suspend
Ran(f, T) ==
  {[t \in AgentTask |-> IF t \in T THEN [f[t] EXCEPT !.due = FALSE, !.status = s[t]] ELSE f[t]] :
     s \in [T -> {"completed", "failed"}]}

\* _tick goes on with the tasks todo, to its end or to a handler that suspends
TickGoesOn(l, f, todo) ==
  LET due == {t \in todo : f[t].due}
      slow == due \cap Suspending
  IN  \/ /\ slow = {}
         /\ agent' \in Ran(f, due)
         /\ loop' = [loop EXCEPT ![l] = LoopAt("asleep")]
      \/ \E t \in slow, visited \in SUBSET (todo \ slow) :
           /\ agent' \in Ran([f EXCEPT ![t].due = FALSE, ![t].status = "running"], visited \cap due)
           /\ loop' = [loop EXCEPT ![l] =
                [LoopAt("handler") EXCEPT !.todo = todo \ (visited \cup {t}), !.cur = t,
                                          !.size = Cardinality(KnownTasks)]]

\* _main_loop: the test of _running, and the start of _tick
TickBegins(l) ==
  /\ Alive(l) /\ l[1] = "warm" /\ loop[l].at \in {"new", "asleep", "backoff"}
  /\ IF warmOn THEN TickGoesOn(l, agent, KnownTasks)
     ELSE loop' = [loop EXCEPT ![l] = LoopOver] /\ agent' = agent
  /\ UNCHANGED <<engineOn, warmOn, tracked, mainLoop, stopping, shutdown, loopCounts>>

\* Variant: the loop does not outlive the error.
LoopDies(l) == loop' = [loop EXCEPT ![l] = LoopOver]

\* "dictionary changed size during iteration": the loop backs off.
IterationRaises(l) == loop' = [loop EXCEPT ![l] = LoopAt("backoff")]

\* The handler returns or raises; a task that was replaced meanwhile is not touched.
HandlerEnds(l) ==
  /\ Alive(l) /\ loop[l].at = "handler"
  /\ \E s \in {"completed", "failed"} :
       LET f == [t \in AgentTask |-> IF t = loop[l].cur THEN [agent[t] EXCEPT !.status = s]
                                     ELSE agent[t]]
       IN  IF loop[l].size = Cardinality(KnownTasks) THEN TickGoesOn(l, f, loop[l].todo)
           ELSE IterationRaises(l) /\ agent' = f
  /\ UNCHANGED <<engineOn, warmOn, tracked, mainLoop, stopping, shutdown, loopCounts>>

LoopStep(l) == CancelArrives(l) \/ Round(l) \/ TickBegins(l) \/ HandlerEnds(l)

-----------------------------------------------------------------------------
\* Tasks of the coordinator

\* A suspended handler of t no longer belongs to what is registered under t.
Disowned(t) == [l \in LoopId |-> IF loop[l].cur = t THEN [loop[l] EXCEPT !.cur = NoAgentTask]
                                 ELSE loop[l]]

\* add_task: a new key joins the iteration under way.
AddTask(t) ==
  /\ changes < MaxChanges /\ changes' = changes + 1
  /\ agent' = [agent EXCEPT ![t] = NewTask]
  /\ loop' = IF agent[t].known THEN Disowned(t)
             ELSE [l \in LoopId |-> IF loop[l].at = "handler"
                                    THEN [loop[l] EXCEPT !.todo = @ \cup {t}] ELSE loop[l]]
  /\ UNCHANGED <<engineOn, warmOn, tracked, mainLoop, stopping, shutdown, starts>>

RemoveTask(t) ==
  /\ agent[t].known /\ changes < MaxChanges /\ changes' = changes + 1
  /\ agent' = [agent EXCEPT ![t] = NoSuchTask]
  /\ loop' = [l \in LoopId |-> [Disowned(t)[l] EXCEPT !.todo = @ \ {t}]]
  /\ UNCHANGED <<engineOn, warmOn, tracked, mainLoop, stopping, shutdown, starts>>

\* next_run is reached.
BecomesDue(t) ==
  /\ agent[t].known /\ ~agent[t].due
  /\ agent' = [agent EXCEPT ![t].due = TRUE]
  /\ UNCHANGED <<engineOn, warmOn, tracked, mainLoop, loop, stopping, shutdown, loopCounts>>

StopStep(i) == StopGathered(i) \/ StopReturns(i)

LoopsNext ==
  \/ EngineStart
  \/ \E i \in StopId : StopCalled(i) \/ StopStep(i)
  \/ \E l \in LoopId : LoopStep(l)
  \/ \E t \in AgentTask : AddTask(t) \/ RemoveTask(t) \/ BecomesDue(t)

\* The event loop runs what is ready, sleeps end and handlers return.
LoopsFairness ==
  /\ \A i \in StopId : WF_loopVars(StopStep(i))
  /\ \A l \in LoopId : WF_loopVars(LoopStep(l))

LoopsSpec == LoopsInit /\ [][LoopsNext]_loopVars /\ LoopsFairness

-----------------------------------------------------------------------------
\* Properties

\* Loops, calls and tasks keep their types.
LoopsTypeOK ==
  /\ engineOn \in BOOLEAN /\ warmOn \in BOOLEAN /\ shutdown \in BOOLEAN
  /\ tracked \subseteq LoopId /\ mainLoop \subseteq LoopId
  /\ \A l \in LoopId :
       /\ loop[l].at \in {"over", "new", "asleep", "backoff", "handler"}
       /\ loop[l].todo \subseteq AgentTask /\ loop[l].cur \in AgentTask \cup {NoAgentTask}
  /\ \A t \in AgentTask : agent[t].status \in {"pending", "running", "completed", "failed"}

\* "Graceful shutdown": when every stop() has returned, no loop of this or of an
\* earlier start is alive, however often and wherever in a tick it was called.
QuietAfterStop ==
  ~engineOn /\ (\A i \in StopId : stopping[i] = NotStopping) => AllOver(LoopId)

\* Every stop() returns, even if another one is under way and a handler is suspended.
StopsReturn == \A i \in StopId : (stopping[i] # NotStopping) ~> (stopping[i] = NotStopping)

\* "Checks due tasks and runs them": a due task runs, though others suspend, fail or
\* are added and removed under the iteration, unless it is removed or the engine stops.
DueTaskRuns ==
  \A t \in AgentTask : (agent[t].due /\ engineOn) ~> (~agent[t].due \/ ~engineOn)
=============================================================================
