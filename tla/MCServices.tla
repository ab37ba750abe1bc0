----------------------------- MODULE MCServices -----------------------------
(* The services of a process that have to make progress, one at a time since  *)
(* they share no state: the engine's loops, the event bus, the budget, an     *)
(* adapter, the tool executor and the command that runs an agent.             *)
EXTENDS EngineLoops, Safeguards, Adapters, Tools

VARIABLE part    \* the one that runs

\* Each of two subscribers answers the event of one type with one of the other.
MCReEmits == [h \in Subscriber |-> IF h = "ab" THEN {"b"} ELSE {"a"}]
MCSoft == [l \in Limit |-> 1]
MCHard == [l \in Limit |-> 2]

MCKind == [t \in Tool |-> CASE t = "a" -> "async" [] t = "s" -> "sync" [] t = "g" -> "gen"]
MCLinks == <<"s", "g">>

ServicesInit ==
  /\ part \in {"loops", "bus", "budget", "adapter", "tools", "agent"}
  /\ LoopsInit /\ SafeguardsInit /\ AdaptersInit /\ ToolsInit /\ AgentRunInit
  /\ part # "adapter" => adapter = "base" /\ retries = 2

Rests(p, state) == IF part \in p THEN TRUE ELSE UNCHANGED state

ServicesNext ==
  /\ UNCHANGED part
  /\ Rests({"loops"}, loopVars) /\ Rests({"bus", "budget"}, guardVars)
  /\ Rests({"adapter"}, adapterVars) /\ Rests({"tools"}, toolsVars)
  /\ Rests({"agent"}, agentRunVars)
  /\ \/ part = "loops" /\ LoopsNext
     \/ part = "bus" /\ BusNext
     \/ part = "budget" /\ BudgetNext
     \/ part \in {"bus", "budget"} /\ HealthCheck
     \/ part = "adapter" /\ AdaptersNext
     \/ part = "tools" /\ ToolsNext
     \/ part = "agent" /\ AgentRunNext

servicesVars == <<part, loopVars, guardVars, adapterVars, toolsVars, agentRunVars>>

\* The fairness each module states, for the part that runs: the event loop runs
\* what is ready, limits expire, and a step of a part at rest is never awaited.
ServicesFairness ==
  /\ \A i \in StopId : WF_loopVars(part = "loops" /\ StopStep(i))
  /\ \A l \in LoopId : WF_loopVars(part = "loops" /\ LoopStep(l))
  /\ WF_guardVars(part \in {"bus", "budget"} /\ SomeCall)
  /\ WF_guardVars(part \in {"bus", "budget"} /\ HealthCheck)
  /\ \A c \in Sending : WF_adapterVars(part = "adapter" /\ SendStep(c))
  /\ ToolsFairness          \* nothing to do before the first call
  /\ AgentRunFairness       \* nor before the command

ServicesSpec == ServicesInit /\ [][ServicesNext]_servicesVars /\ ServicesFairness

\* The variables of the part that runs have the types their module gives them.
ServicesTypeOK ==
  /\ part = "loops" => LoopsTypeOK
  /\ part \in {"bus", "budget"} => SafeguardsTypeOK
  /\ part = "adapter" => AdaptersTypeOK
  /\ part = "tools" => ToolsTypeOK
  /\ part = "agent" => AgentRunTypeOK

\* What has ended has ended well: no loop outlives stop(), a send that reported success
\* has sent or saved every part, and no ended call leaves its tool marked as busy.
EndedWell == ServicesTypeOK /\ QuietAfterStop /\ SentOrSaved /\ BusyIsCalled

\* The engine's loops go on: every stop() returns, and a due task runs.
LoopsProgress == StopsReturn /\ DueTaskRuns

\* The guards come to a result: the bus drains, and a hard limit ends in survival.
GuardsProgress == BusDrains /\ HardLimitEnds

\* Whoever waits gets an answer: a send, a tool call and the command that runs an agent.
CallersReturn == SendEnds /\ CallEnds /\ AgentRunReturns
=============================================================================
