# Prodinamik engine: TLA+ models, checks and proofs

This directory models the parts of the Prodinamik engine that keep state, run
concurrently, fail and recover. Every module is translated from the Python source;
`PROJECT.json` maps each definition to the lines it stands for, lists the runs, the
mutants that show each property can fail, the hazards, the finding and the theorems.

## 1. The system

The engine drives *runs* (a piece of content, a release, a news item ...) through the
state machine of a *profile*, asks people at certain states, validates, publishes,
and keeps everything in files. Around it there is an *agent grid*: a coordinator hands
tasks to worker nodes, each of which runs a pool of agents. Nodes elect the
coordinator's host with a Raft-like protocol.

| component | state it keeps | operations | interacts with |
|---|---|---|---|
| profiles, state machine (`profiles/`, `state_machine.py`, `sm_*.py`) | a table of states, edges, conditions; history and re-entry counts per instance | `can_transition`, `update_state`, `get_next_states` | both engines |
| async engine (`runtime.py`) | a run cache, entry times, answers per run, watcher tasks | create, transition, answer, archive, timeout watcher, health and compaction loops | run manager, event store, state machine |
| synchronous engine (`engine.py`) | none between commands | create, transition, answer | the same files |
| run manager (`run_manager.py`) | `content-object.md` per run, one snapshot, one log file per change | create, transition, archive, save snapshot, replay, compact | shared by all processes of a data directory |
| event store (`event_store.py`) | one file per event, `index.json`, the last number in memory | append, append_many, read, purge, compact, rebuild | one instance per process and run |
| task queue (`task_queue.py`) | heap, task table, id sets, WAL | submit, dequeue, acknowledge, complete, fail, cancel, replay, compact | coordinator |
| coordinator, registry, scheduler | nodes, load, loops | register, heartbeat, poll_tasks, report_result, assign, health check, timeouts | task queue, supervisors |
| Raft node, transport, cluster (`raft_*.py`) | term, vote, log, commit index, lock | election, propose, append_entries, heartbeats, offline, merge | peers over TCP |
| Raft bridge (`coordinator_raft_bridge.py`) | bridge state, pending promotion | leader elected, step down, promote, demote, attach, detach | Raft callbacks, coordinator start and stop |
| supervisor and worker (`supervisor.py`, `worker.py`) | worker table, coroutine table, status | spawn, run, time out, crash and restart, cancel, stop, clean up | coordinator, model, tools |
| offline mode, elector, distributed runs | pending operations, lease, owner of a run | reconnect, campaign, hand over | Raft, etcd, Consul |
| approval gate, human loop | paused tasks, escalations, audit trail | pause, approve, reject, approve automatically | coordinator |
| budget, cost, degradation, budget controller | spending, limits, level | record, check, degrade, recover | engines, grid |
| adapters, circuit breaker | failures in a row, open until | send, retry, fall back | outside services |
| event bus, safety monitor | seen traces, warnings | emit, check, reset | profiles |
| plugins, registries, migration | tables by name | load, enable, register, migrate | engines |
| auth, rate limit, audit, alerts, metrics, hooks, config, log | keys, buckets, records | check, append | server, command line |
| memory, tools, language model providers | texts, tables of clients | store, search, call | worker |
| validators, drift, prediction, recommendation | scores | score | engines |
| command line, shell, server, dashboard, chaos, benchmark, scripts | none of their own | call the above | people |

What is hard to test here: operations made of several file writes with a crash between
any two; several processes on one data directory without a lock; coroutines that give
way at an `await` and go on with what they read before; calls that hold a lock while
they wait for a peer; timeouts that race an answer; replies that are lost or late;
restarts that forget; things that must happen at last. The `hazards` of `PROJECT.json`
list them at their lines.

## 2. Modules

| module | code | extends / uses |
|---|---|---|
| `TaskLedger` | what the task queue promises, no code | |
| `TaskQueue` | `task_queue.py` | checked to implement `TaskLedger` |
| `Coordinator` | `coordinator.py`, `agent_registry.py`, `scheduler.py` | extends `TaskQueue`; keeps `TaskLedger` |
| `RunManager` | `run_manager.py` | |
| `EventStore` | `event_store.py` | |
| `Raft` | `raft_consensus.py`, `raft_transport.py`, `raft_cluster.py` | |
| `RaftBridge` | `coordinator_raft_bridge.py`, start and stop of `coordinator.py` | |
| `Profiles` | the five shipped state machines as `sm_parser.py` reads them | |
| `Workflow` | `runtime.py`, `engine.py`, `state_machine.py` | takes the profiles as a constant |
| `Supervisor` | `supervisor.py`, `worker.py` | |
| `Offline` | offline mode, CRDT and reconnect of `raft_consensus.py` | |
| `Elector` | `elector.py` | |
| `Oversight` | `approval_gate.py`, `human_loop.py`, their requests in `server.py` | |
| `Spending` | `budget_controller.py` | |
| `EngineLoops` | start, stop and loops of `runtime.py`, `agent_coordinator.py` | |
| `Safeguards` | `cost.py`, `budget.py`, `degradation.py`, `safety.py`, health check of `runtime.py` | |
| `Adapters` | `profile.py` (adapter), `adapters/file_adapter.py` | |
| `Tools` | `tool_executor.py`; `agent run` of `cli.py` | |
| `AuditTrail` | `audit.py` | |
| `AgentMemory` | `memory.py`, `global_memory.py` | |
| `Notices` | `alert.py`, `hooks.py` | |
| `Access` | `auth.py`, `ratelimit.py`, `server.py` | |
| `Catalogue` | `registry.py`, `migration.py` | |
| `Plugins` | `plugin_registry.py`, `plugin.py`, `llm_registry.py`, `llm_base.py`; `plugin_repo.py` | |
| `LlmProviders` | `plugins/llm_openai.py`, `llm_anthropic.py`, `llm_ollama.py` | |
| `Console` | the commands of the grid in `cli.py`, over the log of `task_queue.py` | |
| `Chaos` | `chaos.py` | |
| `Emergence` | `runtime.py`, `aidetect.py`, `skillforge.py`; `autofix.py` | |
| `Subsequences` | list comprehensions with a condition, `list(set)`, `list.index` | used by the modules with lists |
| `MCCoordinator`, `MCRunManager`, `MCRaft`, `MCWorkflow`, `MCSupervisor` | instances of one module for TLC (`EventStore` needs none; `MCCoordinator` has `TaskQueue` too) | |
| `MCCluster`, `MCGrid`, `MCServices`, `MCStorage` | instances of several modules for TLC, see below; `MCGrid` also has `GridSpec`, the whole grid, for the proofs | |
| `GridProofs` | theorems about `TaskQueue`, `Coordinator`, `Elector`, `Spending`, `Oversight`, `Offline` and all of the grid | extends `MCGrid` |
| `EngineProofs` | theorems about the services of an engine process | extends `MCServices` |
| `StoragePartsProofs` | an inductive invariant for each part of `MCStorage` but the runs | extends the modules of the parts |
| `StorageProofs` | theorems about `RunManager` and all of the storage | extends `MCStorage`, `StoragePartsProofs` |
| `RaftProofs` | theorems about `Raft` and `RaftBridge` | extends both |
| `EventStoreProofs`, `SupervisorProofs`, `WorkflowProofs` | theorems about one module | extend that module |

### TaskQueue and Coordinator
`task`, `heap` and the three id sets are the queue's fields; `walTask`, `walActive`, `walDone`
and `walState` are the image that `_replay_wal` would rebuild, so appending an entry is one
replay step on that image, and a crash sets the memory to it. The entry and the change in memory
are one step because no operation suspends between them. A WAL write may fail; the code logs that
and goes on. `Coordinator` adds the registry (as seen by the coordinator), the nodes (as they
are), and `ctl`, the handler under way. A handler is not interrupted by another, since its awaits
do not suspend, but a crash may come between its steps. The coordinator calls the queue's
operations, with one exception: its reassignment loop clears `assigned_node` of the task object
before it calls `fail`, which no log entry says (`Released`); what the queue promises under the
coordinator is therefore stated of the two together (`CoordinatorKeepsLedger`). `worker` is the
`WorkerInfo` of a task that a node holds: it runs, waits as crashed for its restart, runs again,
or has ended. The node asks for as many tasks as it has workers that are not RUNNING, so that
crashed ones count as free. Reports to the coordinator are modelled as its interface takes them;
in `src/` nothing calls `report_result`.

### RunManager and EventStore
One step of `RunManager` makes, reads, writes, renames, moves or removes one file or directory:
saving the snapshot is three (read it, write the temporary file that all processes share, rename
whatever that holds by then), and a rename that finds the file gone raises and ends the
operation. An operation is a record with the list of steps it has left; a crash drops it.
Processes interleave at these steps, as nothing locks the directory. A write is cut off by the
death of its own process only, and no process reads a file while another writes it. The log is
kept as the overlay it puts on the snapshot, per calendar year: the timestamps that
`_compact_wal` compares have different formats, and string order is decided by the year. An event
is its number, its kind and whether its file is whole.

### Raft and RaftBridge
A node calls its peers one after another while it holds its lock; handlers of other nodes'
requests wait for that lock. A message that is never handled is a lost one; a caller may
give up before the handler runs. Terms, votes, logs and commit indices follow the code
(nothing but the log and snapshot survives a restart). `RaftBridge` has one event loop
whose tasks start in the order they were made and give way at the sleep of a promotion and
in `stop()`; an election or a step-down may also come where no loop runs.

### Profiles and Workflow
A profile is a record of its states, edges with conditions in their order, questions,
answers, re-entry limits and the timeouts that may move the run. `Workflow` is one run
under any number of engines of both kinds: create, transition, answer, automatic
progress, the timeout watcher, restart, archive and re-creation. An operation is one
step; what happens inside one is `RunManager`'s subject. Time is what a timeout sees of
it: a moment is fresh until `Tick` makes it old. No shipped profile uses `requires_human`; one
of the two made for the run does.

### Supervisor
`pool` and `handle` are `_workers` and `_worker_tasks`, `info` the `WorkerInfo` objects,
`run` the coroutines of `_run_worker`. A step lasts from one await to the next; the
listener spawns all tasks of an answer without an await, and `answer` holds the rest of
them. The observe-think-act loop of a worker is a number of steps that go on, complete,
fail or time out.

### TaskLedger
The abstract queue: a status per task, what has not been saved, and whether the queue is
shut. A task is submitted, taken, tried again or finished; a restart may set back only a task
whose last change could not be written (and what a compaction at `close` puts back in
line). `ImplementsLedger` says that `TaskQueue` does nothing else, with heap, id
sets and log hidden by the refinement mapping.

### The cluster around the coordinator: Offline, Elector, Oversight, Spending
`Offline` has the node that goes away and the node object it comes back to, in one
process: `reconnect` copies a dictionary whose `NodeState` objects both then share, so
`sm.shared` tells which objects are one. Each pending operation is sent and merged in a step
of its own, between which the leader is written to, steps down or restarts. `Elector` splits each request
into its effect on the store, its answer, and its failure for the sender, whose effect may
still come late. `Oversight` has the event loop (pauses, escalations, the sweep) and the
server's thread (answers) meet in a gate without a lock: lookup and change are two steps in
both. `Spending` separates the recording under the lock, the reading of the sums, and the
writing of the level.

### Services that must make progress: EngineLoops, Safeguards, Adapters, Tools
`EngineLoops` has a step from one await to the next: a loop sleeps, runs an iteration, or
ends when it is cancelled; several `stop()` calls may be under way. `Safeguards` has the
event bus as a bag of calls that are still to be made (subscribers pass events on), the
recorded costs, the level of service and the health check that resets and degrades.
`Adapters` has several sends on one adapter object, with its failure count and circuit.
`Tools` has calls of the three kinds and the threads of the executor: a time limit ends the
wait, and the thread stays taken; `AgentRun` is the polling loop of the command that runs
an agent.

### What is kept: AuditTrail, AgentMemory, Access, Catalogue, plugin files, Console
A step works on one file, as in `RunManager`. In `AuditTrail` the last line of the log may be cut
off by a crash, and the next entry is then glued to it. In `AuditTrail` and `Console` a process
may hold a file open whose name another process has given to a new file. `AgentMemory` is three
machines: the task's store in order of use, the table of a node with its count of writes, and the
registers that nodes pull from each other. `Access` keeps a key's file and the server's cached
copy apart, and counts the tokens of a bucket per unit of time. `Catalogue` gives each
`profile.yaml` a revision, so that a stale answer of a cache can be told; migration is checked
for every plan over a small pair of machines. The plugin store (second half of `Plugins`) has a
directory as the set of what lies in it, so that a half download and a mixture are values.

### Lists, threads and sleeps: Notices, Plugins, LlmProviders, Chaos
In `Notices` each delivery thread of an alert takes the channel's slot under the lock and posts
in a later step, when other threads may have taken slots and posted; the list of hooks a trigger
walks is the registry's own until a removal puts another in its place. `Plugins` keeps what a
plugin depends on by version, and the order with the manifests it was made from, as an installed
version does not renew it. It has the resolution of dependencies as the recursive walk of the
code (a recursive function of what is left to visit), and life cycle hooks that may raise.
`LlmProviders` lets another thread close the client under a call and follows each provider's
`except` clauses. `Chaos` counts time in sixths of a second, the grain of the sleeps, and lets a
thread wake late by `Jitter`.

### From rejection to skill: Emergence
`Emergence` follows a rejection through plan, drift event, history with its limit, skill
file, promotion and index. Confidence is a fraction in the code; the model has the number
of events at which it passes the threshold. Its second half has the remediation: the table of patterns
with its texts that contain each other, and executions that overlap because they await.

### Composite instances
Parts that share no state share a run: a variable `part` chooses, initially and for good,
which of them runs, and the others rest. `MCCluster` has the bridge or two Raft nodes;
`MCGrid` the coordinator under load, the queue as a ledger, `Oversight`, `Spending`,
`Elector` or `Offline` (and `GridSpec`, where all of them run, about which the theorems
are); `MCServices` the services above; `MCStorage` the rest and
`RunManager` over a change of year. Nothing is lost by this, as no part reads another's variables;
where components do interact (coordinator and queue, bridge and coordinator, engine and
state machine, health check, bus, budget and degradation) they are one module.

## 3. Runs

Passing runs (bounds in the cfg). State invariants are checked as conjunctions of named
parts, one per component or theme (`StoreInv == TypeOK /\ AckedReadable`, `FilesKept`, ...), and each
part, type invariants included, has a mutant of the code that breaks the conjunction:

| run | shows |
|---|---|
| `task_queue` | two tasks, one failed write, any number of crashes: nothing queued is lost, the id sets follow the status, replay restores every status |
| `coordinator` | two tasks of different priority and affinity on one node, or a task, two nodes of which one may die, and a crash or a stop of the coordinator; no worker crashes and no report is lost (run `grid` has both): running tasks are assigned, a completed task is final unless it was made available twice, and as long as nodes with a free worker go on calling, a queued task is taken (`QueuedTaskIsTaken`) |
| `run_manager` | two processes that share the snapshot and its temporary file, a crash and its recovery, one run used by one of them and one by both: what recovery computes agrees with the run on disk, and no idle run is unknown to it |
| `event_store` | single and batch appends, purge, compaction, a failed write, two crashes, an archived run: an acknowledged event stays readable, none is overwritten, a purge deletes what it should |
| `raft` | three nodes, two terms: one leader per term, and no vote counts twice |
| `workflow` | the five shipped profiles and two with every timeout policy, under both engines: only an answer opens a state behind `human_approved`; no dead end but one kind; answers are honoured; timeouts are not early and overdue runs move on |
| `supervisor` | listener and direct spawns, crashes and a restart, cancel, stop, cleanup: the listener keeps the pool's limit, workers can be found and cancelled, none shares its record, and they leave the pool |
| `cluster` | three elections and their step-downs, each on the loop, in a thread without one or where it is not running, forced changes, failing starts: the coordinator runs just on the leader if nothing was forced or failed and the last change came on the loop (`BridgeInv`), and a change that came on the loop never leaves the bridge in transition (`BridgeSettles`); two Raft nodes that call each other while each holds its lock free it again (`LockIsReleased`) |
| `grid` | `AgentsHeld`: two tasks on one node, a worker that crashes and restarts, lost messages: neither stale load figures nor crashed workers that are offered as free give the node more to run than it has workers, the restarts left aside, which ask for no slot (`WithinCapacity`); a pause waits, is answered or was replaced by a later one (`PauseNotLost`); overspending pauses, once evaluations do not overlap (`OverspendPauses`). `HumanAnswerStands`: a person's answer to a pause that was not stale is not changed. `AgreementKept`: on Consul only the node the key names believes it leads, through failing and late requests and crashes; offline writes reach the leader once, the leader's state is its log, the merge does not depend on the side outside its ties. `ImplementsLedger`: the queue implements its ledger under crashes and failing writes |
| `services` | `EndedWell`: no loop works after `stop()`, an artifact reported as sent is sent or saved, a busy tool has a call. `LoopsProgress`: every `stop()` returns, and a due task runs although the table changes under the tick. `GuardsProgress`: the bus drains, an exceeded hard limit ends in survival. `CallersReturn`: a send ends, calls of tools end unless threads are used up by calls that hang, `agent run` returns |
| `storage` | `FilesKept`: recovery agrees with the runs of one process, also over a change of year and through crashes; a recorded audit entry is found, unless it was glued to a line that a crash cut off; a revoked key stays out, unless the revocation was a command's under a server that has the key cached; while a plugin with a checksum is recorded as installed from the repository, its directory never has half a download or a mixture in it; a task submitted while nobody else uses the log is found. `DerivedAgrees`: tags follow the store, the table is bounded as long as its clean-ups succeed, exchanged registers agree, versioned lookups are fresh, the index of skills is right. `TimesKept`: the slots of a channel are spaced, each post has one and comes no earlier than it, and a channel is heard, the burst bounds what a key gets through, a scenario's snapshots see the fault and its end. `LoadOrder`: a dependency stands before what needs it by the manifests the order was made from, and these are the current ones but for versions installed since. `SequencesSafe`: an enabled plugin is set up, the default provider is registered; a migration keeps the runs that can go on; a model call raises errors of its hierarchy only; a trigger calls all who were there; skills need rejections and promotions are earned. `SuccessRests`: a success gives its signature the full rest |

Run `coordinator_delivery` is a violation: `poll_tasks` says "Worker nodes call this to get
new tasks", and a task that the scheduler assigned is never handed to its node.

### Where code and text disagree
Many properties hold only under a condition, which is written into the property (a conjunct
on a history variable), into a bound of its run, or into an assumption of its theorem. The
condition is the boundary of what the code does: each stands for a sentence of the
repository that is not true without it. Found with the same models by relaxing the condition:

| code | what happens | text | condition |
|---|---|---|---|
| `coordinator.py:243` | the scheduler's assignments are never delivered | `coordinator.py:248` | run `coordinator_delivery` |
| `supervisor.py:417` | `heartbeat` is called with one argument, the `TypeError` is swallowed, and nothing calls `report_result`: no node calls as `QueuedTaskIsTaken` supposes | `coordinator.py:225` | `FreeNodesCall` |
| `supervisor.py:373` | crashed workers that wait for their restart are offered as free, and restarts ask for no slot: a node can run more than it has workers | `supervisor.py:103` | `WithinCapacity` leaves the restarted ones out |
| `coordinator.py:390` | `assigned_node` of a task that has no retries left is cleared in memory and stays in the log | `task_queue.py:3` | `CrashRecoversStatus` leaves out the node of tasks that are not assigned |
| `coordinator.py:288` | a late result of a node that was given up overwrites that of the second run, as `report_result` does not look at the node | `coordinator.py:289` | `requeued` |
| `coordinator.py:388` | after a failover the registry is empty, and tasks on nodes that do not return stay assigned | `coordinator.py:24` | none claimed |
| `coordinator.py:343` | the timeout watcher looks for RUNNING, which nothing sets | `coordinator.py:335` | none claimed |
| `task_queue.py:391` | a retried task comes back from a replay without retry count, context, tools and limits | `task_queue.py:159` | `CrashRecoversStatus` is about status and node |
| `run_manager.py:555` | compaction deletes log entries that the saved snapshot does not hold | `docs/api/run_manager.md:399` | `RecoveryAgreesWithRun`: the last operation returned |
| `run_manager.py:196`, `:373` | `create_run` and `archive_run` change the files before the log | `run_manager.py:13` | the same |
| `run_manager.py:425` | the temporary file is shared: of two processes that save at once, the second finds it renamed away and raises `FileNotFoundError` after its log entry, so `update_state` returns without writing the run | `run_manager.py:424` | `torn` |
| `run_manager.py:344` | the version is never compared, two processes overwrite each other's transition | `run_manager.py:59` | `Sole` |
| `runtime.py:835` | the engine replays the log and drops the result | `run_manager.py:15` | what recovery computes, not what the engine shows |
| `event_store.py:248` | a batch that fails half-way has its numbers used again | `event_store.py:45` | `faults = 0` in `EventsImmutable` |
| `event_store.py:203` | two stores on one run use the same numbers | `event_store.py:4` | one store in the run |
| `event_store.py:355` | a cut-off file makes `purge` raise | `event_store.py:342` | no cut-off file in `PurgeRemovesExpired` |
| `event_store.py:400` | compaction without old details only adds a summary | `event_store.py:6` | none claimed |
| `raft_consensus.py:162` | two of four votes win | `docs/glossary.md:79`, `docs/dev/adr.md:87` | odd size in `OneLeader` |
| `raft_consensus.py:110` | a restarted node votes again in a term | the same | `MaxRestarts = 0` |
| `raft_consensus.py:608` | followers place entries behind the wrong index and apply other commands | `raft_consensus.py:96` | none claimed |
| `raft_consensus.py:612` | answers to AppendEntries are dropped, three nodes never commit | `raft_consensus.py:465` | none claimed |
| `coordinator_raft_bridge.py:157` | a step-down where no event loop runs leaves the coordinator running | `coordinator_raft_bridge.py:43` | `~unseen` |
| `coordinator_raft_bridge.py:198` | an election where no event loop runs (`cli.py:811` is a plain call) leaves the coordinator stopped, and the bridge in transition if the loop exists but is not running | `coordinator_raft_bridge.py:43` | `~unseen` |
| `coordinator_raft_bridge.py:184` | a promotion that was overtaken reports the bridge active | `coordinator_raft_bridge.py:4` | the property is about the coordinator |
| `coordinator.py:171` | `stop()` closes the queue of a coordinator started meanwhile | `task_queue.py:3` | the same |
| `state_machine.py:386` | an unknown condition holds, so design and research need no approval | `profiles/design.py:13`, `profiles/research.py:13` | `Guarded` |
| `run_manager.py:306` | a news run cannot leave `published_active` | `profiles/haber.py:5` | `DeadEnd` |
| `runtime.py:765` | answers mapped to states without a transition, or behind flags no answer sets, are lost | `runtime.py:713` | some flags of answers open it |
| `engine.py:244` | the synchronous engine refuses a request for changes | `engine.py:189` | `AnswerHonoured` is about the async engine |
| `runtime.py:354` | an entry time of an earlier visit makes a timeout early when another engine moved the run | `docs/api/runtime.md:90` | `~mixed` |
| `runtime.py:467` | most timeouts of the shipped profiles force nothing | `docs/api/sm_types.md:64` | `OverdueMovesOn`: the policy has a target |
| `engine.py:227` | an answer that nothing is mapped to raises `NameError`: the module lacks `datetime` | `engine.py:224` | none claimed |
| `state_machine.py:266` | a transition with `requires_human` is refused to people too, nothing overrides it | `docs/guide/state-machine.md:148` | `AnswerHonoured`: some answer opens it |
| `state_machine.py:272` | re-entries are not bounded | `docs/api/sm_types.md:63` | none claimed |
| `runtime.py:649` | a new run inherits the answer count of an archived one | `runtime.py:637` | none claimed |
| `supervisor.py:303` | a restarted worker exceeds the pool | `supervisor.py:103` | listener's workers in `WithinPool` |
| `supervisor.py:221` | the semaphore is released before the worker runs | `supervisor.py:232` | the same |
| `supervisor.py:222` | ids are used again after a cleanup | `supervisor.py:103` | each task is handed over once, ids differ |
| `supervisor.py:192` | a worker spawned during `stop()` goes on | `supervisor.py:181` | none claimed |
| `supervisor.py:304` | cancelling a restarted worker cancels nothing | `supervisor.py:352` | `~Restarted` |
| `supervisor.py:189` | CANCELLED is written over COMPLETED | `supervisor.py:52` | none claimed |
| `worker.py:191` | a goal achieved in the last step is a failure | `worker.py:190` | none claimed |

The modules about the surroundings of the core add the following. A name in the last
column is the condition or history variable of a property; the other rows are behaviour the
model has (or that keeps an operation out of it) and that no property claims otherwise.

| code | what happens | condition |
|---|---|---|
| `elector.py`, `_etcd_campaign` | the put is unconditional, every node wins; no lease is created, so the key of a dead leader stays | property about Consul, `~misused` |
| `raft_consensus.py`, `reconnect` | the node shares `NodeState` objects with the leader; a refused operation is dropped; states of equal version without an order stay apart | `excused`, `outside`, `MergeAgrees` |
| `raft_consensus.py`, `_load_log` | a restarted leader applies its log again to the snapshot | `outside` |
| `distributed.py`, `sync_from_raft` | nobody calls it: runs of other nodes are never seen | not modelled |
| `approval_gate.py`, `pause_task` | a second pause replaces the first, which is never answered | `PauseNotLost` |
| `approval_gate.py`, `auto_approve_stale` | automatic approvals are not in the audit trail, and can follow a person's answer to a stale pause | `~stale` |
| `server.py`, `_api_human_pause` | imports a module that does not exist; the server's human loop is not the coordinator's | none claimed |
| `budget_controller.py`, `_evaluate_level` | overlapping evaluations write an old level; weekly and monthly sums are not enforced; a task's cost never ages | `~crossed` |
| `runtime.py`, `stop` | `_shutdown_event` is never cleared, so who waits for the end of a second start does not wait | none claimed |
| `agent_coordinator.py`, `_tick` | a cancelled handler leaves its task RUNNING | none claimed |
| `safety.py`, `check_all` | nine of ten invariants cannot be called with the arguments they get | none claimed |
| `runtime.py`, health check | the number of all model calls is taken for failures in a row | modelled as it is |
| `degradation.py`, `apply_action` | STOP goes from full to survival at once, which `degradation.py:166` excludes | `HardLimitEnds` is about the health check |
| `profile.py`, adapter | the shipped adapters raise no transient error, so the circuit never opens, and it never closes; two sends of one second share a file name | `clobbered` |
| `adapters/file_adapter.py`, Buffer | an error is built with an unknown argument and raises `TypeError` | modelled as it is |
| `tool_executor.py` | a cancelled call leaves BUSY; a generator has no limit; threads of timed-out calls can use up the pool | `CallEnds`, `BusyIsCalled` |
| `cli.py`, `agent run` | hangs when the worker stays crashed | a crashed worker is run again |
| `audit.py`, `_rotate`, `compact` | entries go to a file that was replaced; two processes give a segment one number | `excused` |
| `audit.py`, `record` | a crash can leave a piece of a line, and the next entry is glued to it and lost | `excused` |
| `memory.py` | re-tagging keeps the old tags; the count of writes restarts at 0; a clean-up that fails is swallowed, and the table grows past its bound | `TagsFollowStore`, `opened` in `RowsBounded` |
| `global_memory.py`, `get_changes_since` | a deletion of another node's entry never reaches its author; equal stamps stay apart | `ExchangeAgrees` |
| `alert.py` | a rate-limited alert is lost and its repetition suppressed; a failed post keeps its slot | `ChannelHeard` |
| `alert.py`, `_deliver` | "Deliver alert to a single channel with rate limiting": a thread that took its slot may post late, next to another's post | `PostsSpaced` is about slots, and posts against earlier slots |
| `auth.py`, `validate_key` | a command's revocation of a key the server has cached is undone by the key's next request | `revoked` in `RevokedStaysOut` |
| `ratelimit.py`, `check` | the first request passes whatever it costs | cost 1 |
| `registry.py`, `register` | the answer without a version stays stale; versions are sorted as text in one place, as numbers in another | versioned answers |
| `migration.py`, `CONTENT_V1_TO_V2` | fails when applied, as the state it adds is not in the machine | plans are general |
| `plugin_registry.py` | `on_enable` of providers is awaited though synchronous, so they end in ERROR; discovery replaces an enabled plugin; re-enabling doubles hooks | `EnabledIsSetUp` |
| `plugin_registry.py`, `install` | puts a version with other dependencies in place without `_resolve()`, so that a dependency can stand behind its dependent; nothing reads `_sorted_order` | `installed` in `LoadOrder` |
| `plugin_repo.py` | the index is written in place: a torn one forgets every plugin; an uninstall that crashes leaves a record without files, and `install_local`, which looks at the directory alone, then puts a local plugin under that record | `InstalledIsPublished` |
| `cli.py`, `coordinator queue`, `nodes`, `submit`; `task_queue.py:505` | each compacts the daemon's log, and the daemon's stop writes its own tasks over submitted ones, though `task_queue.py:3` promises "crash recovery" | `KeptAlone` |
| `cli.py`, `human ...`, `agent supervisor ...` | look at fresh objects, or at an attribute nobody sets | not modelled |
| `plugins/llm_openai.py` | a connect timeout is a plain provider error; an empty answer raises `IndexError` outside the `try` | `OnlyProviderErrors` |
| `plugins/llm_ollama.py` | a stream without its end is returned as complete | none claimed |
| `hooks.py`, `trigger` | a handler added meanwhile is called, one removed meanwhile too | `EveryoneHeard` |
| `chaos.py` | exit codes of the commands are ignored, an attribute that does not exist is read on errors, a kill leaves the fault | `FaultGoneAtEnd`, `SeenUnderFault` |
| `runtime.py`, `check_emergence`; `skillforge.py` | an existing skill is rewritten with its statistics reset; four plans are needed, not three | `PromotionEarned` |
| `autofix.py` | "hitl timeout" is taken for a connection timeout; an overlapping failure shortens a rest; ESCALATED is overwritten by FAILED | `SuccessRests` |

Hazards the code fails outright, so that no property is checked against them: two event
stores on one run (`event_store.py:203`), the vote forgotten at a restart
(`raft_consensus.py:110`), AppendEntries out of order (`raft_consensus.py:187`).

### Bounds
Two tasks are enough for the order of priorities and for two entries of one set; two nodes
for a failover; two processes for each race on a file, two runs for the files they share.
Three Raft nodes are the least with a majority that is not everybody; two terms let a leader
be deposed and a vote of the old term arrive late. Two tasks on a pool of one let the
listener take one while the other works; `MaxRuns` leaves one coroutine for a restart.
`coordinator` has no failed WAL writes, which `task_queue` has, and no crashing workers and
lost reports, which `grid` has. Workflow needs no bound
besides the caps on counters, which stop where the code stops to distinguish.
In the composite runs: two requests, threads, processes or sends for each race; three nodes
for registers that travel over a third; two refresh threads a node, or one and a failure and
a crash, for the elector; one more row, fact and history entry than a limit, so that eviction and
clean-up happen; two trips' worth of operations (`MaxAway = 2`) so that one of two is refused;
`Threads = 1` so that a hanging handler uses up the pool; limits of 2 to 6 units for budgets;
clocks that run longer than the longest interval. A real limit that is larger (10000 entries of
a segment, 64 KB) behaves like the small one: only reaching it matters.

### Fairness
An event loop runs ready callbacks in turn, so a started handler goes on (weak fairness of its
steps) and timers go off (weak fairness of `Tick`, polls and loops); in `Supervisor` some
coroutine goes on whenever one can, and no more is assumed. In `Coordinator` only a handler that
has started goes on; that nodes with a free worker go on calling is the hypothesis of
`QueuedTaskIsTaken` (`FreeNodesCall`), since the supervisor's calls fail. `FullFairness`, with
clients that call again and again, is for run `coordinator_delivery` alone, where it makes the
violation the stronger: not even then does an assigned task reach its node. In `Raft` a call that
is under way goes on by an answer or its timeout; elections, proposals and restarts are never
forced. Commands of users are never fair. In `MCServices` the loops, the handlers that are
waiting on the bus, the periodic health check, the steps of a send, a tool's threads and the
worker of `agent run` go on; a tool that hangs never returns and is not fair; nothing forces a
user to start, stop, send or call.

### Deadlock
Raft and the composite instances may stop when their bounds are used up and are checked with
`CHECK_DEADLOCK FALSE`; everywhere else deadlock is checked.

## 4. Proofs

All theorems hold for every value of the constants that satisfies the named assumptions, so
without the bounds of the runs: any number of tasks, nodes, runs, threads, crashes and calls.
A condition beyond these assumptions is a hypothesis of the theorem and is named below.

* **`GridProofs`, the queue.** `QueueTypeCorrect`, `QueuedTasksKept` (every queued task is
  in the heap and can be dequeued), `IdSetsCorrect` and `CrashRecovery` (what a crash makes of a
  task's status is what it was, as long as no write failed) follow from `QueueInv`.
  `IdSetsFollowStatus` is not inductive by itself: a crash replaces the sets in memory by
  those of the log image, so `QueueInv` has the same statement for the image. `QueueRefinesLedger`:
  the queue implements `TaskLedger`, every step being one of the ledger's or none. The
  refinement needs one more fact, `KnownWasUsed`: a task with a status was submitted, also
  after a crash, so that what comes back is no new task.
* **`GridProofs`, the coordinator.** `CoordinatorCorrect` (a task that a node runs is assigned
  to it), `NodesWithinCapacity`, `CompletedStaysFinal` and `CoordinatorKeepsLedger` (the
  queue implements its ledger under the coordinator too, whose reassignment loop gives up a task
  with a cleared node, which is no step of the queue). The inductive
  invariant `GridInv` says of each handler that is interrupted what it has checked and what
  may have changed since; a reassignment that is under way and the answer to a poll on its
  way to the node are the cases in which neither side alone knows of the task.
* **`StorageProofs`, the run manager.** `RecoveryCorrect`: what recovery would compute at any
  moment agrees with the runs on disk, if recovery deletes no log file (one calendar year, or no
  crashes) or if one process uses the directory. The invariant says of every operation, by the
  steps it has left, what log, snapshot, temporary file (with one process) and file show of its run; an idle run's last log entry is the file's state unless compaction took it, and then
  the snapshot has it. With two processes and a change of year the theorem is false: the later
  snapshot drops the other process's update, which only the log then has, and compaction deletes
  it. `IdleRunsAreKnown` needs neither condition. A rename that raises leaves its operation cut
  short after the log entry: `torn` has the run until another operation makes up for it.
* **`EngineProofs`, the services.** `ServicesEndWell` states `EndedWell`, for any loops, adapters,
  tools, threads and limits. `QuietAfterStop` needs that a loop that is alive is held by the
  engine or the coordinator (`AliveIsHeld`), that what is held after the engine was stopped has a
  `stop()` under way (`HeldIsAwaited`), and that each `stop()` awaits all that is held at its stage
  (`AwaitsAll`): this is where several calls of `stop()` meet, since the first to return
  clears what the others still await. `SentOrSaved` needs that an open circuit and a pause occur with
  adapters only that know transient errors, and that the one that posts in parts never reports
  success (`OnlyBasePauses`). `BusyIsCalled` is inductive; the types beside it need that a chain
  has links left while one is under way and that the threads taken are finitely many (`ToolsInv`).
* **`EventStoreProofs`**, for one store on a run (`OneStore`; two use the same numbers).
  `StoreCorrect`, `EventsStayImmutable`, `PurgeIsComplete`. The invariant relates the numbers
  in files, in memory and in `index.json`: what is acknowledged is in a whole file and will
  be in the index however it is found (`AcksKept`), the next number is higher than every file's
  unless a write failed (`NumbersNew`), and what a purge has passed is either gone, not
  expired, or unreadable (`PurgePassed`).
* **`SupervisorProofs`.** `PoolCorrect` and `CancelStaysFinal` hold as long as no two workers are spawned
  under one id (`IdsUnique`); `spawn_worker` makes an id of eight characters of the task's and
  the size of the pool, so that this is a condition on the tasks: `IdsStayUnique` shows it of
  tasks that differ in those characters and are handed over once. That is what ids made at random
  give with few tasks only, as eight characters of `task-` and twelve hexadecimal digits leave
  4096 values. `WithinPool` needs that the
  slots taken are those of coroutines that hold the semaphore or will, and `OneWriter` that an
  id leads to one record and that to one coroutine.
* **`RaftProofs`.** `VotesAreExclusive` and `OneLeader`: with an odd number of nodes and no
  restarts there is at most one leader in a term. `OneLeaderPerTerm` is not inductive: two
  candidates must not count the same voter, so `ElectionInv` has `VotesExclusive` (votes
  counted, and votes under way in replies, of one term go to one candidate) and that a
  node's recorded vote backs them. The rest is that two majorities of a finite set of odd
  size share a member (from `FiniteSetTheorems`). Both conditions are needed (section 3).
  `TypesKept`, for any cluster and with restarts, needs the types of messages under way and
  that who leads has a term above 0; that the placing of entries (a recursive function) is
  defined at all is shown by least counterexample (`PlacingExists`).
* **`RaftProofs`, the bridge.** `BridgeCorrect`: once the bridge's tasks have run, the
  coordinator runs on the leader and nowhere else, if the last change of leadership came on the
  event loop. The argument is that tasks start in the order in which they were made, so that the
  last task that has not begun decides; if there is none, the ones that wait see the leadership
  again after their sleep.
* **`WorkflowProofs`**, for any profiles that satisfy `WorkflowAssumption`. `OnlyPeopleApprove`, if every
  way into the state asks for `human_approved`, the profile does not begin there, and no default
  answer leads there (`ApprovalAsked`; TLC evaluates that the profiles of run `workflow` satisfy it).
  `AnswersAreHonoured`. `TimeoutsAreNotEarly`, if one async engine alone moves the run (`OneWatcher`).
  `RunStaysInProfile`.
* **`GridProofs`, parts.** `KeyNamesTheLeader`: on Consul at most one node has a claim to the
  key, also by requests that are late (`OneClaim`). `CostsPause`: sums above a limit are followed
  by a pause unless evaluations overlapped. `PausesAreAnswered` and `HumanAnswersStand`: a pause
  is answered once (`AnsweredOnce`), and the sweep and the thread hold what they looked up or an
  older pause (`SweepIsCurrent`). `OfflineWritesKeptOnce`: operations differ (`WritesDiffer`),
  and each is pending, resolved, dropped by a refusal, or in the leader's log, through every step
  of `reconnect` (`WritesKept`, `ReconnectPassed`). `HomeStatesFollow`: the leader's states are
  the replay of its log. The replay is a recursive function; that it is defined, and that
  applying one more command continues it (`ReplayContinues`), is shown without an induction
  theorem, by least counterexample over the length of the log.
* **`StoragePartsProofs`** has, for each part of `MCStorage`, an inductive invariant (`AuditInv`,
  `MemoryInv`, ...), that the initial states satisfy it (`AuditInitInv`), that steps keep it
  (`AuditNextInv`), that it does not mind when the part rests (`AuditRests`), and what it says of the
  properties (`AuditHolds`). What makes each of them inductive:
  - *audit trail*: what the recorder and the compaction have taken out of the log, between two
    steps on its files, is in a segment, in what they hold, was written to a file that had lost
    its name, or was glued to a line cut off (`RotatedIsFound`, `CutIsHeld`, `CutIsPut`,
    `RestIsHeld`);
  - *memories*: no key has two rows (`KeysApart`), so that a clean-up, which counts for every row
    those before it, leaves no more than it should; the author of a live entry holds it or a
    later one (`HoldsSince`), so that two nodes that pulled from each other cannot hold different
    entries;
  - *alerts, keys*: a channel remembers its last slot and none was taken after it, and every post
    has a slot (`PostsOfSlots`); a cached key is not enabled when its file says otherwise
    (`RevokedIsFiled`), and what was spent since a bucket was full is bounded by what is gone
    from it plus the time (`Spent`);
  - *profiles and plugins*: a versioned answer of the cache was looked up in the files as they
    are; no plugin is listed twice, and one that is enabled was set up; a download has a
    directory, so what an install records is what it verified (`CallIsSound`);
  - *commands of the grid*: as long as no two processes have been alive at once, the one that is
    writes to the log that has the name and has all that is in it (`OneAtATime`);
  - *hooks*: what a trigger has called is what was registered at the places it passed, and the list
    it walks only grows at the end or is replaced by another list (`HeardSoFar`);
  - *chaos*: two sleeps run side by side, and the difference between them is fixed by the arithmetic
    of their durations (`ChaosInv`), as long as no thread wakes two sixths of a second late or later;
  - *skills*: the history has an event for some of the rejections that were planned for, so no
    more of them than a set of finite size has (`Late`); statistics count no more than was
    earned;
  - *remediation*: a success keeps its signature at rest unless a failure overlapped
    (`RestKept`), and what is under way began before the success or long after it (`BegunApart`).

  Lists made by a condition (`Subsequences`) are defined by places: that each place has its number
  (`NthExists`), that order and length are kept, and what an `Append` adds, are lemmas, proved by least
  counterexample, on which the parts with lists rest.
* **`StorageProofs`, the whole.** `StorageKeepsFiles`, `StorageDerivesTruly`,
  `StorageKeepsTimes`, `SequencesStaySafe` and `SuccessesRest` state `FilesKept`,
  `DerivedAgrees`, `TimesKept`, `SequencesSafe` and `SuccessRests` of `StorageSpec`. A step moves
  one part or none (`OnePartMoves`), so the invariants of the parts hold together (`StorageInv`).
  Only the first has a condition, the one of the run manager.
* **`GridProofs`, the whole.** `GridHoldsAgents` and `GridNodesAgree` state `AgentsHeld` and
  `AgreementKept`, the invariants of run `grid`, of `GridSpec`, where all parts run together.

Only model-checked: the liveness properties (the prover does no fairness); `CanFinish` of
`Workflow`, which depends on the transitions a profile has (its other half, `TypeOK`, is proved);
`LoadOrder`, which is about what the recursive walk of `Plugins` computes, for every graph of
dependencies, and would need an induction over it.

## 5. Not modelled, and the plan

Not modelled because there is nothing for a model checker: prompts, text and floating-point
scores (validators, prediction, recommendation), formatting and output (shell, debugger,
dashboard, Hermes bridge), metrics and logs, what shell commands, HTTP services and tools do
outside, benchmark, scaffolding and scripts. Not modelled because nothing in the engine drives
them: the distributed run coordinator, whose synchronisation has no caller, and the table of
agent states, which only tests read. Inside the modelled parts: event payloads, reminders,
health reports, callbacks that nobody registers; `PROJECT.json` names them per component.

What is left: the modules of the surroundings (command line, prediction, validation) have parts
that keep no state between calls and are not modelled; the shared data directory of engine and
grid processes (`runs/`, `.wal/`, `events/`), which `RunManager` and `EventStore` model apart,
could be one module.
