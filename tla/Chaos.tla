-------------------------------- MODULE Chaos --------------------------------
(* The chaos engine (engine/chaos.py) and the command that drives it. A       *)
(* scenario injects a fault, looks at the engine's health while the fault is  *)
(* in force and again after it, and the fault of five of the ten scenarios is *)
(* taken away by a daemon thread that sleeps in parallel with the scenario:   *)
(* whether the three health snapshots mean anything is a matter of two sleeps *)
(* that run side by side. Time is counted in sixths of a second, the grain of *)
(* the sleeps in the code.                                                    *)
EXTENDS Integers, Sequences, SequencesExt, Subsequences

CONSTANTS
  Override,     \* the values given to --duration, in seconds
  Jitter,       \* how late, in sixths of a second, a thread may wake
  MaxSignals    \* how many times the process may be killed
ASSUME ChaosAssumption ==
  /\ Override \subseteq Nat \ {0} /\ Jitter \in Nat /\ MaxSignals \in Nat
  /\ Jitter < 2        \* the shortest pause between the two snapshots

VARIABLES
  stage,     \* where the process is: "none", "ready", "inject", "settle", "recover"
  todo,      \* the scenarios still to run, the one under way first
  length,    \* the duration of the scenario under way, in seconds
  pause,     \* what is left of the main thread's sleep (negative: late)
  injected,  \* result.fault_injected
  erred,    \* result.errors is not empty
  before,    \* result.health_before
  undo,      \* the faults in force that a daemon thread will undo: what is left
             \* of the sleep of each thread
  result,    \* the verdict saved last
  signals    \* kills so far

chaosVars == <<stage, todo, length, pause, injected, erred, before, undo, result, signals>>

Second == 6
Woken == -1 - Jitter    \* no thread sleeps

\* The order of the dictionary, which run_all follows.
Order == <<"network-partition", "network-latency", "disk-full", "disk-corruption",
           "memory-pressure", "cpu-spike", "random-crash", "degraded-mode",
           "wal-corruption", "event-flood">>

\* ChaosEngine.SCENARIOS: the durations, in seconds, and the dangerous ones
Scenario == ToSet(Order)
Durations == [s \in Scenario |->
  CASE s \in {"disk-corruption", "memory-pressure", "event-flood"} -> 3
    [] s = "random-crash"  -> 2
    [] s = "degraded-mode" -> 8
    [] OTHER               -> 5]
Dangerous == {"disk-full", "disk-corruption", "memory-pressure", "random-crash",
              "wal-corruption"}

\* The faults a daemon thread undoes.
Timed == {"network-partition", "network-latency", "disk-full", "memory-pressure",
          "cpu-spike"}

(* A health snapshot: not available (the engine's run list could not be read) *)
(* or a score, of which "low" and "good" say what the check asks of it: over  *)
(* 50 before the fault, under 10 after it. The level of degradation plays no  *)
(* part: the snapshot spells it in lower case, and deg_rank, which knows      *)
(* upper case only, ranks every spelling it does not know the same.           *)
Health == {"unavailable", "low", "good"}
CheckSurvival(after) == after # "unavailable"
CheckSelfHealing(was, after) == ~(was = "good" /\ after = "low")
Passed(was, after, errors) ==
  CheckSurvival(after) /\ (CheckSelfHealing(was, after) \/ ~errors)

Current == Head(todo)
Sleeping == {s \in Timed : undo[s] # Woken}     \* the faults a thread will undo

ChaosInit ==
  /\ stage = "none" /\ todo = <<>> /\ length = 0 /\ pause = 0
  /\ injected = FALSE /\ erred = FALSE /\ before = "good"
  /\ undo = [s \in Timed |-> Woken]
  /\ result = "none" /\ signals = 0

\* The scenario under way, the sleeps and the result keep their types.
ChaosTypeOK ==
  /\ stage \in {"none", "ready", "inject", "settle", "recover"}
  /\ todo \in Seq(Scenario) /\ (stage \notin {"none", "ready"} => todo # <<>>)
  /\ length \in Nat
  /\ pause \in Int /\ pause >= Woken
  /\ injected \in BOOLEAN /\ erred \in BOOLEAN /\ before \in Health
  /\ undo \in [Timed -> Int] /\ \A s \in Timed : undo[s] >= Woken
  /\ result \in {"none", "passed", "failed"}
  /\ signals \in 0..MaxSignals
-----------------------------------------------------------------------------
(* chaos_run: one scenario, a dangerous one only when it was allowed to, with *)
(* the duration given or the scenario's own; run_all: every scenario, or      *)
(* every one that is not dangerous, with its own duration.                    *)
ChaosRun(s, allowed, seconds) ==
  /\ stage = "none" /\ (s \in Dangerous => allowed)
  /\ stage' = "ready" /\ todo' = <<s>> /\ length' = seconds
  /\ UNCHANGED <<pause, injected, erred, before, undo, result, signals>>

RunAll(allowed) ==
  /\ stage = "none"
  /\ stage' = "ready" /\ length' = 0
  /\ todo' = OnlyIn(Order, {s \in Scenario : s \in Dangerous => allowed})
  /\ UNCHANGED <<pause, injected, erred, before, undo, result, signals>>

\* run_scenario up to the call of the fault's handler: the result record and
\* the first snapshot, taken before the fault.
RunScenario ==
  /\ stage = "ready" /\ todo # <<>>
  /\ stage' = "inject" /\ pause' = 0 /\ injected' = FALSE /\ erred' = FALSE
  /\ length' = IF length = 0 THEN Durations[Current] ELSE length
  /\ before' \in Health
  /\ UNCHANGED <<todo, undo, result, signals>>

\* Variants: the second snapshot is taken after the whole duration; phase 4
\* sleeps for what is left of the duration.
SettleTimeWhole(d) == d * Second
RecoverTimeRest(d) == d * Second - (IF d < 3 THEN 2 * d ELSE Second)

\* Phase 3, the sleep before the second snapshot: a third of the scenario, a
\* second at most. Phase 4, the sleep before the third.
SettleTime(d) == IF d < 3 THEN 2 * d ELSE Second
RecoverTime(d) == d * Second

\* The handler returned: it slept for `own`, said whether the fault is in, and
\* phase 3's sleep follows.
Injects(s, own, ok, raised) ==
  /\ stage = "inject" /\ Current = s
  /\ stage' = "settle" /\ pause' = own + SettleTime(length)
  /\ injected' = ok /\ erred' = raised
  /\ UNCHANGED <<todo, length, before, result, signals>>

\* The fault is in, and a daemon thread sleeps for the duration to undo it.
BeginsFault(s) ==
  Injects(s, 0, TRUE, FALSE) /\ undo' = [undo EXCEPT ![s] = length * Second]

\* No thread will undo anything: there is no fault, or it stays.
NoThread(s, own, ok, raised) == Injects(s, own, ok, raised) /\ UNCHANGED undo

(* iptables and tc: a command that fails (no permission, a rule it does not   *)
(* accept) is not noticed, its exit code is not looked at, and the thread     *)
(* starts all the same; one that is not installed, or that took more than     *)
(* five seconds, makes the handler sleep for the duration instead.            *)
FaultNetworkPartition ==
  BeginsFault("network-partition") \/ NoThread("network-partition", length * Second, FALSE, FALSE)
FaultNetworkLatency ==
  BeginsFault("network-latency") \/ NoThread("network-latency", length * Second, FALSE, FALSE)

\* A write that fails leaves the part of the file that was written, for good,
\* and the handler of the exception raises in turn: self._errors does not exist.
FaultDiskFull == BeginsFault("disk-full") \/ NoThread("disk-full", 0, FALSE, TRUE)

\* Two files of the data directory get other bytes, for good; with no file to
\* choose from there is no fault, and an error raises (self._errors again).
FaultDiskCorruption ==
  \/ NoThread("disk-corruption", 0, TRUE, FALSE)
  \/ \E raised \in BOOLEAN : NoThread("disk-corruption", 0, FALSE, raised)

FaultMemoryPressure ==
  BeginsFault("memory-pressure") \/ NoThread("memory-pressure", 0, FALSE, FALSE)

\* When a thread cannot be started the burning threads already running have
\* nobody to stop them.
FaultCpuSpike == BeginsFault("cpu-spike") \/ NoThread("cpu-spike", 0, FALSE, FALSE)

\* A thread of its own raises and ends; the handler sleeps half a second.
FaultRandomCrash == NoThread("random-crash", Second \div 2, TRUE, FALSE)

(* Writes an attribute that the degradation manager does not have, twice,     *)
(* with two seconds of sleep after each: no level changes. An audit record    *)
(* that fails raises after the first two seconds.                             *)
FaultDegradedMode ==
  \/ NoThread("degraded-mode", 4 * Second, TRUE, FALSE)
  \/ NoThread("degraded-mode", 2 * Second, FALSE, TRUE)

\* Two WAL files, or one it makes for the purpose, get other bytes, for good.
FaultWalCorruption ==
  \/ NoThread("wal-corruption", length * Second, TRUE, FALSE)
  \/ NoThread("wal-corruption", 0, FALSE, TRUE)

\* Up to twenty runs, five for each second, with a tenth of a second between.
FaultEventFlood ==
  NoThread("event-flood", IF length < 4 THEN 3 * length ELSE 2 * Second, TRUE, FALSE)

\* Phase 3's snapshot, which nothing else reads, and phase 4's sleep begins.
CaptureDuring ==
  /\ stage = "settle" /\ pause <= 0
  /\ stage' = "recover" /\ pause' = RecoverTime(length)
  /\ UNCHANGED <<todo, length, injected, erred, before, undo, result, signals>>

\* The last snapshot, the verdict and the saved result; run_all goes on with
\* the next scenario, which has its own duration.
CaptureAfter(after) ==
  /\ stage = "recover" /\ pause <= 0
  /\ stage' = "ready" /\ todo' = Tail(todo) /\ length' = 0 /\ pause' = 0
  /\ result' = IF Passed(before, after, erred) THEN "passed" ELSE "failed"
  /\ before' = "good" /\ injected' = FALSE /\ erred' = FALSE
  /\ UNCHANGED <<undo, signals>>

\* The daemon thread of a fault wakes and takes the fault away.
Restore(s) ==
  /\ undo[s] <= 0 /\ undo[s] # Woken
  /\ undo' = [undo EXCEPT ![s] = Woken]
  /\ UNCHANGED <<stage, todo, length, pause, injected, erred, before, result, signals>>

\* The end of the process ends its daemon threads: a fault they were to undo
\* stays, unless it was one of the process itself (its memory, its threads).
ProcessEnds ==
  /\ undo' = [s \in Timed |-> Woken]
  /\ stage' = "none" /\ todo' = <<>> /\ length' = 0 /\ pause' = 0
  /\ injected' = FALSE /\ erred' = FALSE /\ before' = "good"
  /\ UNCHANGED result

Exit == stage = "ready" /\ todo = <<>> /\ ProcessEnds /\ UNCHANGED signals
ProcessKilled ==
  /\ stage # "none" /\ signals < MaxSignals
  /\ ProcessEnds /\ signals' = signals + 1

\* Time passes for every thread that sleeps; one that has slept enough runs
\* before it is more than Jitter late.
Tick ==
  /\ stage \in {"settle", "recover"} /\ pause > -Jitter
  /\ \A s \in Sleeping : undo[s] > -Jitter
  /\ pause' = pause - 1
  /\ undo' = [s \in Timed |-> IF s \in Sleeping THEN undo[s] - 1 ELSE undo[s]]
  /\ UNCHANGED <<stage, todo, length, injected, erred, before, result, signals>>

Fault ==
  \/ FaultNetworkPartition \/ FaultNetworkLatency \/ FaultDiskFull
  \/ FaultDiskCorruption \/ FaultMemoryPressure \/ FaultCpuSpike
  \/ FaultRandomCrash \/ FaultDegradedMode \/ FaultWalCorruption \/ FaultEventFlood

ChaosNext ==
  \/ \E s \in Scenario, allowed \in BOOLEAN, d \in Override \union {0} :
       ChaosRun(s, allowed, d)
  \/ \E allowed \in BOOLEAN : RunAll(allowed)
  \/ RunScenario \/ Fault \/ CaptureDuring
  \/ \E after \in Health : CaptureAfter(after)
  \/ \E s \in Timed : Restore(s)
  \/ Exit \/ ProcessKilled \/ Tick
-----------------------------------------------------------------------------
(* A fault that a thread undertakes to remove is gone when its scenario ends, *)
(* so that neither the snapshot of the next one (run_all) nor the end of the  *)
(* process, which ends the thread, finds it: run_scenario never waits for the *)
(* thread, it only sleeps for longer.                                         *)
FaultGoneAtEnd == stage \in {"none", "ready"} => Sleeping = {}

(* The snapshot called health_during is taken while the fault that was        *)
(* injected still waits to be removed, whatever the duration asked for.       *)
SeenUnderFault ==
  stage = "settle" /\ injected /\ Current \in Timed => Current \in Sleeping
=============================================================================
