---------------------------- MODULE MCRunManager ----------------------------
(* Small instances of RunManager: a three-state machine with a loop back.     *)
EXTENDS RunManager

CONSTANTS
  r1, r2, p1, p2,
  MaxCalls   \* bound: operations

MCState == {"draft", "review", "done"}
MCEdges == {<<"draft", "review">>, <<"review", "draft">>, <<"review", "done">>}
OneShared == [p \in Process |-> IF p = p1 THEN {r1, r2} ELSE {r2}]

VARIABLE calls   \* operations begun

\* Next in one year, for a number of operations and of crashes (MaxCrashes); MCStorage
\* has the ends of years.
RaceNext ==
  \E p \in Process :
    \/ (FileStep(p) \/ Crash(p) \/ Recover(p)) /\ calls' = calls
    \/ /\ calls < MaxCalls /\ calls' = calls + 1
       /\ \E s \in Slug : \/ Create(p, s) \/ Archive(p, s)
                          \/ \E to \in State : UpdateState(p, s, to)

RaceInit == Init /\ calls = 0

RaceSpec == RaceInit /\ [][RaceNext]_<<vars, calls>>
=============================================================================
