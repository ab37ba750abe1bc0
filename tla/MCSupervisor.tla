----------------------------- MODULE MCSupervisor -----------------------------
(* Small instances of Supervisor: task ids that differ in their first part.  *)
EXTENDS Supervisor

CONSTANTS t1, t2

Distinct == [t \in Task |-> t]
=============================================================================
