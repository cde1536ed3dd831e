----------------------------- MODULE MCPasTask -----------------------------
(***************************************************************************)
(* PasTask on small instances: three activations that may spawn each other *)
(* and a set that grows from one entry to two and no further.              *)
(***************************************************************************)
EXTENDS PasTask

CONSTANTS program, taskA, taskB, taskC, nobody

ThreeTasks == {taskA, taskB, taskC}
=============================================================================
