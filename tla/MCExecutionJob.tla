---------------------------- MODULE MCExecutionJob ----------------------------
(* Small instances of ExecutionJob.  Jobs, workers and tasks are            *)
(* interchangeable: no action or property names one of them.                *)
EXTENDS ExecutionJob, TLC

Symmetry == Permutations(Jobs) \cup Permutations(Workers)
=============================================================================
