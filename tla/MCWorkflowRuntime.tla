------------------------- MODULE MCWorkflowRuntime -------------------------
(* Small instances of WorkflowRuntime for TLC. *)
EXTENDS WorkflowRuntime, TLC

\* Workers are interchangeable; runs are not (IdleWorker names one).
WorkerSymmetry == Permutations(Workers)
=============================================================================
