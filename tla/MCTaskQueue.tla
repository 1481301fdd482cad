---------------------------- MODULE MCTaskQueue ----------------------------
(* Instances of TaskQueue for TLC: tasks and workers are model values.     *)
EXTENDS TaskQueue, TLC

\* Process incarnations are interchangeable: used by the safety runs.
WorkerSymmetry == Permutations(Workers)

=============================================================================
