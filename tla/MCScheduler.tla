---------------------------- MODULE MCScheduler ----------------------------
(* Instances of Scheduler for TLC: processes are model values.             *)
EXTENDS Scheduler, TLC

\* Server processes are interchangeable: used by the safety runs.
ProcSymmetry == Permutations(Procs)

=============================================================================
