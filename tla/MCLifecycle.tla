---------------------------- MODULE MCLifecycle ----------------------------
(* Lifecycle on small instances. *)
EXTENDS LifecycleRefinement, TLC

\* No action tells one container ID, one command slot or one PID from
\* another.  Only the runs without a liveness property use it.
Symmetry == Permutations(Ids) \cup Permutations(Cmds) \cup Permutations(Pids)
=============================================================================
