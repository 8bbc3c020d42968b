---------------------------- MODULE MCThreadPool ----------------------------
(* ThreadPool with sets of model values, for TLC.                          *)
EXTENDS ThreadPool, TLC

\* Producers, workers and tasks are interchangeable.
Symmetry == Permutations(Producer) \cup Permutations(WorkerId) \cup Permutations(Task)
=============================================================================
