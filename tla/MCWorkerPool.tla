---------------------------- MODULE MCWorkerPool ----------------------------
(* Instances of the worker pool: threads and tasks are interchangeable.     *)
EXTENDS WorkerPool, TLC

Symmetry == Permutations(Workers) \cup Permutations(Submitters) \cup Permutations(Tasks)
=============================================================================
