----------------------------- MODULE MCScheduler -----------------------------
(* Instances of Scheduler for TLC. *)
EXTENDS Scheduler, TLC

\* Threads and tasks are interchangeable; used for safety only.
Symmetry == Permutations(Submitters) \cup Permutations(Consumers) \cup Permutations(Tasks)

=============================================================================
