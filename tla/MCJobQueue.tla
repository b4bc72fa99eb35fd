----------------------------- MODULE MCJobQueue -----------------------------
(* Instances of JobQueue for TLC. *)
EXTENDS JobQueue, TLC

(* Jobs, workers and clients are interchangeable: safety runs only. *)
Symmetry == Permutations(Job) \union Permutations(Worker) \union Permutations(Client)
=============================================================================
