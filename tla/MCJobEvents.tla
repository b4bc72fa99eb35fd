----------------------------- MODULE MCJobEvents ----------------------------
(* Small instances of JobEvents for TLC. *)
EXTENDS JobEvents, TLC

(* Calls of one kind are alike, and so are the workers and the clients. *)
Symmetry ==
  Permutations(Waiter) \union Permutations(Streamer) \union
  Permutations(Worker) \union Permutations(Client)

(***************************************************************************)
(* A bound on the schedules: the loader has finished before anything else  *)
(* happens, so no job is loaded twice.                                     *)
(***************************************************************************)
LoadedFirst == EventsNext /\ (lpc # "done" => lpc' # lpc)
LoadedSpec == EventsInit /\ [][LoadedFirst]_allVars
LoadedFairSpec == LoadedSpec /\ EventsFairness
=============================================================================
