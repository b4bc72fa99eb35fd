---------------------------- MODULE MCJobStorage ----------------------------
(* A small instance of JobStorage for TLC. *)
EXTENDS JobStorage, TLC
=============================================================================
