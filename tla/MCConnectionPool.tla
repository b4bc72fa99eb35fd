-------------------------- MODULE MCConnectionPool --------------------------
(* Small instances of ConnectionPool for TLC. *)
EXTENDS ConnectionPool, TLC

(* Connections are interchangeable, and so are calls: safety runs only. *)
Symmetry == Permutations(Conn) \union Permutations(Call)
=============================================================================
