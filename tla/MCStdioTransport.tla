-------------------------- MODULE MCStdioTransport --------------------------
(* Small instances of StdioTransport for TLC. *)
EXTENDS StdioTransport, TLC

(* Requests are interchangeable: safety runs only. *)
Symmetry == Permutations(Req)
=============================================================================
