----------------------------- MODULE MCCodeMode -----------------------------
(* A small instance of CodeMode for TLC. *)
EXTENDS CodeMode

(* A tool whose toolbox names a command as its server. *)
Tools == {[transport |-> "", command |-> None, server |-> "stdio:cmd"]}
Commands == [s \in {"stdio:cmd"} |-> "cmd"]
NoNames == [s \in {} |-> None]
=============================================================================
